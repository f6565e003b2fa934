---------------------------- MODULE MCCommandLine ----------------------------
(* Lines for the shell's parser: commands of the documented form, written in  *)
(* two ways, and lines that are not of that form.                             *)
EXTENDS CommandLine, SequencesExt

File(name) == << <<name>> >>

Command(argv, infile, outfile, bg) ==
  [argv |-> argv, infile |-> infile, outfile |-> outfile, bg |-> bg]

\* An argument with a blank or a sign in it has to be quoted.
Special(word) == \E i \in DOMAIN word : word[i] \in {Blank, "<", ">", "&"}

Written(word, quote) == IF Special(word) THEN <<quote>> \o word \o <<quote>> ELSE word

\* Close: one blank between two words, none behind a sign.  Wide: blanks everywhere.
Close(cmd) ==
  FlattenSeq([i \in DOMAIN cmd.argv |-> Written(cmd.argv[i], "'") \o <<Blank>>])
  \o (IF cmd.infile = <<>> THEN <<>> ELSE <<"<">> \o cmd.infile[1] \o <<Blank>>)
  \o (IF cmd.outfile = <<>> THEN <<>> ELSE <<">">> \o cmd.outfile[1] \o <<Blank>>)
  \o (IF cmd.bg THEN <<"&">> ELSE <<>>)

Wide(cmd) ==
  <<Blank>>
  \o FlattenSeq([i \in DOMAIN cmd.argv |-> Written(cmd.argv[i], "\"") \o <<Blank, Blank>>])
  \o (IF cmd.infile = <<>> THEN <<>> ELSE <<"<", Blank>> \o cmd.infile[1] \o <<Blank>>)
  \o (IF cmd.outfile = <<>> THEN <<>> ELSE <<">", Blank>> \o cmd.outfile[1])
  \o (IF cmd.bg THEN <<Blank, "&", Blank>> ELSE <<>>)

\* No arguments, one in quotes, one that starts with "&", and as many as argv can hold; the
\* shell's own commands.
SomeArgv ==
  {<< <<"run">> >>, << <<"run">>, <<"x", Blank, "<">> >>,
   << <<"run">>, <<"&", "x">> >>, << <<"run">>, <<"x">>, <<"y">> >>, << <<"jobs">> >>}

SomeCommands ==
  {Command(argv, infile, outfile, bg) :
     argv \in SomeArgv, infile \in {<<>>, File("f")}, outfile \in {<<>>, File("g")}, bg \in BOOLEAN}
  \cup {Command(<< <<"quit">> >>, <<>>, <<>>, FALSE)}

SomeMalformed ==
  {<<"run", Blank, "<">>, <<"run", Blank, "<", ">", "f">>, <<"run", Blank, "'", "x">>,
   <<"run", Blank, "<", "f", Blank, "<", "g">>, <<"run", Blank, ">", "f", Blank, ">", "g">>}

SomeSymbols ==
  {Blank, Newline, "'", "\"", "<", ">", "&", "run", "jobs", "quit", "x", "y", "f", "g"}

SomeLines ==
  {[text |-> Close(cmd), means |-> cmd] : cmd \in SomeCommands}
  \cup {[text |-> Wide(cmd), means |-> cmd] : cmd \in SomeCommands}
  \cup {[text |-> text, means |-> Malformed] : text \in SomeMalformed}
  \cup {[text |-> <<>>, means |-> Command(<<>>, <<>>, <<>>, FALSE)]}
=============================================================================
