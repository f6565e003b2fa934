------------------------------ MODULE Parseline ------------------------------
(* The tokens of a command line (parseline in tsh.c) as operators.  A line is *)
(* a sequence of symbols: words, blanks (any white space), quotes, "<", ">"   *)
(* and "&".  A file name is a sequence of at most one text, <<>> for NULL.    *)
EXTENDS Integers, Sequences, FiniteSetsExt

CONSTANT MAXARGS    \* one more than the arguments argv has room for

Blank == " "
Quotes == {"'", "\""}

NoTokens == [argv |-> <<>>, infile |-> <<>>, outfile |-> <<>>]

\* Where the next token or redirection starts; behind the line if nothing follows.
Start(line, at) == Min({i \in at..Len(line) : line[i] # Blank} \cup {Len(line) + 1})

Quoted(line, start) == line[start] \in Quotes

\* The places where a token that starts here may end: the next blank or the end of the
\* line, or for a quoted one the same quote again.
Ends(line, start) ==
  IF Quoted(line, start) THEN {i \in (start + 1)..Len(line) : line[i] = line[start]}
  ELSE {i \in start..Len(line) : line[i] = Blank} \cup {Len(line) + 1}

\* Mutant: the opening quote stays with the token.
TokenAt_with_quote(line, start) == SubSeq(line, start, Min(Ends(line, start)) - 1)

TokenAt(line, start) ==
  SubSeq(line, IF Quoted(line, start) THEN start + 1 ELSE start, Min(Ends(line, start)) - 1)

\* A second "<" or ">" once the first has its file.
Repeated(tok, sign) == IF sign = "<" THEN tok.infile # <<>> ELSE tok.outfile # <<>>

\* The token as argument or file, by what is pending: parsing_state as a set of signs.
Recorded(tok, pending, text) ==
  CASE pending = {}    -> [tok EXCEPT !.argv = Append(@, text)]
    [] pending = {"<"} -> [tok EXCEPT !.infile = <<text>>]
    [] pending = {">"} -> [tok EXCEPT !.outfile = <<text>>]

\* Mutant: no room is left for the NULL.
ArgvFull_late(tok) == Len(tok.argv) >= MAXARGS

ArgvFull(tok) == Len(tok.argv) >= MAXARGS - 1

\* Is the last argument an "&"?  Only its first character is looked at.
is_bg(tok) ==
  /\ tok.argv # <<>>
  /\ LET arg == tok.argv[Len(tok.argv)] IN arg # <<>> /\ Head(arg) = "&"

\* What parseline leaves in tok.
Finished(tok) == IF is_bg(tok) THEN [tok EXCEPT !.argv = SubSeq(@, 1, Len(@) - 1)] ELSE tok
=============================================================================
