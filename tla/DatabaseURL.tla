---------------------------- MODULE DatabaseURL ----------------------------
(***************************************************************************)
(* How a database is named: USER:PASSWORD@HOST:PORT/NAME, most of which    *)
(* may be left out, and what Pq::parseURL makes of it.  A URL is a         *)
(* sequence of tokens, of which "@", ":" and "/" separate the others.      *)
(***************************************************************************)
EXTENDS Integers, SequencesExt

\* std::string::find: 0 is npos.
Find(url, token) ==
  LET at == {i \in DOMAIN url : url[i] = token}
  IN  IF at = {} THEN 0 ELSE CHOOSE i \in at : \A j \in at : i <= j

\* substr(first, count); a count below zero, which is a huge unsigned one, takes all.
Substr(url, first, count) ==
  LET last == IF count < 0 \/ first + count - 1 > Len(url) THEN Len(url) ELSE first + count - 1
  IN  SubSeq(url, first, last)

\* What stands before the "@"; the colon is the first of the whole URL.
Credentials(url) ==
  LET apos == Find(url, "@")
      cpos == Find(url, ":")
  IN  IF apos = 0 THEN [user |-> <<>>, passwd |-> <<>>]
      ELSE IF cpos = 0 THEN [user |-> SubSeq(url, 1, apos - 1), passwd |-> <<>>]
      ELSE [ user |-> SubSeq(url, 1, cpos - 1),
             passwd |-> Substr(url, cpos + 1, apos - cpos - 1) ]

\* The host, the port and the name after it; three parts or more are not understood.
Address(url) ==
  LET apos == Find(url, "@")
      rest == SubSeq(url, apos + 1, Len(url))
      slash == Find(rest, "/")
      server == SubSeq(rest, 1, IF slash = 0 THEN Len(rest) ELSE slash - 1)
      name == IF slash = 0 THEN <<>> ELSE SubSeq(rest, slash + 1, Len(rest))
      cpos == Find(server, ":")
  IN  IF Find(name, "/") # 0 THEN [host |-> <<>>, port |-> <<>>, dbname |-> <<>>]
      ELSE IF slash = 0
        THEN IF apos = 0 THEN [host |-> <<>>, port |-> <<>>, dbname |-> server]
             ELSE [host |-> server, port |-> <<>>, dbname |-> <<>>]
      ELSE [ host |-> IF cpos = 0 THEN server ELSE SubSeq(server, 1, cpos - 1),
             port |-> IF cpos = 0 THEN <<>> ELSE SubSeq(server, cpos + 1, Len(server)),
             dbname |-> name ]

\* Pq::parseURL; an empty URL is refused.
ParseURL(url) == Credentials(url) @@ Address(url)

-----------------------------------------------------------------------------
\* A URL as the help of the program has it.
Spelled(u) ==
  LET part(before, x, after) == IF x = <<>> THEN <<>> ELSE before \o x \o after
      who == IF u.user = <<>> THEN <<>> ELSE u.user \o part(<<":">>, u.passwd, <<>>) \o <<"@">>
      where == part(<<>>, u.host \o part(<<":">>, u.port, <<>>), <<"/">>)
  IN  who \o where \o u.dbname

\* Every URL with a name for the database is taken apart as it was put together, but
\* for a user without a password in front of a host with a port: its colon is taken
\* for that of a password.
ParsedAsSpelled(u) ==
  \/ u.user # <<>> /\ u.passwd = <<>> /\ u.port # <<>>
  \/ ParseURL(Spelled(u)) = u
=============================================================================
