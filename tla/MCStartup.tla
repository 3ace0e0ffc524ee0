------------------------------ MODULE MCStartup -----------------------------
(***************************************************************************)
(* Every command line of up to three arguments, two files and an unknown   *)
(* mode among them; in both modes that read one, files that have every     *)
(* combination of good and bad addresses, and with good addresses every    *)
(* combination of keys.  The descriptor 0 is what socket returns when the  *)
(* program was started with its standard input closed.                     *)
(***************************************************************************)
EXTENDS Startup

Option(path) == [key |-> "config", value |-> path]
Prng == [key |-> "prng", value |-> ""]
Word(arg) == [key |-> "arg", value |-> arg]
Arguments == {Option("a"), Option("b"), Prng} \cup {Word(m) : m \in {"client", "server", "keygen", "tunnel"}}
OptionsFirst(line) ==
  \A i, j \in DOMAIN line : i < j /\ line[i].key = "arg" => line[j].key = "arg"
MCCommandLines == {line \in UNION {[1 .. n -> Arguments] : n \in 0 .. 3} : OptionsFirst(line)}
ServerCommandLine == {<<Word("server")>>}

Present(listen, target) == [present |-> TRUE, listen |-> listen, target |-> target]
SomeSections == {Nothing} \cup {Present(l, t) : l, t \in SockAddrs}

GoodFile ==
  [readable |-> TRUE, private |-> "good", public |-> "good",
   client |-> Present("good", "good"), server |-> Present("good", "good")]

MCFiles ==
  {[GoodFile EXCEPT !.client = c, !.server = s] : c, s \in SomeSections}
  \cup {[GoodFile EXCEPT !.private = p, !.public = q] :
          p \in {"missing", "bad", "good"}, q \in {"missing", "bad", "other", "good"}}
  \cup {[GoodFile EXCEPT !.readable = FALSE]}

=============================================================================
