--------------------------- MODULE MCParserStates ---------------------------
(***************************************************************************)
(* Parsers of three states: a select with two cases, and two states that   *)
(* are reached from it, from each other, and go back.  A world is a key.   *)
(***************************************************************************)
EXTENDS ParserStatesRef

MCWorlds == 0 .. 2
MCStates == {"start", "one", "two"}

MCParams == [key : MCWorlds, valid : BOOLEAN]
MCInput == [w \in MCWorlds |-> [key |-> w, valid |-> FALSE]]

Same == [s \in MCParams |-> s]
Inc == [s \in MCParams |-> [s EXCEPT !.key = (@ + 1) % 3]]
SetValid == [s \in MCParams |-> [s EXCEPT !.valid = TRUE]]

None == [kind |-> "none", to |-> "none", cases |-> <<>>, default |-> "none"]
To(to) == [None EXCEPT !.kind = "path", !.to = to]
Case(keys, to) == [keys |-> keys, to |-> to]
Cases(cases, default) ==
  [None EXCEPT !.kind = "select", !.cases = cases, !.default = default]

Targets == {"one", "two", "accept", "reject"}
Pairs == {<<{0, 1}, {1, 2}>>, <<{0}, {1}>>, <<{1, 2}, {1}>>}

Starts == {Cases(<<Case(p[1], a), Case(p[2], b)>>, d) :
             p \in Pairs, a \in Targets, b \in Targets, d \in {"none", "accept", "two"}}

Ones == {To(t) : t \in {"accept", "reject", "start", "two"}} \cup
        {None, Cases(<<Case({0}, "two")>>, "reject"),
         Cases(<<Case({1}, "start"), Case({2}, "two")>>, "none")}

Twos == {To(t) : t \in {"accept", "reject", "one"}} \cup
        {Cases(<<Case({1}, "one"), Case({2}, "reject")>>, "accept"),
         Cases(<<Case({0, 1}, "accept"), Case({1, 2}, "reject")>>, "none")}

MCParsers ==
  {p \in {[start |-> [body |-> Same, next |-> s], one |-> [body |-> b, next |-> o],
           two |-> [body |-> SetValid, next |-> t]] :
            s \in Starts, b \in {Same, Inc}, o \in Ones, t \in Twos} :
     Orderly(p)}
=============================================================================
