---------------------------- MODULE MCValidation ----------------------------
(***************************************************************************)
(* ValidationTest with programs whose outputs are small expressions: every *)
(* short list of files for a few programs, and every pair of small         *)
(* programs.                                                               *)
(***************************************************************************)
EXTENDS ValidationTest, TLC

CONSTANTS T1, T2, T3, Missing, MaxPasses

T == INSTANCE Taint WITH Width <- 2

Atoms == {T!Input, T!Undefined("bv"), T!Number(0)}
Conds == {T!Flag, T!Undefined("bool"), T!Zero(T!Input), T!Zero(T!Undefined("bv"))}
Ites == {T!Ite(c, a, b) : c \in Conds, a \in Atoms, b \in Atoms}
Maybe == T!Ite(T!Flag, T!Undefined("bv"), T!Input)

\* One ite or operator over atoms, and another one over that.
Small == Atoms \cup {T!Inc(a) : a \in Atoms} \cup Ites
Large == Small \cup {T!Inc(e) : e \in Ites} \cup {T!Inc(T!Inc(e)) : e \in Ites}
         \cup {T!Ite(c, e, a) : c \in {T!Flag, T!Zero(Maybe)}, e \in Ites,
                                a \in {T!Input, T!Undefined("bv")}}

\* Bound variables have TLC evaluate the expressions once.
MCEqual(e, f) == \A g \in {e}, h \in {f} : T!Equivalent(g, h)
MCForgiven(e, f) == \A g \in {e}, h \in {f} : T!ExcusedByTaint(g, h)
Kept(e, f) ==
  \A g \in {e}, h \in {f} :
    \/ T!MixedOperand(g)
    \/ \A v \in T!Valuations({}) : T!Touches(g, v) \/ T!Eval(g, v) = T!Eval(h, v)

Dump == [text : {T1, T2, T3, Missing}, banned : BOOLEAN]
Lists == {l \in UNION {[1 .. n -> Dump] : n \in 0 .. MaxPasses} :
            \A i, j \in DOMAIN l : l[i].banned /\ l[j].banned => i = j}

x == T!Input
u == T!Undefined("bv")
Programs == {<<x, x>>, <<u, x>>, <<Maybe, u>>, <<T!Inc(x), x>>}

\* Any list of files of three programs, in any kind of test.
ManyLists ==
  /\ input \in Lists
  /\ meaning \in [{T1, T2, T3, Missing} -> Programs]
  /\ meaning[T3] = <<x, x>> /\ meaning[Missing] = <<x, x>>
  /\ broken \in {{Missing}, {Missing, T3}}
  /\ test \in {"validation", "violation", "undef"}
  /\ ignore \in IF test = "validation" THEN BOOLEAN ELSE {FALSE}
  /\ allow \in IF test = "undef" THEN {FALSE} ELSE BOOLEAN

\* One pass, on every program of two outputs, one of which stays as it is.
ManyPrograms ==
  /\ input = <<[text |-> T1, banned |-> FALSE], [text |-> T2, banned |-> FALSE]>>
  /\ \E e \in Large, f \in Small :
       meaning = (T1 :> <<e, x>>) @@ (T2 :> <<f, x>>) @@ (T3 :> <<x, x>>)
  /\ broken = {} /\ test = "validation" /\ ignore = FALSE /\ allow = TRUE

MCInit == TestInit /\ (ManyLists \/ ManyPrograms)

MCSpec == MCInit /\ [][TestNext]_testVars /\ WF_testVars(TestNext)

\* After a pass that is declared to be valid, a supported one, every output has
\* the value it had for all inputs for which that value was defined: tolerating
\* undefined values forgives nothing else (compare/compare.cpp:109).  Values
\* that apply an operator to one that is undefined for some inputs only are
\* excepted: substitute_taint takes those for undefined altogether.
SuccessKeepsDefined ==
  (stage = "run" /\ verdict = "success") =>
    \A j \in 1 .. Len(input) - 1 : ~Abstract!Unsupported(j) =>
      \A o \in 1 .. NOutputs :
        LET e == meaning[input[j].text][o]
            f == meaning[input[j + 1].text][o]
        IN IF allow THEN Kept(e, f) ELSE MCEqual(e, f)
=============================================================================
