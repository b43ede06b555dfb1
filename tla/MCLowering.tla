----------------------------- MODULE MCLowering -----------------------------
(***************************************************************************)
(* Small instances of MirLower: MIR programs written as such, and source   *)
(* programs.  Both are sequences, numbered so that every combination of    *)
(* the parts occurs.                                                       *)
(***************************************************************************)
EXTENDS MirLower

Text == <<"String">>
Number == <<"U64">>
At(l) == <<"local", l>>
Assign(l, value) == <<"assign", At(l), value>>
Constant(type, value) == <<"const", <<type, value>>>>

\* The choice number n makes at position k, among sizes[k] alternatives.
Digit(n, sizes, k) ==
  ((n \div FoldLeft(LAMBDA p, s : p * s, 1, SubSeq(sizes, 1, k - 1))) % sizes[k]) + 1
Numbers(sizes) == 0 .. FoldLeft(LAMBDA p, s : p * s, 1, sizes) - 1

-----------------------------------------------------------------------------
(* A function of a string, in three blocks with every loop among them: it  *)
(* moves, drops, borrows, compares and stores its strings (locals 2, 3),   *)
(* with a flag (4), a reference (5) and an aggregate (6).                  *)
Moves ==
  <<<<"drop", At(2)>>, Assign(3, <<"use", <<"move", 2>>>>), Assign(2, <<"use", <<"move", 3>>>>),
    Assign(3, <<"use", Constant("String", 1)>>),
    Assign(4, <<"binary", "Equal", <<"move", 2>>, <<"move", 3>>>>),
    Assign(5, <<"borrow", FALSE, At(2)>>),
    Assign(6, <<"aggregate", 7, 0, <<<<"move", 3>>>>>>),
    <<"drop", <<"field", 6, 1>>>>, <<"assign", <<"field", 6, 1>>, <<"use", Constant("String", 1)>>>>>>
Choice(a, b) == <<"switch", <<"copy", 4>>, <<<<1, a>>>>, b>>
Starts == <<Choice(2, 3), <<"goto", 2>>>>
Loops == <<<<"goto", 1>>, <<"goto", 3>>, Choice(1, 3)>>
BodySizes == <<Len(Moves), Len(Moves), 2, 2, 3>>
Body(n) ==
  LET Pick(list, k) == list[Digit(n, BodySizes, k)]
  IN [functions |->
        <<[params |-> 0, result |-> Number, locals |-> <<Number>>, blocks |->
             <<[statements |-> <<>>, terminator |-> <<"call", 2, <<Constant("String", 1)>>, At(1), 2>>],
               [statements |-> <<>>, terminator |-> <<"return">>]>>],
          [params |-> 1, result |-> Number,
           locals |-> <<Number, Text, Text, <<"Bool">>, <<"Ref", FALSE, Text>>, <<"Aggregate", 7>>>>,
           blocks |->
             <<[statements |-> <<Assign(1, <<"use", Constant("U64", 0)>>),
                                 Assign(4, <<"use", Constant("Bool", TRUE)>>), Pick(Moves, 1)>>,
                terminator |-> Pick(Starts, 4)],
               [statements |-> <<Pick(Moves, 2)>>, terminator |-> Pick(Loops, 5)],
               [statements |-> <<Pick(Moves, 3)>>, terminator |-> <<"return">>]>>]>>,
      entry |-> 1]
MCBodies == [n \in Numbers(BodySizes) |-> Body(n)]
NoBodies == <<>>

MCLimits == [instructions |-> 40, depth |-> 3, bytes |-> 30]

-----------------------------------------------------------------------------
(* A function of a string s and an enumeration c that owns a string t: a   *)
(* match on c whose arms may consume s or t, its value returned, stored or *)
(* unused.                                                                 *)
Ref(name) == <<"ref", name>>
Num(n) == <<"int", n>>
Size(name) == <<"call", 1, <<Ref(name)>>, Number>>
LetText(name) == <<"let", name, Text, <<"text", 1>>>>
LetNumber(name, e) == <<"let", name, Number, e>>
Expr(e) == <<"expr", e>>
Arm(tag, e) == [pattern |-> tag, guarded |-> FALSE, body |-> e]
ArmBodies ==
  <<Num(1), Size("s"), <<"binary", "Add", Size("s"), Num(6)>>,
    <<"block", <<LetText("u"), Expr(Num(1))>>>>,
    <<"match", <<"variant", 7, 1>>, <<Arm(0, Num(3)), Arm(1, Size("t"))>>, Number>>>>
MutableText == <<"Ref", TRUE, Text>>
Endings(m) ==
  <<<<Expr(m)>>,
    <<LetNumber("n", m), <<"return", <<<<"binary", "Add", Ref("n"), Num(1)>>>>>>>>,
    <<LetNumber("n", m), LetNumber("k", Size("s")), Expr(<<"binary", "Subtract", Ref("n"), Ref("k")>>)>>,
    <<Expr(m), LetText("w"), <<"let", "r", MutableText, <<"borrow", TRUE, "w", MutableText>>>>,
      Expr(<<"await", Num(1)>>)>>>>
Lengthy == [params |-> <<<<"v", Text>>>>, result |-> Number, body |-> <<Expr(Num(2))>>]
Main(e) == [params |-> <<>>, result |-> Number, body |-> <<Expr(e)>>]
SourceSizes == <<5, 5, 4, 2>>
Matching(n) ==
  LET d(k) == Digit(n, SourceSizes, k)
      match == <<"match", Ref("c"), <<Arm(0, ArmBodies[d(1)]), Arm(1, ArmBodies[d(2)])>>, Number>>
  IN <<Lengthy,
       [params |-> <<<<"s", Text>>, <<"c", <<"Aggregate", 7>>>>>>, result |-> Number,
        body |-> <<LetText("t")>> \o Endings(match)[d(3)]],
       Main(<<"call", 2, <<<<"text", 1>>, <<"variant", 7, d(4) - 1>>>>, Number>>)>>

\* Programs outside the executable subset, a trap in a checked operation, and a
\* function that calls itself without end.
Plain(body) == <<[params |-> <<>>, result |-> Number, body |-> body]>>
Special ==
  <<Plain(<<Expr(<<"other">>)>>), Plain(<<Expr(Ref("nobody"))>>),
    Plain(<<<<"return", <<>>>>>>), Plain(<<Expr(<<"binary", "Subtract", Num(1), Num(2)>>)>>),
    <<[params |-> <<>>, result |-> <<"Unit">>, body |-> <<>>]>>,
    Plain(<<Expr(<<"call", 1, <<>>, Number>>)>>)>>
MCSources == Special \o [n \in 1 .. 200 |-> Matching(n - 1)]

\* A block that is the value of a let.
BlockSources == <<Plain(<<LetNumber("x", <<"block", <<Expr(Num(1))>>>>),
                          Expr(<<"binary", "Add", Ref("x"), Num(1)>>)>>)>>
=============================================================================
