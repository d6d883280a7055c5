---------------------- MODULE MCStreamStructuredOutput ----------------------
(***************************************************************************)
(* TracedStream for TLC: documents put together from objects               *)
(* that exercise strings, escapes and nesting.                             *)
(***************************************************************************)
EXTENDS TracedStream, TLC

LB == "lbrace"
RB == "rbrace"
LK == "lbracket"
RK == "rbracket"
Q == "quote"
E == "backslash"
Comma == "comma"
Sp == "space"
NL == "newline"
BQ == "backquote"
X == "other"

Good(t) == [text |-> t, good |-> TRUE]
Objects == {
    Good(<<LB, RB>>),
    Good(<<LB, Q, RB, Q, RB>>),
    Good(<<LB, Q, E, Q, RB, Q, RB>>),
    Good(<<LB, Q, E, E, Q, RB>>),
    Good(<<LB, Q, BQ, Q, RB>>),
    Good(<<LB, LK, LB, RB, RK, RB>>),
    [text |-> <<LB, X, RB>>, good |-> FALSE] }

\* A bracket closed by the wrong one: not an object, whatever the nesting.
Broken == <<LB, RK>>

Place(o, first) == [from |-> first, to |-> first + Len(o.text) - 1, good |-> o.good]

Doc(pre, body, items, post) ==
    [text |-> pre \o body \o post,
     items |-> [k \in 1..Len(items) |->
                  [items[k] EXCEPT !.from = @ + Len(pre), !.to = @ + Len(pre)]]]

Fences == {<< <<>>, <<>> >>, << <<Sp>>, <<NL>> >>,
           << <<BQ, BQ, X, NL>>, <<NL, BQ, BQ>> >>}
Separators == {<<Comma>>, <<Comma, Sp>>}

Singles == {Doc(f[1], o.text, <<Place(o, 1)>>, f[2]) : f \in Fences, o \in Objects}

Arrays ==
    {Doc(f[1], <<LK, RK>>, <<>>, f[2]) : f \in Fences} \cup
    {Doc(f[1], <<LK>> \o o.text \o s \o p.text \o <<RK>>,
         <<Place(o, 2), Place(p, 2 + Len(o.text) + Len(s))>>, f[2]) :
       f \in Fences, o \in Objects, p \in Objects, s \in Separators}

Malformed ==
    {Doc(<<>>, <<X>> \o o.text, <<Place(o, 2)>>, <<>>) : o \in Objects} \cup
    {Doc(<<>>, o.text, <<Place(o, 1)>>, <<X>>) : o \in Objects} \cup
    {Doc(<<>>, o.text, <<Place(o, 1)>>, <<BQ, NL, X>>) : o \in Objects} \cup
    {Doc(<<>>, o.text, <<Place(o, 1)>>, <<NL, LB, RB>>) : o \in Objects} \cup
    {Doc(<<>>, <<LK>> \o o.text \o <<Comma, X, RK>>, <<Place(o, 2)>>, <<>>) :
       o \in Objects} \cup
    {Doc(<<>>, Broken, <<>>, <<>>), Doc(<<>>, <<BQ, LB, RB>>, <<>>, <<>>)}

\* What each of them is taken for.
ASSUME WellFormedDocuments ==
    /\ \A d \in Singles \cup Arrays : WellFormed(d)
    /\ \A d \in Malformed : ~WellFormed(d)

MCDocuments == Singles \cup Arrays \cup Malformed
=============================================================================
