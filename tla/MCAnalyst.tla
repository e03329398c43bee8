----------------------------- MODULE MCAnalyst -----------------------------
(***************************************************************************)
(* An instance of Analyst for TLC: two conversations of the deal that both *)
(* have a segment s1, a segment of another deal, three recordings' worth   *)
(* of transcripts, and one observation for each way to be wrong.           *)
(***************************************************************************)
EXTENDS Analyst

Segment(v, s, d, text, from, to) ==
  [conversation |-> v, segment |-> s, deal |-> d, text |-> text, from |-> from, to |-> to]

Other == {Segment("v3", "s1", "d2", <<"c">>, 0, 9)}
Today ==
  {Segment("v1", "s1", "d1", <<"a", "b">>, 0, 5),
   Segment("v2", "s1", "d1", <<"a", "b">>, 0, 5)} \cup Other
Reworded ==
  {Segment("v1", "s1", "d1", <<"a", "c">>, 0, 5),
   Segment("v2", "s1", "d1", <<"a", "b">>, 0, 5)}
Retimed ==
  {Segment("v1", "s1", "d1", <<"a", "b">>, 6, 9),
   Segment("v2", "s1", "d1", <<"a", "b">>, 0, 5)}

MCTranscripts == {Today, Reworded, Retimed}

Cite(v, quote, begin, end, at) ==
  [conversation |-> v, segment |-> "s1", quote |-> quote, begin |-> begin,
   end |-> end, hash |-> <<"a", "b">>, at |-> at]

cA == Cite("v1", <<"a">>, 0, 1, 5)
cB == Cite("v1", <<"b">>, 1, 2, 5)
cBoth == Cite("v1", <<"a", "b">>, 0, 2, 5)
cTwin == Cite("v2", <<"a">>, 0, 1, 5)
cLong == Cite("v1", <<"b">>, 1, 3, 5)
cWrong == Cite("v2", <<"b">>, 0, 1, 5)
cForeign == Cite("v3", <<"c">>, 0, 1, 5)

Raw(d, state, citations) ==
  [injected |-> FALSE, deal |-> "NONE", dimension |-> d, state |-> state,
   citations |-> citations]

MCRaws ==
  { Raw("x", "SUPPORTED", <<cBoth>>),
    Raw("x", "CONFLICT", <<cB, cTwin>>),
    Raw("x", "CONFLICT", <<cA, cA>>),
    Raw("y", "CONFLICT", <<cA, cTwin>>),
    Raw("y", "UNKNOWN", <<>>),
    Raw("y", "SUPPORTED", <<cA, cWrong>>),
    Raw("y", "SUPPORTED", <<>>),
    Raw("x", "SUPPORTED", <<cForeign>>),
    Raw("x", "SUPPORTED", <<cLong>>),
    Raw("z", "UNKNOWN", <<>>),
    Raw("UNHASHABLE", "UNKNOWN", <<>>),
    [Raw("y", "SUPPORTED", <<cB>>) EXCEPT !.injected = TRUE],
    [Raw("y", "SUPPORTED", <<cB>>) EXCEPT !.deal = "d2"] }
=============================================================================
