--------------------------- MODULE MCPaperSession ---------------------------
(* Small instances of PaperSession for TLC.                                 *)
EXTENDS PaperSession, TLC

CONSTANTS u1, u2, u3, u4, callSpread, innerCall, putSpread

TwoUnits == {u1, u2}
ThreeUnits == {u1, u2, u3}
FourUnits == {u1, u2, u3, u4}
OneStructure == {callSpread}
TwoStructures == {callSpread, putSpread}
NestedCalls == {callSpread, innerCall}
Direction ==
  [s \in Structures |-> IF s = putSpread THEN "bearish" ELSE "bullish"]
OneExpiration == [s \in Structures |-> 0]
Longs ==
  [s \in Structures |-> CASE s = callSpread -> 1 [] s = innerCall -> 2
                           [] s = putSpread -> 4]
Shorts ==
  [s \in Structures |-> CASE s = callSpread -> 4 [] s = innerCall -> 3
                           [] s = putSpread -> 1]
SomeUndated == {u1, callSpread}
OneUndated == {u2}
AllCalls == PCs \ {"done"}
CycleCalls == {"propose", "submit"}
AnyMode == {TRUE, FALSE}
EntriesOnly == {TRUE}
UnitSymmetry == Permutations(Units)
=============================================================================
