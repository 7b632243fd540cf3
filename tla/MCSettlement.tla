---------------------------- MODULE MCSettlement ----------------------------
(***************************************************************************)
(* Instances of Settlement for TLC.  Amounts sit on the boundary of the    *)
(* dust tolerance: a quote of 400 at 50 bps settles at 398, so two         *)
(* transfers of 199 just settle it, 198 and 199 fall one unit short and    *)
(* 199 with a later 398 overpays it.                                       *)
(***************************************************************************)
EXTENDS Settlement, TLC

CONSTANTS p1, p2, m1, usdc, usdt, t1, t2, t3, d1, d2, d3, d4, k1, k2, x1, x2

MCClientId == [p \in Payment |-> m1]
MCAmountCop == [p \in Payment |-> IF p = p1 THEN 3 ELSE 5]
MCAsset == [p \in Payment |-> usdc]
MCAmountCryptoRaw == [p \in Payment |-> 400]

\* Every transfer pays p1 ...
ToOne == [t \in Transfer |-> p1]
\* ... or t1 pays p1 and the others p2.
ToTwo == [t \in Transfer |-> IF t = t1 THEN p1 ELSE p2]

\* All in the quoted asset ...
Quoted == [t \in Transfer |-> usdc]
\* ... or t2 in the wrong one.
Mixed == [t \in Transfer |-> IF t = t2 THEN usdt ELSE usdc]

Halves == [t \in Transfer |-> IF t = t3 THEN 398 ELSE 199]
Whole == [t \in Transfer |-> 400]

\* Row ids are uuids and callbacks of one worker are interchangeable.
Symmetric == Permutations(DepositId) \cup Permutations(Ticker) \cup Permutations(Expirer)
\* In Halves t1 and t2 are interchangeable too.
SymmetricHalves == Symmetric \cup Permutations({t1, t2})

=============================================================================
