----------------------------- MODULE Cosigners -----------------------------
(***************************************************************************)
(* The Cosigners of Reputation/cosi: a list of public keys, the mask of    *)
(* those that do not take part, and the sum of the keys that do, which is  *)
(* kept while the mask changes instead of being computed anew.             *)
(*                                                                         *)
(* The sum is a point of the curve.  The keys are independent: a point is  *)
(* told by how often each key is in it.                                    *)
(***************************************************************************)
EXTENDS Integers, FiniteSets

CONSTANTS KeyCnt,   \* number of keys
          ByteBits  \* bits in an element of a mask (8)

ASSUME KeyAssumption == KeyCnt \in Nat \ {0} /\ ByteBits \in Nat \ {0}

Keys == 0..(KeyCnt - 1)

\* MaskLen; the last byte may have bits that belong to no key.
MaskLen == (KeyCnt + ByteBits - 1) \div ByteBits
Bits == 0..(MaskLen * ByteBits - 1)

\* TRUE: disabled.  A mask that is given may be shorter.
Masks == [Bits -> BOOLEAN]
GivenMasks == UNION {[0..(n * ByteBits - 1) -> BOOLEAN] : n \in 0..MaskLen}

VARIABLES mask, aggr

cosVars == <<mask, aggr>>

Zero == [i \in Keys |-> 0]
AllDisabled == [i \in Bits |-> TRUE]

\* How often key i is added when its bit changes from old to new.
Change(old, new) ==
  IF old /\ ~new THEN 1 ELSE IF ~old /\ new THEN -1 ELSE 0

\* A bit the given mask has not is enabled.
SetMask(m, old, sum) ==
  LET off(i) == i \in DOMAIN m /\ m[i] IN
  [mask |-> [i \in Bits |-> IF i \in Keys THEN off(i) ELSE old[i]],
   aggr |-> [i \in Keys |-> sum[i] + Change(old[i], off(i))]]

Become(c) == mask' = c.mask /\ aggr' = c.aggr

NewCosigners(m) == SetMask(m, AllDisabled, Zero)

CosInit ==
  \E m \in GivenMasks :
    mask = NewCosigners(m).mask /\ aggr = NewCosigners(m).aggr

Replace == \E m \in GivenMasks : Become(SetMask(m, mask, aggr))

\* Mistake: the sum is not brought up to date.
SetMaskBitOnly(i, off) == mask' = [mask EXCEPT ![i] = off] /\ aggr' = aggr

SetMaskBit(i, off) ==
  /\ mask' = [mask EXCEPT ![i] = off]
  /\ aggr' = [aggr EXCEPT ![i] = @ + Change(mask[i], off)]

CosNext ==
  \/ Replace
  \/ \E i \in Keys, off \in BOOLEAN : SetMaskBit(i, off)

CosSpec == CosInit /\ [][CosNext]_cosVars

----------------------------------------------------------------------------
\* TypeOK of the cosigners.
CosTypeOK == mask \in Masks /\ aggr \in [Keys -> 0..1]

Enabled == {i \in Keys : ~mask[i]}
CountEnabled == Cardinality(Enabled)

\* The sum that is kept is the sum of the keys that take part, each once,
\* after any masks and bits in any order, those that change nothing too.
AggrIsEnabled == \A i \in Keys : aggr[i] = IF i \in Enabled THEN 1 ELSE 0

\* Equal sets of cosigners have equal masks: the bits of no key are always
\* disabled, so that the mask of a signature made by one Cosigners is the
\* mask every other one has for it.
MaskCanonical == \A i \in Bits \ Keys : mask[i]
=============================================================================
