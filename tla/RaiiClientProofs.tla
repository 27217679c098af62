-------------------------- MODULE RaiiClientProofs --------------------------
(***************************************************************************)
(* Proofs about RaiiClient, for any variables, addresses, instructions and *)
(* bounds.  The inductive invariant IInv joins the types, the order of the *)
(* evaluations under way (FramesOrdered) and the properties of RaiiClient  *)
(* about temporaries.                                                      *)
(***************************************************************************)
EXTENDS RaiiClient, SequenceLemmas

(* The wrapping objects are the first objects of the evaluations under     *)
(* way, and younger evaluations have higher addresses.                     *)
FramesOrdered ==
    /\ \A i, j \in 1..Len(frames) : i < j => frames[i] < frames[j]
    /\ \A h \in DOMAIN helpers : helpers[h].external <=> h \in ToSet(frames)

TempInv == TempTypeOK /\ FramesOrdered /\ TempsExclusive /\ DerefExact
                      /\ AssertionsHold

-----------------------------------------------------------------------------
(* A temporary taken from the free list, or a new one. *)

(* What getFreeTemp() returns exists afterwards, is not free any more, and *)
(* was free or did not exist before.                                       *)
LEMMA FreeTempLemma ==
  ASSUME tempCount \in Nat, freeTemps \in Seq(1..tempCount),
         IsInjective(freeTemps), getFreeTemp
  PROVE  /\ tempCount' \in Nat /\ tempCount <= tempCount'
         /\ FreeTemp \in 1..tempCount'
         /\ freeTemps' \in Seq(1..tempCount')
         /\ IsInjective(freeTemps')
         /\ ToSet(freeTemps') = ToSet(freeTemps) \ {FreeTemp}
         /\ FreeTemp \in ToSet(freeTemps) \/ FreeTemp \notin 1..tempCount
<1>1. CASE freeTemps = <<>>
  <2>1. tempCount' = tempCount + 1 /\ freeTemps' = <<>>
        /\ FreeTemp = tempCount + 1
    BY <1>1 DEF getFreeTemp, FreeTemp
  <2>2. freeTemps' \in Seq(1..tempCount') BY <2>1
  <2>3. ToSet(freeTemps) = {} /\ ToSet(freeTemps') = {} /\ IsInjective(freeTemps')
    BY <1>1, <2>1, EmptyLemma
  <2> QED BY <2>1, <2>2, <2>3
<1>2. CASE freeTemps # <<>>
  <2>1. tempCount' = tempCount /\ freeTemps' = Front(freeTemps)
        /\ FreeTemp = Last(freeTemps)
    BY <1>2 DEF getFreeTemp, FreeTemp
  <2>2. Last(freeTemps) \in 1..tempCount /\ Last(freeTemps) \in ToSet(freeTemps)
    BY <1>2, FrontLemma, ToSetLemma DEF Last
  <2>3. Front(freeTemps) \in Seq(1..tempCount) BY <1>2, FrontLemma
  <2> QED BY <1>2, <2>1, <2>2, <2>3, FrontInjective
<1> QED BY <1>1, <1>2

(* The same for a temporary that is put back at once. *)
LEMMA ScratchLemma ==
  ASSUME tempCount \in Nat, freeTemps \in Seq(1..tempCount),
         IsInjective(freeTemps), ScratchTemp
  PROVE  /\ tempCount' \in Nat /\ tempCount <= tempCount'
         /\ FreeTemp \in 1..tempCount'
         /\ freeTemps' \in Seq(1..tempCount')
         /\ IsInjective(freeTemps')
         /\ ToSet(freeTemps') \cap 1..tempCount = ToSet(freeTemps) \cap 1..tempCount
<1>1. CASE freeTemps = <<>>
  <2>1. tempCount' = tempCount + 1 /\ freeTemps' = <<tempCount + 1>>
        /\ FreeTemp = tempCount + 1
    BY <1>1 DEF ScratchTemp, FreeTemp
  <2>2. freeTemps' \in Seq(1..tempCount') BY <2>1
  <2>3. /\ ToSet(freeTemps) = {} /\ ToSet(freeTemps') = {tempCount + 1}
        /\ IsInjective(freeTemps')
    BY <1>1, <2>1, EmptyLemma, SingletonLemma
  <2> QED BY <2>1, <2>2, <2>3
<1>2. CASE freeTemps # <<>>
  <2>1. tempCount' = tempCount /\ freeTemps' = freeTemps
        /\ FreeTemp = Last(freeTemps)
    BY <1>2 DEF ScratchTemp, FreeTemp
  <2>2. Last(freeTemps) \in 1..tempCount BY <1>2, FrontLemma
  <2> QED BY <2>1, <2>2
<1> QED BY <1>1, <1>2

-----------------------------------------------------------------------------
(* Who shares a temporary. *)

(* No evaluation under way has a wrapping object above Base. *)
LEMMA BaseLemma ==
  ASSUME TempInv, ClientAssumption
  PROVE  Base \in Nat /\ \A x \in ToSet(frames) : x <= Base
<1>1. frames \in Seq(DOMAIN helpers) /\ DOMAIN helpers \subseteq Nat
  BY DEF TempInv, TempTypeOK, ClientAssumption
<1>2. CASE frames = <<>> BY <1>2, EmptyLemma DEF Base
<1>3. CASE frames # <<>>
  <2>1. Len(frames) \in Nat \ {0} BY <1>1, <1>3, EmptySeq
  <2>2. \A i \in 1..Len(frames) : frames[i] \in Nat BY <1>1, ElementOfSeq
  <2>3. Base = frames[Len(frames)] BY <1>3 DEF Base, Last
  <2>4. \A i \in 1..Len(frames) : i < Len(frames) => frames[i] < Base
    BY <2>1, <2>3 DEF TempInv, FramesOrdered
  <2>5. \A i \in 1..Len(frames) : frames[i] <= Base
    BY <2>1, <2>2, <2>3, <2>4
  <2> QED BY <1>1, <2>1, <2>2, <2>3, <2>5, ToSetLemma
<1> QED BY <1>2, <1>3

(* Only the wrapping object of the evaluation under way shares its         *)
(* temporary, with older objects that own no reference.                    *)
LEMMA OwnTempLemma ==
  ASSUME TempInv, ClientAssumption, NEW h \in Own,
         NEW g \in DOMAIN helpers, g # h, helpers[g].temp = helpers[h].temp
  PROVE  h = Base /\ helpers[h].external /\ g < h /\ ~helpers[g].needsDeref
<1>1. h \in Nat /\ g \in Nat /\ h \in DOMAIN helpers /\ h >= Base
  BY DEF Own, TempInv, TempTypeOK, ClientAssumption
<1>2. Base \in Nat /\ \A x \in ToSet(frames) : x <= Base BY BaseLemma
<1>3. ~(h < g)
  <2>1. SUFFICES ASSUME h < g PROVE FALSE OBVIOUS
  <2>2. helpers[g].external BY <1>1, <2>1 DEF TempInv, TempsExclusive
  <2>3. g \in ToSet(frames) BY <2>2 DEF TempInv, FramesOrdered
  <2> QED BY <1>1, <1>2, <2>1, <2>3
<1>4. helpers[h].external /\ ~helpers[g].needsDeref
  BY <1>1, <1>3 DEF TempInv, TempsExclusive
<1>5. h \in ToSet(frames) BY <1>1, <1>4 DEF TempInv, FramesOrdered
<1> QED BY <1>1, <1>2, <1>3, <1>4, <1>5

(* Hence what an object of the evaluation under way owns, it owns alone,   *)
(* and an object above Base does not share its temporary.                  *)
LEMMA OwnerLemma ==
  ASSUME TempInv, ClientAssumption, NEW h \in Own
  PROVE  /\ \A g \in Owners : helpers[g].temp = helpers[h].temp => g = h
         /\ h # Base => /\ ~helpers[h].external
                        /\ \A g \in DOMAIN helpers :
                              helpers[g].temp = helpers[h].temp => g = h
<1>1. h \in DOMAIN helpers /\ h \in Nat /\ h >= Base
  BY DEF Own, TempInv, TempTypeOK, ClientAssumption
<1>2. helpers[h].external => h <= Base
  BY <1>1, BaseLemma DEF TempInv, FramesOrdered
<1> QED BY <1>1, <1>2, OwnTempLemma, BaseLemma DEF Owners

-----------------------------------------------------------------------------
(* Steps that preserve TempInv. *)

LEMMA SameTemps ==
  ASSUME TempInv, status' \in {status, "notImplemented"},
         UNCHANGED <<tempCount, freeTemps, derefTemps, helpers, frames>>
  PROVE  TempInv'
BY DEF TempInv, TempTypeOK, TempHelper, FramesOrdered, TempsExclusive,
       DerefExact, Owners, AssertionsHold

LEMMA ScratchStep ==
  ASSUME TempInv, ScratchTemp, UNCHANGED <<status, derefTemps, helpers, frames>>
  PROVE  TempInv'
<1>1. /\ tempCount \in Nat /\ freeTemps \in Seq(1..tempCount)
      /\ IsInjective(freeTemps)
  BY DEF TempInv, TempTypeOK, TempsExclusive
<1>2. /\ tempCount' \in Nat /\ tempCount <= tempCount'
      /\ freeTemps' \in Seq(1..tempCount')
      /\ IsInjective(freeTemps')
      /\ ToSet(freeTemps') \cap 1..tempCount = ToSet(freeTemps) \cap 1..tempCount
  BY <1>1, ScratchLemma
<1>3. 1..tempCount \subseteq 1..tempCount' BY <1>1, <1>2
<1>4. TempTypeOK'
  <2>1. derefTemps' \in Seq(1..tempCount')
    BY <1>3, SeqMonotonic DEF TempInv, TempTypeOK
  <2>2. helpers' \in [DOMAIN helpers' -> TempHelper']
    BY <1>3 DEF TempInv, TempTypeOK, TempHelper
  <2> QED BY <1>2, <2>1, <2>2 DEF TempInv, TempTypeOK
<1>5. \A h \in DOMAIN helpers : helpers[h].temp \in 1..tempCount
  BY DEF TempInv, TempTypeOK, TempHelper
<1>6. TempsExclusive'
  BY <1>1, <1>2, <1>5, ToSetLemma DEF TempInv, TempsExclusive
<1> QED BY <1>4, <1>6
    DEF TempInv, FramesOrdered, DerefExact, Owners, AssertionsHold

LEMMA DeclareTempStep ==
  ASSUME TempInv, ClientAssumption, DeclareTemp
  PROVE  TempInv'
<1>1. PICK h \in Handles : Ready /\ IsNew(h) /\ NewTemp(h) /\ UNCHANGED frames
  BY DEF DeclareTemp
<1> DEFINE new == [temp |-> FreeTemp, external |-> FALSE, needsDeref |-> FALSE]
<1>2. /\ helpers' = [y \in DOMAIN helpers \cup {h} |->
                       IF y = h THEN new ELSE helpers[y]]
      /\ getFreeTemp /\ UNCHANGED <<derefTemps, status, frames>>
  BY <1>1 DEF NewTemp, With
<1>3. \A x \in DOMAIN helpers : x < h /\ x \in Nat
  BY <1>1 DEF IsNew, TempInv, TempTypeOK, ClientAssumption
<1>4. h \notin DOMAIN helpers /\ h \in Nat BY <1>3 DEF ClientAssumption
<1>5. /\ tempCount \in Nat /\ freeTemps \in Seq(1..tempCount)
      /\ IsInjective(freeTemps)
  BY DEF TempInv, TempTypeOK, TempsExclusive
<1>6. /\ tempCount' \in Nat /\ tempCount <= tempCount'
      /\ FreeTemp \in 1..tempCount'
      /\ freeTemps' \in Seq(1..tempCount')
      /\ IsInjective(freeTemps')
      /\ ToSet(freeTemps') = ToSet(freeTemps) \ {FreeTemp}
      /\ FreeTemp \in ToSet(freeTemps) \/ FreeTemp \notin 1..tempCount
  BY <1>2, <1>5, FreeTempLemma
<1>7. 1..tempCount \subseteq 1..tempCount' BY <1>5, <1>6
<1>8. \A x \in DOMAIN helpers :
        /\ helpers[x] \in TempHelper
        /\ helpers[x].temp \in 1..tempCount
        /\ helpers[x].temp \notin ToSet(freeTemps)
  BY <1>5, ToSetLemma DEF TempInv, TempTypeOK, TempHelper, TempsExclusive
<1> HIDE DEF new
<1>9. new \in TempHelper' BY <1>6 DEF new, TempHelper
<1>10. TempTypeOK'
  <2>1. derefTemps' \in Seq(1..tempCount')
    BY <1>2, <1>7, SeqMonotonic DEF TempInv, TempTypeOK
  <2>2. \A x \in DOMAIN helpers : helpers[x] \in TempHelper'
    BY <1>7, <1>8 DEF TempHelper
  <2>3. helpers' \in [DOMAIN helpers' -> TempHelper']
    BY <1>2, <1>9, <2>2
  <2>4. DOMAIN helpers' \subseteq Handles
    BY <1>2 DEF TempInv, TempTypeOK
  <2>5. frames' \in Seq(DOMAIN helpers')
    BY <1>2, SeqMonotonic DEF TempInv, TempTypeOK
  <2> QED BY <1>2, <1>6, <2>1, <2>3, <2>4, <2>5 DEF TempInv, TempTypeOK
<1>11. FramesOrdered'
  <2>1. h \notin ToSet(frames)
    BY <1>4, ToSetLemma DEF TempInv, TempTypeOK
  <2> QED BY <1>2, <2>1 DEF new, TempInv, FramesOrdered
<1>12. TempsExclusive'
  <2>1. \A x \in DOMAIN helpers : helpers[x].temp # FreeTemp
    BY <1>6, <1>8
  <2>2. \A x \in DOMAIN helpers' : helpers'[x].temp \notin ToSet(freeTemps')
    BY <1>2, <1>6, <1>8 DEF new
  <2>3. \A f, g \in DOMAIN helpers' :
          f < g /\ helpers'[f].temp = helpers'[g].temp
            => helpers'[g].external /\ ~helpers'[f].needsDeref
    BY <1>2, <1>3, <1>4, <2>1 DEF new, TempInv, TempsExclusive
  <2> QED BY <1>6, <2>2, <2>3, ToSetLemma DEF TempsExclusive
<1>13. DerefExact'
  <2>1. Owners' = Owners BY <1>2, <1>4 DEF new, Owners
  <2>2. \A x \in Owners : helpers'[x].temp = helpers[x].temp
    BY <1>2, <1>4 DEF Owners
  <2>3. {helpers'[x].temp : x \in Owners'} = {helpers[x].temp : x \in Owners}
    BY <2>1, <2>2
  <2> QED BY <1>2, <2>3 DEF TempInv, DerefExact
<1> QED BY <1>2, <1>10, <1>11, <1>12, <1>13 DEF TempInv, AssertionsHold

LEMMA EnterStep ==
  ASSUME TempInv, ClientAssumption, Enter
  PROVE  TempInv'
<1>1. PICK h \in Handles, c \in Own :
        /\ IsNew(h) /\ c = h - 1 /\ ~helpers[c].needsDeref
        /\ WrapTemp(h, helpers[c].temp)
        /\ frames' = Append(frames, h)
  BY DEF Enter
<1> DEFINE new == [temp |-> helpers[c].temp, external |-> TRUE,
                   needsDeref |-> FALSE]
<1>2. /\ helpers' = [y \in DOMAIN helpers \cup {h} |->
                       IF y = h THEN new ELSE helpers[y]]
      /\ UNCHANGED <<tempCount, freeTemps, derefTemps, status>>
  BY <1>1 DEF WrapTemp, With
<1>3. \A x \in DOMAIN helpers : x < h /\ x \in Nat
  BY <1>1 DEF IsNew, TempInv, TempTypeOK, ClientAssumption
<1>4. h \notin DOMAIN helpers /\ h \in Nat BY <1>3 DEF ClientAssumption
<1>5. c \in DOMAIN helpers BY <1>1 DEF Own
<1>6. \A x \in DOMAIN helpers : helpers[x] \in TempHelper
  BY DEF TempInv, TempTypeOK
<1>7. helpers[c].temp \in 1..tempCount BY <1>5, <1>6 DEF TempHelper
<1> HIDE DEF new
<1>8. new \in TempHelper BY <1>7 DEF new, TempHelper
<1>9. frames \in Seq(DOMAIN helpers') /\ frames' \in Seq(DOMAIN helpers')
  <2>1. frames \in Seq(DOMAIN helpers')
    BY <1>2, SeqMonotonic DEF TempInv, TempTypeOK
  <2> QED BY <1>1, <1>2, <2>1, AppendProperties
<1>10. TempTypeOK'
  <2>1. helpers' \in [DOMAIN helpers' -> TempHelper'] /\ DOMAIN helpers' \subseteq Handles
    BY <1>2, <1>6, <1>8 DEF TempHelper, TempInv, TempTypeOK
  <2> QED BY <1>2, <1>9, <2>1 DEF TempInv, TempTypeOK
<1>11. FramesOrdered'
  <2>1. /\ Len(frames') = Len(frames) + 1 /\ Len(frames) \in Nat
        /\ \A i \in 1..Len(frames) : frames'[i] = frames[i]
        /\ frames'[Len(frames) + 1] = h
    BY <1>1, <1>2, <1>9, AppendProperties, LenProperties
  <2>2. \A i \in 1..Len(frames) : frames[i] < h
    BY <1>3, ElementOfSeq DEF TempInv, TempTypeOK
  <2>3. \A i, j \in 1..Len(frames') : i < j => frames'[i] < frames'[j]
    BY <2>1, <2>2 DEF TempInv, FramesOrdered
  <2>4. ToSet(frames') = ToSet(frames) \cup {h}
    BY <1>2, <1>9, <2>1, ExtendLemma
  <2>5. \A x \in DOMAIN helpers' : helpers'[x].external <=> x \in ToSet(frames')
    BY <1>2, <1>4, <2>4 DEF new, TempInv, FramesOrdered
  <2> QED BY <2>3, <2>5 DEF FramesOrdered
<1>12. TempsExclusive'
  <2>1. \A f \in DOMAIN helpers : helpers[f].temp = helpers[c].temp
          => ~helpers[f].needsDeref
    BY <1>1, <1>5, OwnTempLemma
  <2>2. \A f, g \in DOMAIN helpers' :
          f < g /\ helpers'[f].temp = helpers'[g].temp
            => helpers'[g].external /\ ~helpers'[f].needsDeref
    BY <1>2, <1>3, <1>4, <2>1 DEF new, TempInv, TempsExclusive
  <2>3. \A x \in DOMAIN helpers' : ~Contains(freeTemps', helpers'[x].temp)
    BY <1>2, <1>5 DEF new, TempInv, TempsExclusive
  <2> QED BY <1>2, <2>2, <2>3 DEF TempInv, TempsExclusive
<1>13. DerefExact'
  <2>1. Owners' = Owners BY <1>2, <1>4 DEF new, Owners
  <2>2. \A x \in Owners : helpers'[x].temp = helpers[x].temp
    BY <1>2, <1>4 DEF Owners
  <2>3. {helpers'[x].temp : x \in Owners'} = {helpers[x].temp : x \in Owners}
    BY <2>1, <2>2
  <2> QED BY <1>2, <2>3 DEF TempInv, DerefExact
<1> QED BY <1>2, <1>10, <1>11, <1>12, <1>13 DEF TempInv, AssertionsHold

LEMMA OwnReferenceStep ==
  ASSUME TempInv, ClientAssumption, OwnReference
  PROVE  TempInv'
<1>1. PICK h \in Own : ~helpers[h].needsDeref /\ derefNeeded(h) /\ UNCHANGED frames
  BY DEF OwnReference
<1> DEFINE t == helpers[h].temp
<1>2. /\ derefTemps' = Append(derefTemps, t)
      /\ helpers' = SetNeedsDeref(h, TRUE)
      /\ status' = IF ~Contains(derefTemps, t) THEN status ELSE "assert"
      /\ UNCHANGED <<tempCount, freeTemps, frames>>
  BY <1>1 DEF derefNeeded, Require
<1>3. h \in DOMAIN helpers /\ \A x \in DOMAIN helpers : helpers[x] \in TempHelper
  BY DEF Own, TempInv, TempTypeOK
<1>4. /\ DOMAIN helpers' = DOMAIN helpers
      /\ \A x \in DOMAIN helpers :
           /\ helpers'[x] \in TempHelper
           /\ helpers'[x].temp = helpers[x].temp
           /\ helpers'[x].external = helpers[x].external
           /\ helpers'[x].needsDeref = (helpers[x].needsDeref \/ x = h)
  BY <1>2, <1>3 DEF TempHelper, SetNeedsDeref
<1>5. Owners' = Owners \cup {h} BY <1>3, <1>4 DEF Owners
<1>6. t \in 1..tempCount BY <1>3 DEF TempHelper
<1>7. \A x \in Owners : helpers[x].temp # t BY <1>1, OwnerLemma DEF Owners
<1> HIDE DEF t
<1>8. t \notin ToSet(derefTemps) BY <1>7 DEF TempInv, DerefExact
<1>9. ToSet(derefTemps') = ToSet(derefTemps) \cup {t} /\ IsInjective(derefTemps')
  <2>1. derefTemps \in Seq(1..tempCount) /\ IsInjective(derefTemps)
    BY DEF TempInv, TempTypeOK, DerefExact
  <2>2. /\ derefTemps' \in Seq(1..tempCount)
        /\ Len(derefTemps') = Len(derefTemps) + 1
        /\ \A i \in 1..Len(derefTemps) : derefTemps'[i] = derefTemps[i]
        /\ derefTemps'[Len(derefTemps) + 1] = t
    BY <1>2, <1>6, <2>1, AppendProperties
  <2> QED BY <1>6, <1>8, <2>1, <2>2, ExtendLemma
<1>10. status' = status
  BY <1>2, <1>8, ToSetLemma DEF TempInv, TempTypeOK
<1>11. TempTypeOK'
  <2>1. derefTemps' \in Seq(1..tempCount)
    BY <1>2, <1>6, AppendProperties DEF TempInv, TempTypeOK
  <2>2. helpers' \in [DOMAIN helpers' -> TempHelper']
    BY <1>2, <1>4 DEF TempHelper, SetNeedsDeref
  <2> QED BY <1>2, <1>4, <1>10, <2>1, <2>2 DEF TempInv, TempTypeOK
<1>12. FramesOrdered' BY <1>2, <1>4 DEF TempInv, FramesOrdered
<1>13. TempsExclusive'
  <2>1. \A g \in DOMAIN helpers : h < g => helpers[g].temp # helpers[h].temp
    <3>1. \A x \in DOMAIN helpers : x \in Nat
      BY DEF TempInv, TempTypeOK, ClientAssumption
    <3> QED BY <1>3, <3>1, OwnTempLemma
  <2>2. \A f, g \in DOMAIN helpers' :
          f < g /\ helpers'[f].temp = helpers'[g].temp
            => helpers'[g].external /\ ~helpers'[f].needsDeref
    BY ZenonT(40), <1>3, <1>4, <2>1 DEF TempInv, TempsExclusive
  <2>3. \A x \in DOMAIN helpers' : ~Contains(freeTemps', helpers'[x].temp)
    BY <1>2, <1>4 DEF TempInv, TempsExclusive
  <2> QED BY <1>2, <2>2, <2>3 DEF TempInv, TempsExclusive
<1>14. DerefExact'
  <2>1. {helpers'[x].temp : x \in Owners'} = {helpers[x].temp : x \in Owners} \cup {t}
    BY <1>3, <1>4, <1>5 DEF Owners, t
  <2> QED BY <1>9, <2>1 DEF TempInv, DerefExact
<1> QED BY <1>10, <1>11, <1>12, <1>13, <1>14 DEF TempInv, AssertionsHold

(* derefDone() of an object of the evaluation under way. *)
LEMMA DerefDoneStep ==
  ASSUME TempInv, ClientAssumption, NEW h \in Own, helpers[h].needsDeref,
         derefDone(h), UNCHANGED frames
  PROVE  TempInv'
<1> DEFINE t == helpers[h].temp
<1>2. /\ derefTemps' = RemoveFirst(derefTemps, t)
      /\ helpers' = SetNeedsDeref(h, FALSE)
      /\ status' = IF Contains(derefTemps, t) THEN status ELSE "assert"
      /\ UNCHANGED <<tempCount, freeTemps, frames>>
  BY DEF derefDone, Require, WithoutDeref
<1>3. h \in DOMAIN helpers /\ \A x \in DOMAIN helpers : helpers[x] \in TempHelper
  BY DEF Own, TempInv, TempTypeOK
<1>4. /\ DOMAIN helpers' = DOMAIN helpers
      /\ \A x \in DOMAIN helpers :
           /\ helpers'[x] \in TempHelper
           /\ helpers'[x].temp = helpers[x].temp
           /\ helpers'[x].external = helpers[x].external
           /\ helpers'[x].needsDeref = (helpers[x].needsDeref /\ x # h)
  BY <1>2, <1>3 DEF TempHelper, SetNeedsDeref
<1>5. h \in Owners /\ Owners' = Owners \ {h} BY <1>3, <1>4 DEF Owners
<1>7. \A x \in Owners : helpers[x].temp = t => x = h BY OwnerLemma
<1>6. t \in ToSet(derefTemps) BY <1>5 DEF TempInv, DerefExact
<1> HIDE DEF t
<1>9. /\ derefTemps' \in Seq(1..tempCount)
      /\ ToSet(derefTemps') = ToSet(derefTemps) \ {t} /\ IsInjective(derefTemps')
  BY <1>2, RemoveFirstLemma DEF TempInv, TempTypeOK, DerefExact
<1>10. status' = status
  BY <1>2, <1>6, ToSetLemma DEF TempInv, TempTypeOK
<1>11. TempTypeOK'
  <2>2. helpers' \in [DOMAIN helpers' -> TempHelper']
    BY <1>2, <1>4 DEF TempHelper, SetNeedsDeref
  <2> QED BY <1>2, <1>4, <1>9, <1>10, <2>2 DEF TempInv, TempTypeOK
<1>12. FramesOrdered' BY <1>2, <1>4 DEF TempInv, FramesOrdered
<1>13. TempsExclusive'
  <2>2. \A f, g \in DOMAIN helpers' :
          f < g /\ helpers'[f].temp = helpers'[g].temp
            => helpers'[g].external /\ ~helpers'[f].needsDeref
    BY <1>3, <1>4 DEF TempInv, TempsExclusive
  <2>3. \A x \in DOMAIN helpers' : ~Contains(freeTemps', helpers'[x].temp)
    BY <1>2, <1>4 DEF TempInv, TempsExclusive
  <2> QED BY <1>2, <2>2, <2>3 DEF TempInv, TempsExclusive
<1>14. DerefExact'
  <2>1. {helpers'[x].temp : x \in Owners'} = {helpers[x].temp : x \in Owners} \ {t}
    BY <1>3, <1>4, <1>5, <1>7 DEF Owners, t
  <2> QED BY <1>9, <2>1 DEF TempInv, DerefExact
<1> QED BY <1>10, <1>11, <1>12, <1>13, <1>14 DEF TempInv, AssertionsHold

(* ~TempHelper() of an object that does not wrap. *)
LEMMA DestroyStep ==
  ASSUME TempInv, ClientAssumption, Destroy
  PROVE  TempInv'
<1>1. PICK h \in Own \ {Base} : DestroyTemp(h) /\ UNCHANGED frames BY DEF Destroy
<1> DEFINE t == helpers[h].temp
<1>2. CASE helpers[h].needsDeref /\ isTerminated
  BY <1>1, <1>2, SameTemps DEF DestroyTemp, NotImplemented
<1>3. CASE ~(helpers[h].needsDeref /\ isTerminated)
  <2>1. h \in DOMAIN helpers /\ ~helpers[h].external
        /\ \A x \in DOMAIN helpers : helpers[x] \in TempHelper
    BY <1>1, OwnerLemma DEF Own, TempInv, TempTypeOK
  <2>2. \A g \in DOMAIN helpers : helpers[g].temp = t => g = h
    BY <1>1, OwnerLemma
  <2>3. /\ freeTemps' = Append(freeTemps, t)
        /\ helpers' = [x \in DOMAIN helpers \ {h} |-> helpers[x]]
        /\ UNCHANGED <<tempCount, frames>>
    BY <1>1, <1>3, <2>1 DEF DestroyTemp, FreedUnlessExternal, Restrict
  <2>4. t \in 1..tempCount /\ t \notin ToSet(freeTemps)
    BY <2>1, ToSetLemma DEF TempHelper, TempInv, TempTypeOK, TempsExclusive
  <2>5. h \in Owners <=> helpers[h].needsDeref BY <2>1 DEF Owners
  <2>6. Owners' = Owners \ {h} BY <2>3 DEF Owners
  <2>7. \A x \in DOMAIN helpers' : helpers'[x] = helpers[x] BY <2>3
  <2> HIDE DEF t
  <2>8. /\ derefTemps' \in Seq(1..tempCount)
        /\ ToSet(derefTemps') = ToSet(derefTemps) \ {t} /\ IsInjective(derefTemps')
        /\ status' = status
    <3>1. derefTemps \in Seq(1..tempCount) /\ IsInjective(derefTemps)
      BY DEF TempInv, TempTypeOK, DerefExact
    <3>2. CASE helpers[h].needsDeref
      <4>1. /\ derefTemps' = RemoveFirst(derefTemps, t)
            /\ status' = IF Contains(derefTemps, t) THEN status ELSE "assert"
        BY <1>1, <1>3, <3>2 DEF DestroyTemp, Require, WithoutDeref, t
      <4>2. t \in ToSet(derefTemps)
        BY <2>5, <3>2 DEF TempInv, DerefExact, t
      <4> QED BY <3>1, <4>1, <4>2, RemoveFirstLemma, ToSetLemma
    <3>3. CASE ~helpers[h].needsDeref
      <4>1. derefTemps' = derefTemps /\ status' = status
        BY <1>1, <3>3 DEF DestroyTemp
      <4>2. t \notin ToSet(derefTemps)
        BY <2>2, <2>5, <3>3 DEF TempInv, DerefExact, Owners
      <4> QED BY <3>1, <4>1, <4>2
    <3> QED BY <3>2, <3>3
  <2>9. h \notin ToSet(frames) BY <2>1 DEF TempInv, FramesOrdered
  <2>10. TempTypeOK'
    <3>1. freeTemps' \in Seq(1..tempCount)
      BY <2>3, <2>4, AppendProperties DEF TempInv, TempTypeOK
    <3>2. helpers' \in [DOMAIN helpers' -> TempHelper'] BY <2>1, <2>3 DEF TempHelper
    <3>3. frames \in Seq(DOMAIN helpers')
      <4>1. frames \in Seq(DOMAIN helpers) BY DEF TempInv, TempTypeOK
      <4>2. \A i \in 1..Len(frames) : frames[i] \in DOMAIN helpers'
        <5>1. \A i \in 1..Len(frames) : frames[i] \in DOMAIN helpers
          BY <4>1, ElementOfSeq
        <5>2. \A i \in 1..Len(frames) : frames[i] # h
          BY <2>9, <4>1, ToSetLemma
        <5> QED BY <2>3, <5>1, <5>2
      <4> QED BY <4>1, <4>2, LenProperties, SeqDef
    <3> QED BY <2>3, <2>8, <3>1, <3>2, <3>3 DEF TempInv, TempTypeOK
  <2>11. FramesOrdered' BY <2>3, <2>7 DEF TempInv, FramesOrdered
  <2>12. TempsExclusive'
    <3>1. freeTemps \in Seq(1..tempCount) /\ IsInjective(freeTemps)
      BY DEF TempInv, TempTypeOK, TempsExclusive
    <3>2. ToSet(freeTemps') = ToSet(freeTemps) \cup {t} /\ IsInjective(freeTemps')
      <4>1. /\ freeTemps' \in Seq(1..tempCount)
            /\ Len(freeTemps') = Len(freeTemps) + 1
            /\ \A i \in 1..Len(freeTemps) : freeTemps'[i] = freeTemps[i]
            /\ freeTemps'[Len(freeTemps) + 1] = t
        BY <2>3, <2>4, <3>1, AppendProperties
      <4> QED BY <2>4, <3>1, <4>1, ExtendLemma
    <3>3. \A x \in DOMAIN helpers' : helpers'[x].temp \notin ToSet(freeTemps')
      <4>1. \A x \in DOMAIN helpers : helpers[x].temp \notin ToSet(freeTemps)
        BY <3>1, ToSetLemma DEF TempInv, TempsExclusive
      <4> QED BY <2>2, <2>3, <2>7, <3>2, <4>1
    <3>4. freeTemps' \in Seq(1..tempCount)
      BY <2>3, <2>4, <3>1, AppendProperties
    <3>5. \A x \in DOMAIN helpers' : ~Contains(freeTemps', helpers'[x].temp)
      BY <3>3, <3>4, ToSetLemma
    <3> QED BY <2>3, <2>7, <3>2, <3>5 DEF TempInv, TempsExclusive
  <2>13. DerefExact'
    <3>1. {helpers'[x].temp : x \in Owners'} = {helpers[x].temp : x \in Owners} \ {t}
      <4>1. \A x \in Owners' : helpers'[x].temp = helpers[x].temp
        BY <2>7 DEF Owners
      <4>2. \A x \in Owners : helpers[x].temp = t <=> x = h
        BY <2>2 DEF Owners, t
      <4> QED BY <2>6, <4>1, <4>2
    <3> QED BY <2>8, <3>1 DEF TempInv, DerefExact
  <2> QED BY <2>8, <2>10, <2>11, <2>12, <2>13 DEF TempInv, AssertionsHold
<1> QED BY <1>2, <1>3

(* ~TempHelper() of a wrapping object that owns no reference. *)
LEMMA LeaveStep ==
  ASSUME TempInv, ClientAssumption, Leave
  PROVE  TempInv'
<1>1. /\ frames # <<>> /\ Own = {Base} /\ ~helpers[Base].needsDeref
      /\ DestroyTemp(Base) /\ frames' = Front(frames)
  BY DEF Leave
<1>2. Base \in DOMAIN helpers BY <1>1 DEF Own
<1>3. frames \in Seq(DOMAIN helpers) /\ DOMAIN helpers \subseteq Nat
  BY DEF TempInv, TempTypeOK, ClientAssumption
<1>4. /\ Len(frames) \in Nat \ {0}
      /\ frames' \in Seq(DOMAIN helpers)
      /\ Len(frames') = Len(frames) - 1
      /\ \A i \in 1..Len(frames) - 1 : frames'[i] = frames[i]
  BY <1>1, <1>3, FrontLemma
<1>5. Base = Last(frames) BY <1>1 DEF Base
<1>6. IsInjective(frames)
  <2>1. DOMAIN frames = 1..Len(frames) BY <1>3, LenProperties
  <2>2. \A i \in 1..Len(frames) : frames[i] \in Nat BY <1>3, ElementOfSeq
  <2> QED BY <1>4, <2>1, <2>2 DEF IsInjective, TempInv, FramesOrdered
<1>7. ToSet(frames') = ToSet(frames) \ {Base}
  BY <1>1, <1>3, <1>5, <1>6, FrontInjective
<1>8. Base \in ToSet(frames) BY <1>3, <1>4, <1>5, ToSetLemma DEF Last
<1>9. helpers[Base].external BY <1>2, <1>8 DEF TempInv, FramesOrdered
<1>10. /\ helpers' = [x \in DOMAIN helpers \ {Base} |-> helpers[x]]
       /\ UNCHANGED <<tempCount, freeTemps, derefTemps, status>>
  BY <1>1, <1>9 DEF DestroyTemp, FreedUnlessExternal, Restrict
<1>11. \A x \in DOMAIN helpers' : x \in DOMAIN helpers /\ helpers'[x] = helpers[x]
  BY <1>10
<1>12. TempTypeOK'
  <2>1. \A i \in 1..Len(frames') : frames'[i] \in DOMAIN helpers'
    <3>1. \A i \in 1..Len(frames') : frames'[i] \in ToSet(frames')
      BY <1>4, ToSetLemma
    <3>2. ToSet(frames) \subseteq DOMAIN helpers BY <1>3, ToSetLemma
    <3> QED BY <1>7, <1>10, <3>1, <3>2
  <2>2. frames' \in Seq(DOMAIN helpers')
    BY <1>4, <2>1, LenProperties, SeqDef
  <2>3. helpers' \in [DOMAIN helpers' -> TempHelper']
    BY <1>10 DEF TempHelper, TempInv, TempTypeOK
  <2> QED BY <1>10, <2>2, <2>3 DEF TempInv, TempTypeOK
<1>13. FramesOrdered'
  <2>1. \A i, j \in 1..Len(frames') : i < j => frames'[i] < frames'[j]
    BY <1>4 DEF TempInv, FramesOrdered
  <2>2. \A h \in DOMAIN helpers' : helpers'[h].external <=> h \in ToSet(frames')
    BY <1>7, <1>10, <1>11 DEF TempInv, FramesOrdered
  <2> QED BY <2>1, <2>2 DEF FramesOrdered
<1>14. TempsExclusive' BY <1>10, <1>11 DEF TempInv, TempsExclusive
<1>15. DerefExact'
  <2>1. Owners' = Owners BY <1>1, <1>10, <1>11 DEF Owners
  <2>2. \A x \in Owners : helpers'[x].temp = helpers[x].temp
    BY <1>11, <2>1 DEF Owners
  <2>3. {helpers'[x].temp : x \in Owners'} = {helpers[x].temp : x \in Owners}
    BY <2>1, <2>2
  <2> QED BY <1>10, <2>3 DEF TempInv, DerefExact
<1> QED BY <1>10, <1>12, <1>13, <1>14, <1>15 DEF TempInv, AssertionsHold

-----------------------------------------------------------------------------
(* TempInv holds in every reachable state. *)

LEMMA TempInit ==
  ASSUME Init
  PROVE  TempInv
<1>1. /\ tempCount = 0 /\ freeTemps = <<>> /\ derefTemps = <<>>
      /\ helpers = [h \in {} |-> 0] /\ status = "ok" /\ frames = <<>>
  BY DEF Init, BuilderInit
<1>2. DOMAIN helpers = {} BY <1>1
<1>3. Owners = {} BY <1>2 DEF Owners
<1>4. freeTemps \in Seq(1..tempCount) /\ derefTemps \in Seq(1..tempCount)
      /\ frames \in Seq(DOMAIN helpers)
  BY <1>1, EmptySeq
<1>5. helpers \in [DOMAIN helpers -> TempHelper] BY <1>1, <1>2
<1>6. TempTypeOK BY <1>1, <1>2, <1>4, <1>5 DEF TempTypeOK
<1>7. FramesOrdered BY <1>1, <1>2 DEF FramesOrdered
<1>8. TempsExclusive BY <1>1, <1>2, EmptyLemma DEF TempsExclusive
<1>9. DerefExact BY <1>1, <1>3, EmptyLemma DEF DerefExact
<1> QED BY <1>1, <1>6, <1>7, <1>8, <1>9 DEF TempInv, AssertionsHold

(* The other actions touch the temporaries only for a moment, if at all,   *)
(* and their assertions on the lvalue hold.                                *)
LEMMA OtherSteps ==
  ASSUME TempInv,
         \/ Emit \/ EmitInvoke \/ LockLValue \/ UnlockLValue \/ AddBlock
         \/ SwitchBlock \/ EmitJump \/ EmitBranch \/ EmitRet \/ OpenScope
         \/ CloseScope \/ Return \/ Abandon
  PROVE  TempInv'
<1>1. /\ status' \in {status, "notImplemented"}
      /\ UNCHANGED <<tempCount, freeTemps, derefTemps, helpers, frames>>
  <2>1. CASE Emit BY <2>1 DEF Emit, Create, NotImplemented
  <2>2. CASE EmitInvoke BY <2>2 DEF EmitInvoke, CreateInvoke, NotImplemented
  <2>3. CASE LockLValue BY <2>3 DEF LockLValue, OpenLValue, Require, NotImplemented
  <2>4. CASE UnlockLValue
    BY <2>4 DEF UnlockLValue, CloseLValue, Require, NotImplemented
  <2>5. CASE AddBlock BY <2>5 DEF AddBlock, createBlock
  <2>6. CASE SwitchBlock BY <2>6 DEF SwitchBlock, setCurrentBlock
  <2>7. CASE EmitJump BY <2>7 DEF EmitJump, Create, NotImplemented
  <2>8. CASE EmitBranch BY <2>8 DEF EmitBranch, Create, NotImplemented
  <2>9. CASE EmitRet BY <2>9 DEF EmitRet, CreateRet, NotImplemented
  <2>10. CASE OpenScope BY <2>10 DEF OpenScope, PushMarker
  <2>11. CASE CloseScope BY <2>11 DEF CloseScope, PopMarker
  <2>12. CASE Return BY <2>12 DEF Return, RetDone
  <2>13. CASE Abandon BY <2>13 DEF Abandon, NotImplemented
  <2> QED BY <2>1, <2>2, <2>3, <2>4, <2>5, <2>6, <2>7, <2>8, <2>9, <2>10,
             <2>11, <2>12, <2>13
<1> QED BY <1>1, SameTemps

LEMMA ScopeSteps ==
  ASSUME TempInv, DeclareLocal \/ LeaveScope \/ ReleaseLocal
  PROVE  TempInv'
<1>1. /\ UNCHANGED <<status, derefTemps, helpers, frames>>
      /\ ScratchTemp \/ UNCHANGED <<tempCount, freeTemps>>
  <2>1. CASE DeclareLocal BY <2>1 DEF DeclareLocal, localsPush
  <2>2. CASE LeaveScope BY <2>2 DEF LeaveScope, PopStep
  <2>3. CASE ReleaseLocal BY <2>3 DEF ReleaseLocal, RetStep
  <2> QED BY <2>1, <2>2, <2>3
<1> QED BY <1>1, SameTemps, ScratchStep

LEMMA TempNext ==
  ASSUME TempInv, ClientAssumption, [Next]_vars
  PROVE  TempInv'
<1>1. CASE UNCHANGED vars BY <1>1, SameTemps DEF vars, builderVars
<1>2. CASE DeclareTemp BY <1>2, DeclareTempStep
<1>3. CASE Enter BY <1>3, EnterStep
<1>4. CASE Disown
  <2>1. Base \in Own BY <1>4 DEF Disown
  <2> QED BY <1>4, <2>1, DerefDoneStep DEF Disown
<1>5. CASE Leave BY <1>5, LeaveStep
<1>6. CASE OwnReference BY <1>6, OwnReferenceStep
<1>7. CASE Consume BY <1>7, DerefDoneStep DEF Consume
<1>8. CASE Destroy BY <1>8, DestroyStep
<1>9. CASE DeclareLocal \/ LeaveScope \/ ReleaseLocal BY <1>9, ScopeSteps
<1> QED BY <1>1, <1>2, <1>3, <1>4, <1>5, <1>6, <1>7, <1>8, <1>9, OtherSteps
    DEF Next

LEMMA TempInvariant == Spec => []TempInv
<1>1. Init => TempInv BY TempInit
<1>2. TempInv /\ [Next]_vars => TempInv' BY TempNext, ClientAssumption
<1> QED BY <1>1, <1>2, PTL DEF Spec

(* No temporary is ever in use twice (Builder::getFreeTemp, setTempFree):  *)
(* whatever the users of the builder do within the rules of C++ scopes, two*)
(* objects share a temporary only while the younger one wraps it.          *)
THEOREM TemporariesAreExclusive == Spec => []TempsExclusive
BY TempInvariant, PTL DEF TempInv

(* What a landing pad releases (derefTemps) is exactly what is owned: each *)
(* owned temporary once, and no other.                                     *)
THEOREM LandingPadsReleaseWhatIsOwned == Spec => []DerefExact
BY TempInvariant, PTL DEF TempInv

(* The assertions in derefNeeded(), derefDone(), unlockNeeded() and        *)
(* unlockDone() never fail.                                                *)
THEOREM NoAssertionFails == Spec => []AssertionsHold
BY TempInvariant, PTL DEF TempInv
=============================================================================
