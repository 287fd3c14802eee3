-------------------------- MODULE SharedDraftProofs -------------------------
(***************************************************************************)
(* Theorems about SharedDraft, for every set of clients, accounts and      *)
(* saves under way, every number of rounds and every bound.                *)
(***************************************************************************)
EXTENDS SharedDraft, TLAPS

-----------------------------------------------------------------------------
\* The type invariant.

LEMMA Constants ==
  /\ Blank \in Base /\ Away \in Form /\ Free \in Save
  /\ 0 \in Changes /\ 0 \in Lives /\ 0 \in 0..MaxFaults /\ 0 \in 0..MaxSaves
BY BoundsAssumption DEF Blank, Base, Away, Form, Free, Save, Changes, Lives, Versions, Statuses

LEMMA BaseOfTyped == ASSUME NEW r \in Row \cup {NoRow} PROVE BaseOf(r) \in Base
BY Constants DEF BaseOf, Row, Base, Lives

\* What a new value of one form, or of one save, does to the type.
LEMMA FormUpdate ==
  ASSUME form \in [Clients -> Form], NEW c \in Clients, NEW f \in Form
  PROVE  [form EXCEPT ![c] = f] \in [Clients -> Form]
OBVIOUS

LEMMA SaveUpdate ==
  ASSUME save \in [Clients -> [Slots -> Save]], NEW c \in Clients, NEW s \in Slots,
         NEW p \in Save
  PROVE  [save EXCEPT ![c][s] = p] \in [Clients -> [Slots -> Save]]
OBVIOUS

LEMMA SavesUpdate ==
  ASSUME save \in [Clients -> [Slots -> Save]], NEW c \in Clients
  PROVE  [save EXCEPT ![c] = Orphaned(@)] \in [Clients -> [Slots -> Save]]
<1>1. ASSUME NEW p \in Save PROVE [p EXCEPT !.mine = FALSE] \in Save
  BY DEF Save
<1> QED BY <1>1 DEF Orphaned

LEMMA EditedTyped ==
  ASSUME NEW f \in Form, NEW n \in Changes
  PROVE  Edited(f, n) \in Form
BY Constants DEF Edited, Form

LEMMA HeardTyped ==
  ASSUME NEW f \in Form, NEW reply \in {"gone", "failed", "ok"}, NEW made \in Base
  PROVE  Heard(f, reply, made) \in Form
BY DEF Heard, Form, Statuses
LEMMA ChangeTyped == TypeOK /\ Change => changes' \in Changes
BY BoundsAssumption DEF TypeOK, Change, Changes

LEMMA FaultsTyped ==
  ASSUME TypeOK, faults' = faults \/ (faults < MaxFaults /\ faults' = faults + 1)
  PROVE  faults' \in 0..MaxFaults
BY BoundsAssumption DEF TypeOK

LEMMA TypeInit == Init => TypeOK
BY Constants, BoundsAssumption DEF Init, TypeOK

LEMMA FormSteps ==
  ASSUME TypeOK, NEW c \in Clients,
         \/ Open(c) \/ Type(c) \/ Revert(c) \/ Resume(c) \/ Discard(c) \/ StartNew(c)
         \/ Close(c) \/ Submit(c) \/ HearPost(c) \/ LosePost(c)
  PROVE  TypeOK'
<1> USE Constants, BoundsAssumption
<1>0. form[c] \in Form /\ form \in [Clients -> Form] /\ save \in [Clients -> [Slots -> Save]]
  BY DEF TypeOK
<1>1. CASE Open(c)
  <2>1. PICK reached \in BOOLEAN :
          LET shown == IF reached THEN BaseOf(row) ELSE Blank
              start == [Away EXCEPT !.shown = shown,
                                    !.status = IF reached THEN "idle" ELSE "device"]
          IN /\ reached \/ faults < MaxFaults
             /\ faults' = IF reached THEN faults ELSE faults + 1
             /\ form' = [form EXCEPT ![c] =
                  [start EXCEPT !.phase = IF shown = Blank /\ ~copy[c]
                                          THEN "editing" ELSE "offered"]]
    BY <1>1 DEF Open
  <2> DEFINE shown == IF reached THEN BaseOf(row) ELSE Blank
             f == [[Away EXCEPT !.shown = shown,
                                !.status = IF reached THEN "idle" ELSE "device"]
                     EXCEPT !.phase = IF shown = Blank /\ ~copy[c]
                                      THEN "editing" ELSE "offered"]
  <2>2. shown \in Base
    BY BaseOfTyped DEF TypeOK
  <2>3. f \in Form
    <3> HIDE DEF shown
    <3> QED BY <2>2 DEF Form, Statuses
  <2>4. form' = [form EXCEPT ![c] = f]
    BY <2>1
  <2>5. form' \in [Clients -> Form]
    <3> HIDE DEF f
    <3> QED BY <2>3, <2>4, <1>0, FormUpdate
  <2>6. faults' \in 0..MaxFaults
    BY <2>1 DEF TypeOK
  <2> QED BY <1>1, <2>5, <2>6 DEF Open, TypeOK, ghosts
<1>2. CASE Type(c)
  <2>1. form' \in [Clients -> Form]
    BY <1>0, <1>2, ChangeTyped, EditedTyped, FormUpdate DEF Type
  <2> QED BY <1>2, <2>1, ChangeTyped DEF Type, Change, TypeOK
<1>3. CASE Revert(c)
  <2>1. [form[c] EXCEPT !.dirty = FALSE, !.timer = 0] \in Form
    BY <1>0 DEF Form
  <2> QED BY <1>0, <1>3, <2>1, FormUpdate DEF Revert, TypeOK, ghosts
<1>4. CASE Resume(c)
  <2> DEFINE f == [form[c] EXCEPT !.base = form[c].shown,
                                  !.lineage = form[c].shown.life, !.shown = Blank]
  <2>1. form[c].shown.life \in Lives
    BY <1>0 DEF Form, Base
  <2>2. f \in Form
    BY <1>0, <2>1 DEF Form
  <2>3. form' = [form EXCEPT ![c] = Edited(f, changes')]
    BY <1>4 DEF Resume
  <2> HIDE DEF f
  <2>4. form' \in [Clients -> Form]
    BY <1>0, <1>4, <2>2, <2>3, ChangeTyped, EditedTyped, FormUpdate DEF Resume
  <2> QED BY <1>4, <2>4, ChangeTyped DEF Resume, Change, TypeOK
<1>5. CASE Discard(c)
  <2>1. [form[c] EXCEPT !.phase = "editing", !.base = Blank, !.shown = Blank] \in Form
    BY <1>0 DEF Form
  <2>2. form' \in [Clients -> Form]
    BY <1>0, <1>5, <2>1, FormUpdate DEF Discard
  <2>3. wipe' \in [Clients -> BOOLEAN]
    BY <1>5 DEF Discard, TypeOK
  <2>4. faults' = faults \/ (faults < MaxFaults /\ faults' = faults + 1)
    BY <1>5, Zenon DEF Discard
  <2>5. faults' \in 0..MaxFaults
    BY <2>4, FaultsTyped
  <2> QED BY <1>5, <2>2, <2>3, <2>5 DEF Discard, TypeOK, ghosts
<1>6. CASE StartNew(c)
  <2>1. [form[c] EXCEPT !.base = Blank, !.status = "idle", !.lineage = 0,
                        !.timer = IF form[c].dirty THEN form[c].change ELSE 0] \in Form
    BY <1>0 DEF Form, Statuses
  <2> QED BY <1>0, <1>6, <2>1, FormUpdate DEF StartNew, TypeOK, ghosts
<1>7. CASE Close(c)
  <2>1. faults' \in 0..MaxFaults
    BY <1>7 DEF Close, TypeOK
  <2>2. save' \in [Clients -> [Slots -> Save]] /\ form' \in [Clients -> Form]
    BY <1>0, <1>7, SavesUpdate, FormUpdate DEF Close
  <2> QED BY <1>7, <2>1, <2>2 DEF Close, TypeOK, ghosts
<1>8. CASE Submit(c)
  <2>1. [form[c] EXCEPT !.phase = "submitting"] \in Form
    BY <1>0 DEF Form
  <2>2. form' = [form EXCEPT ![c] = [form[c] EXCEPT !.phase = "submitting"]]
    BY <1>0, <1>8 DEF Submit
  <2>3. form' \in [Clients -> Form]
    BY <1>0, <2>1, <2>2, FormUpdate
  <2> QED BY <1>8, <2>3 DEF Submit, TypeOK, ghosts
<1>9. ASSUME HearPost(c) \/ LosePost(c) PROVE TypeOK'
  <2>1. [form[c] EXCEPT !.phase = "editing"] \in Form
    BY <1>0 DEF Form
  <2>2. \/ form' = [form EXCEPT ![c] = [form[c] EXCEPT !.phase = "editing"]]
        \/ form' = [form EXCEPT ![c] = Away]
    BY <1>0, <1>9 DEF HearPost, LosePost
  <2>3. form' \in [Clients -> Form]
    BY <1>0, <2>1, <2>2, FormUpdate
  <2>4. save' \in [Clients -> [Slots -> Save]]
    BY <1>0, <1>9, SavesUpdate DEF HearPost, LosePost
  <2>5. /\ copy' \in [Clients -> BOOLEAN] /\ faults' \in 0..MaxFaults
        /\ post' \in [Clients -> {"none", "clear", "filed", "refused"}]
    <3>2. faults' = faults \/ (faults < MaxFaults /\ faults' = faults + 1)
      BY <1>9, Zenon DEF HearPost, LosePost
    <3>3. faults' \in 0..MaxFaults
      BY <3>2, FaultsTyped
    <3> QED BY <1>9, <3>3 DEF HearPost, LosePost, TypeOK
  <2> QED BY <1>9, <2>3, <2>4, <2>5 DEF HearPost, LosePost, TypeOK, ghosts
<1> QED BY <1>1, <1>2, <1>3, <1>4, <1>5, <1>6, <1>7, <1>8, <1>9

LEMMA SaveSteps ==
  ASSUME TypeOK, SaveInv, NEW c \in Clients, NEW s \in Slots,
         \/ SendSave(c, s) \/ HearSave(c, s) \/ LoseSave(c, s)
         \/ ReadDraft(c, s) \/ Collide(c, s) \/ FailSave(c, s)
  PROVE  TypeOK'
<1> USE Constants, BoundsAssumption
<1> DEFINE p == save[c][s]
<1>0. /\ form[c] \in Form /\ form \in [Clients -> Form]
      /\ p \in Save /\ save \in [Clients -> [Slots -> Save]]
  BY DEF TypeOK
<1>1. CASE SendSave(c, s)
  <2>1. [Free EXCEPT !.step = "read", !.mine = TRUE, !.change = form[c].timer,
                     !.base = form[c].base, !.lineage = form[c].lineage] \in Save
    BY <1>0 DEF Form, Save
  <2>2. [form[c] EXCEPT !.timer = 0, !.status = "saving"] \in Form
    BY <1>0 DEF Form, Statuses
  <2>3. form' \in [Clients -> Form] /\ save' \in [Clients -> [Slots -> Save]]
    BY <1>0, <1>1, <2>1, <2>2, FormUpdate, SaveUpdate DEF SendSave
  <2>4. sent' \in 0..MaxSaves /\ overlapped' \subseteq Clients
    BY <1>1 DEF SendSave, TypeOK
  <2> QED BY <1>1, <2>3, <2>4 DEF SendSave, TypeOK
<1>2. CASE HearSave(c, s)
  <2>1. p.reply \in {"gone", "failed", "ok"} /\ p.made \in Base
    BY <1>0, <1>2 DEF HearSave, SaveInv, SaveStands, Save
  <2>2. form' \in [Clients -> Form]
    BY <1>0, <1>2, <2>1, HeardTyped, FormUpdate DEF HearSave
  <2>3. save' \in [Clients -> [Slots -> Save]]
    BY <1>0, <1>2, SaveUpdate DEF HearSave
  <2> QED BY <1>2, <2>2, <2>3 DEF HearSave, TypeOK, ghosts
<1>3. CASE LoseSave(c, s)
  <2> DEFINE q == IF p.step = "answer" THEN Free ELSE [p EXCEPT !.mine = FALSE]
  <2>1. q \in Save
    BY <1>0 DEF Save
  <2>2. save' = [save EXCEPT ![c][s] = q] /\ form' = [form EXCEPT ![c] = Heard(@, "failed", Blank)]
    BY <1>0, <1>3 DEF LoseSave
  <2> HIDE DEF q
  <2>3. save' \in [Clients -> [Slots -> Save]] /\ form' \in [Clients -> Form]
    BY <1>0, <2>1, <2>2, SaveUpdate, HeardTyped, FormUpdate
  <2> QED BY <1>3, <2>3 DEF LoseSave, TypeOK, ghosts
<1>4. CASE ReadDraft(c, s)
  <2> DEFINE q == IF RefusedAsGone(p) THEN [p EXCEPT !.step = "answer", !.reply = "gone"]
                  ELSE [p EXCEPT !.step = "write", !.current = row]
  <2>1. q \in Save
    BY <1>0 DEF Save, TypeOK
  <2>2. save' = [save EXCEPT ![c][s] = q]
    BY <1>0, <1>4 DEF ReadDraft
  <2> HIDE DEF q
  <2>3. save' \in [Clients -> [Slots -> Save]]
    BY <1>0, <2>1, <2>2, SaveUpdate
  <2> QED BY <1>4, <2>3 DEF ReadDraft, TypeOK, ghosts
<1>5. CASE Collide(c, s)
  <2> DEFINE q == IF Exhausted(p)
                  THEN [p EXCEPT !.step = "answer", !.reply = "failed", !.current = NoRow]
                  ELSE [p EXCEPT !.step = "read", !.tries = p.tries + 1, !.current = NoRow]
  <2>0. p.tries \in 0..(Attempts - 1)
    BY <1>0 DEF Save
  <2>1. p.tries + 1 # Attempts => p.tries + 1 \in 0..(Attempts - 1)
    BY <2>0
  <2>2. q \in Save
    BY <1>0, <2>1 DEF Save, Exhausted
  <2>3. save' = [save EXCEPT ![c][s] = q]
    BY <1>0, <1>5 DEF Collide
  <2> HIDE DEF q
  <2>4. save' \in [Clients -> [Slots -> Save]]
    BY <1>0, <2>2, <2>3, SaveUpdate
  <2> QED BY <1>5, <2>4 DEF Collide, TypeOK, ghosts
<1>6. CASE FailSave(c, s)
  <2>1. [p EXCEPT !.step = "answer", !.reply = "failed", !.current = NoRow] \in Save
    BY <1>0 DEF Save
  <2>2. save' \in [Clients -> [Slots -> Save]]
    BY <1>0, <1>6, <2>1, SaveUpdate DEF FailSave
  <2> QED BY <1>6, <2>2 DEF FailSave, TypeOK, ghosts
<1> QED BY <1>1, <1>2, <1>3, <1>4, <1>5, <1>6

\* What a save that lands makes of the row.
LEMMA LandedRow ==
  ASSUME TypeOK, NEW c \in Clients, NEW s \in Slots, Land(c, s)
  PROVE  row' \in Row /\ lives' \in 0..MaxLives
<1> USE Constants, BoundsAssumption
<1> DEFINE p == save[c][s]
<1>1. row \in Row \cup {NoRow} /\ p \in Save /\ lives \in Lives
  BY DEF TypeOK
<1>2. /\ row = NoRow => lives < MaxLives
      /\ lives' = IF row = NoRow THEN lives + 1 ELSE lives
      /\ row' = Written(c, p)
  BY DEF Land
<1>3. lives \in 0..MaxLives /\ p.current \in Row \cup {NoRow} /\ p.change \in Changes
  BY <1>1 DEF Lives, Save
<1>4. lives' \in 0..MaxLives /\ (row = NoRow => lives + 1 \in 1..MaxLives)
  BY <1>2, <1>3
<1>5. /\ IF p.current = NoRow THEN 1 \in Versions ELSE p.current.version + 1 \in Versions
      /\ row # NoRow => row.life \in Lives \ {0}
  BY <1>1, <1>3 DEF Row, Versions
<1> QED BY <1>2, <1>3, <1>4, <1>5 DEF Written, Row, Lives

LEMMA RowSteps ==
  ASSUME TypeOK, NEW c \in Clients,
         \/ DeleteDraft(c) \/ ClearDraftAfterSubmit(c) \/ \E s \in Slots : Land(c, s)
  PROVE  TypeOK'
<1> USE Constants, BoundsAssumption
<1>1. ASSUME DeleteDraft(c) \/ ClearDraftAfterSubmit(c) PROVE TypeOK'
  <2>2. faults' = faults \/ (faults < MaxFaults /\ faults' = faults + 1)
    BY <1>1, Zenon DEF DeleteDraft, ClearDraftAfterSubmit
  <2>3. faults' \in 0..MaxFaults
    BY <2>2, FaultsTyped
  <2> QED BY <1>1, <2>3 DEF DeleteDraft, ClearDraftAfterSubmit, TypeOK, ghosts
<1>2. ASSUME NEW s \in Slots, Land(c, s) PROVE TypeOK'
  <2> DEFINE p == save[c][s]
  <2>1. /\ form[c] \in Form /\ form \in [Clients -> Form] /\ row \in Row \cup {NoRow}
        /\ p \in Save /\ save \in [Clients -> [Slots -> Save]] /\ lives \in Lives
    BY DEF TypeOK
  <2>2. row' \in Row
    BY <1>2, LandedRow
  <2>3. lives' \in 0..MaxLives
    BY <1>2, LandedRow
  <2>4. BaseOf(row') \in Base /\ row'.life \in Lives
    BY <2>2, BaseOfTyped DEF Row
  <2> DEFINE q == [p EXCEPT !.step = "answer", !.reply = "ok", !.made = BaseOf(row'),
                            !.current = NoRow]
             f == [form[c] EXCEPT !.lineage = row'.life]
  <2>5. q \in Save /\ f \in Form
    BY <2>1, <2>4 DEF Save, Form
  <2>6. save' = [save EXCEPT ![c][s] = q] /\ form' \in {form, [form EXCEPT ![c] = f]}
    BY <2>1, <1>2 DEF Land
  <2> HIDE DEF q, f
  <2>7. save' \in [Clients -> [Slots -> Save]] /\ form' \in [Clients -> Form]
    BY <2>1, <2>5, <2>6, SaveUpdate, FormUpdate
  <2>8. /\ unreported' \subseteq [reborn : BOOLEAN, crossed : BOOLEAN]
        /\ revived' \subseteq [unlearned : BOOLEAN, onto : {"nothing", "successor"}]
    <3>1. Replacing(c, p) \subseteq [reborn : BOOLEAN, crossed : BOOLEAN]
      <4>1. [reborn |-> row.version = p.base.version, crossed |-> row.life # p.current.life]
              \in [reborn : BOOLEAN, crossed : BOOLEAN]
        <5>1. (row.version = p.base.version) \in BOOLEAN /\ (row.life # p.current.life) \in BOOLEAN
          BY Zenon
        <5> QED BY <5>1, Zenon
      <4> QED BY <4>1, Zenon DEF Replacing
    <3>2. Reviving(p) \subseteq [unlearned : BOOLEAN, onto : {"nothing", "successor"}]
      <4>1. [unlearned |-> p.base.version = 0,
             onto |-> IF row = NoRow THEN "nothing" ELSE "successor"]
              \in [unlearned : BOOLEAN, onto : {"nothing", "successor"}]
        <5>1. (p.base.version = 0) \in BOOLEAN
          BY Zenon
        <5>2. (IF row = NoRow THEN "nothing" ELSE "successor") \in {"nothing", "successor"}
          BY Zenon
        <5> QED BY <5>1, <5>2, Zenon
      <4> QED BY <4>1, Zenon DEF Reviving
    <3> QED BY <1>2, <3>1, <3>2 DEF Land, TypeOK
  <2> QED BY <1>2, <2>2, <2>3, <2>7, <2>8 DEF Land, TypeOK, Lives
<1> QED BY <1>1, <1>2

-----------------------------------------------------------------------------
\* What the worker has read: SaveInv.

\* With the row as it was, each save is as good as it was or has no draft to write.
LEMMA SaveKept ==
  ASSUME SaveInv, row' = row, lives' = lives,
         \A c \in Clients, s \in Slots :
           \/ save'[c][s] = save[c][s]
           \/ save'[c][s] = [save[c][s] EXCEPT !.mine = FALSE] /\ save[c][s] \in Save
           \/ save'[c][s].step \in {"none", "read"}
           \/ save'[c][s].step = "answer" /\ save'[c][s].reply # "none"
           \/ SaveStands(save[c][s])'
  PROVE  SaveInv'
<1> SUFFICES ASSUME NEW c \in Clients, NEW s \in Slots PROVE SaveStands(save[c][s])'
  BY DEF SaveInv
<1>1. SaveStands(save[c][s])
  BY DEF SaveInv
<1>2. CASE save'[c][s] = [save[c][s] EXCEPT !.mine = FALSE] /\ save[c][s] \in Save
  BY <1>1, <1>2 DEF SaveStands, Save
<1> QED BY <1>1, <1>2 DEF SaveStands

LEMMA SaveInvForms ==
  ASSUME TypeOK, SaveInv, NEW c \in Clients,
         \/ Open(c) \/ Type(c) \/ Revert(c) \/ Resume(c) \/ Discard(c) \/ StartNew(c)
         \/ Close(c) \/ Submit(c) \/ HearPost(c) \/ LosePost(c)
  PROVE  SaveInv'
<1>1. row' = row /\ lives' = lives
  BY DEF Open, Type, Revert, Resume, Discard, StartNew, Close, Submit, HearPost, LosePost,
         Change, ghosts
<1>2. save' = save \/ save' = [save EXCEPT ![c] = Orphaned(@)]
  BY DEF Open, Type, Revert, Resume, Discard, StartNew, Close, Submit, HearPost, LosePost
<1>3. save \in [Clients -> [Slots -> Save]]
  BY DEF TypeOK
<1>4. ASSUME NEW d \in Clients, NEW s \in Slots
      PROVE  \/ save'[d][s] = save[d][s]
             \/ save'[d][s] = [save[d][s] EXCEPT !.mine = FALSE] /\ save[d][s] \in Save
  <2>1. CASE save' = save
    BY <2>1
  <2>2. CASE save' = [save EXCEPT ![c] = Orphaned(@)]
    <3>1. save'[d] = IF d = c THEN Orphaned(save[c]) ELSE save[d]
      BY <1>3, <2>2
    <3>2. save[d][s] \in Save
      BY <1>3
    <3>3. Orphaned(save[c])[s] = [save[c][s] EXCEPT !.mine = FALSE]
      BY DEF Orphaned
    <3> QED BY <3>1, <3>2, <3>3
  <2> QED BY <1>2, <2>1, <2>2
<1>5. ASSUME NEW d \in Clients, NEW s \in Slots
      PROVE  \/ save'[d][s] = save[d][s]
             \/ save'[d][s] = [save[d][s] EXCEPT !.mine = FALSE] /\ save[d][s] \in Save
             \/ save'[d][s].step \in {"none", "read"}
             \/ save'[d][s].step = "answer" /\ save'[d][s].reply # "none"
             \/ SaveStands(save[d][s])'
  BY <1>4, Zenon
<1> QED BY <1>1, <1>5, SaveKept

LEMMA SaveInvSaves ==
  ASSUME TypeOK, SaveInv, NEW c \in Clients, NEW s \in Slots,
         \/ SendSave(c, s) \/ HearSave(c, s) \/ LoseSave(c, s)
         \/ ReadDraft(c, s) \/ Collide(c, s) \/ FailSave(c, s)
  PROVE  SaveInv'
<1> DEFINE p == save[c][s]
<1>1. row' = row /\ lives' = lives
  BY DEF SendSave, HearSave, LoseSave, ReadDraft, Collide, FailSave, ghosts
<1>2. save \in [Clients -> [Slots -> Save]] /\ p \in Save /\ row \in Row \cup {NoRow}
  BY DEF TypeOK
<1>3. \A d \in Clients, t \in Slots : (d # c \/ t # s) => save'[d][t] = save[d][t]
  BY <1>2 DEF SendSave, HearSave, LoseSave, ReadDraft, Collide, FailSave
<1>4. \/ p' = [p EXCEPT !.mine = FALSE]
      \/ p'.step \in {"none", "read"}
      \/ p'.step = "answer" /\ p'.reply # "none"
      \/ SaveStands(save[c][s])'
  <2>1. CASE SendSave(c, s)
    BY <1>2, <2>1 DEF SendSave, Free
  <2>2. CASE HearSave(c, s)
    BY <1>2, <2>2 DEF HearSave, Free
  <2>3. CASE LoseSave(c, s)
    BY <1>2, <2>3 DEF LoseSave, Free
  <2>4. CASE ReadDraft(c, s)
    <3>1. CASE RefusedAsGone(p)
      <4>1. p' = [p EXCEPT !.step = "answer", !.reply = "gone"]
        BY <1>2, <2>4, <3>1 DEF ReadDraft
      <4> QED BY <1>2, <4>1 DEF Save
    <3>2. CASE ~RefusedAsGone(p)
      <4>1. p' = [p EXCEPT !.step = "write", !.current = row]
        BY <1>2, <2>4, <3>2 DEF ReadDraft
      <4>2. p'.step = "write" /\ p'.current = row /\ p'.base = p.base
        BY <1>2, <4>1 DEF Save
      <4>3. row = NoRow => p.base.version = 0
        BY <3>2 DEF RefusedAsGone
      <4>4. row # NoRow => row.life = lives /\ lives <= lives /\ row.version <= row.version
        BY <1>2 DEF SaveInv, TypeOK, Lives, Row, Versions
      <4> QED BY <1>1, <4>2, <4>3, <4>4 DEF SaveStands
    <3> QED BY <3>1, <3>2
  <2>5. CASE Collide(c, s)
    <3>1. \/ p' = [p EXCEPT !.step = "answer", !.reply = "failed", !.current = NoRow]
          \/ p' = [p EXCEPT !.step = "read", !.tries = p.tries + 1, !.current = NoRow]
      BY <1>2, <2>5 DEF Collide
    <3> QED BY <1>2, <3>1 DEF Save
  <2>6. CASE FailSave(c, s)
    <3>1. p' = [p EXCEPT !.step = "answer", !.reply = "failed", !.current = NoRow]
      BY <1>2, <2>6 DEF FailSave
    <3> QED BY <1>2, <3>1 DEF Save
  <2> QED BY <2>1, <2>2, <2>3, <2>4, <2>5, <2>6
<1>5. ASSUME NEW d \in Clients, NEW t \in Slots
      PROVE  \/ save'[d][t] = save[d][t]
             \/ save'[d][t] = [save[d][t] EXCEPT !.mine = FALSE] /\ save[d][t] \in Save
             \/ save'[d][t].step \in {"none", "read"}
             \/ save'[d][t].step = "answer" /\ save'[d][t].reply # "none"
             \/ SaveStands(save[d][t])'
  <2>1. CASE d = c /\ t = s
    BY <1>2, <1>4, <2>1
  <2> QED BY <1>3, <2>1
<1> QED BY <1>1, <1>5, SaveKept

LEMMA SaveInvRow ==
  ASSUME TypeOK, SaveInv, NEW c \in Clients, DeleteDraft(c) \/ ClearDraftAfterSubmit(c)
  PROVE  SaveInv'
<1>1. row' \in {row, NoRow} /\ lives' = lives /\ save' = save
  BY DEF DeleteDraft, ClearDraftAfterSubmit, ghosts
<1>2. ASSUME NEW d \in Clients, NEW t \in Slots PROVE SaveStands(save[d][t])'
  <2>1. SaveStands(save[d][t])
    BY DEF SaveInv
  <2> QED BY <1>1, <2>1 DEF SaveStands
<1> QED BY <1>1, <1>2 DEF SaveInv

\* The row a write finds is the one that was read, by its number, or both are absent.
LEMMA LandFacts ==
  ASSUME TypeOK, SaveInv, NEW c \in Clients, NEW s \in Slots, Land(c, s)
  PROVE  /\ row = NoRow <=> save[c][s].current = NoRow
         /\ row # NoRow => save[c][s].current.version = row.version
         /\ row = NoRow => save[c][s].base.version = 0 /\ row'.version = 1
                           /\ row'.life = lives + 1 /\ lives' = lives + 1
         /\ row # NoRow => row'.version = row.version + 1
                           /\ row'.life = row.life /\ lives' = lives
         /\ row' \in Row /\ row'.by = c /\ row'.change = save[c][s].change
<1>1. SaveStands(save[c][s])
  BY DEF SaveInv
<1>2. row' \in Row
  BY LandedRow
<1> DEFINE p == save[c][s]
<1>3. p.step = "write" /\ Untouched(p) /\ row' = Written(c, p)
  BY Zenon DEF Land
<1>4. lives' = IF row = NoRow THEN lives + 1 ELSE lives
  BY Zenon DEF Land
<1>5. row = NoRow <=> p.current = NoRow
  BY <1>3 DEF Untouched
<1>6. row # NoRow => p.current.version = row.version
  BY <1>3 DEF Untouched
<1>7. row' = [version |-> IF row = NoRow THEN 1 ELSE row.version + 1, by |-> c,
              change |-> p.change, life |-> IF row = NoRow THEN lives + 1 ELSE row.life]
  BY <1>3, <1>5, <1>6 DEF Written
<1>8. row = NoRow => p.base.version = 0
  BY <1>1, <1>3, <1>5 DEF SaveStands
<1> HIDE DEF p
<1>9. row'.by = c /\ row'.change = p.change
      /\ row'.version = (IF row = NoRow THEN 1 ELSE row.version + 1)
      /\ row'.life = (IF row = NoRow THEN lives + 1 ELSE row.life)
  BY <1>7
<1> QED BY <1>2, <1>4, <1>5, <1>6, <1>8, <1>9 DEF p

LEMMA SaveInvLand ==
  ASSUME TypeOK, SaveInv, NEW c \in Clients, NEW s \in Slots, Land(c, s)
  PROVE  SaveInv'
<1>1. save \in [Clients -> [Slots -> Save]] /\ row \in Row \cup {NoRow} /\ lives \in Nat
  BY BoundsAssumption DEF TypeOK, Lives
<1>2. row'.life = lives' /\ row' # NoRow
  BY LandFacts, NoRowAssumption DEF SaveInv
<1>3. save'[c][s].step = "answer" /\ save'[c][s].reply = "ok"
      /\ \A d \in Clients, t \in Slots : (d # c \/ t # s) => save'[d][t] = save[d][t]
  BY <1>1 DEF Land, Save
<1>4. ASSUME NEW d \in Clients, NEW t \in Slots PROVE SaveStands(save[d][t])'
  <2>1. CASE d = c /\ t = s
    BY <1>3, <2>1 DEF SaveStands
  <2>2. CASE d # c \/ t # s
    <3> DEFINE q == save[d][t]
    <3>1. q' = q /\ SaveStands(q) /\ q \in Save
      BY <1>1, <1>3, <2>2 DEF SaveInv
    <3>2. ASSUME q.step = "write", q.current # NoRow
          PROVE  /\ q.current.life <= lives'
                 /\ row'.life = q.current.life => q.current.version < row'.version
      <4>1. q.current \in Row /\ q.current.life <= lives
        BY <3>1, <3>2 DEF Save, SaveStands
      <4>2. q.current.version \in Nat /\ q.current.life \in Nat
        BY <4>1, BoundsAssumption DEF Row, Versions, Lives
      <4>3. CASE row = NoRow
        BY <1>1, <4>1, <4>2, <4>3, LandFacts
      <4>4. CASE row # NoRow
        <5>1. row.version \in Nat /\ row'.version = row.version + 1
              /\ row'.life = row.life /\ lives' = lives
          BY <1>1, <4>4, LandFacts DEF Row, Versions
        <5>2. row.life = q.current.life => q.current.version <= row.version
          BY <3>1, <3>2, <4>4 DEF SaveStands
        <5> QED BY <4>1, <4>2, <5>1, <5>2
      <4> QED BY <4>3, <4>4
    <3>3. ASSUME q.step = "write", q.current # NoRow, row'.life = q.current.life
          PROVE  q.current.version <= row'.version /\ q.current.version # row'.version
      <4>1. q.current.version \in Nat /\ row'.version \in Nat
        BY <3>1, <3>3, LandFacts DEF Save, Row, Versions
      <4> QED BY <3>2, <3>3, <4>1
    <3> QED BY <3>1, <3>2, <3>3 DEF SaveStands
  <2> QED BY <2>1, <2>2
<1> QED BY <1>2, <1>4 DEF SaveInv

-----------------------------------------------------------------------------
\* What is on the screen: ScreenInv, and what follows from it of one client.

SavedAt(c) ==
  (/\ form[c].status = "saved" /\ form[c].dirty /\ form[c].timer = 0
   /\ Running(c) = {} /\ c \notin overlapped
   /\ row # NoRow /\ row.by = c)
  => row.change = form[c].change

Screen(c) == ScreenStands(c) /\ SavedAt(c)

\* What other clients do leaves a client's screen as it is: of the row, they may
\* take it away or make it theirs.
LEMMA ScreenOfOthers ==
  ASSUME NEW d \in Clients, Screen(d), form'[d] = form[d], save'[d] = save[d],
         d \in overlapped' <=> d \in overlapped,
         row' = row \/ row' = NoRow \/ row'.by # d
  PROVE  Screen(d)'
<1>1. Running(d)' = Running(d)
  BY DEF Running
<1>2. ASSUME NEW q, CarriesScreen(d, q) PROVE CarriesScreen(d, q)'
  BY <1>2 DEF CarriesScreen
<1>3. ScreenStands(d)'
  <2>1. ASSUME d \notin overlapped', NEW s \in Running(d) PROVE CarriesScreen(d, save[d][s])'
    <3>1. CarriesScreen(d, save[d][s])
      BY <2>1 DEF Screen, ScreenStands
    <3> QED BY <3>1 DEF CarriesScreen
  <2> QED BY <1>1, <2>1 DEF Screen, ScreenStands
<1>4. SavedAt(d)'
  BY <1>1 DEF Screen, SavedAt
<1> QED BY <1>3, <1>4 DEF Screen

\* A step of the page that keeps its saves, the row and what a save of it carries.
LEMMA ScreenOfForm ==
  ASSUME TypeOK, NEW c \in Clients, Screen(c), save' = save, row' = row,
         overlapped' = overlapped,
         form'[c].timer \in {0, form'[c].change},
         form'[c].phase # "away",
         form'[c].status \in {form[c].status, "idle", "device"},
         form'[c].status # form[c].status =>
           (\A s \in Slots : ~save[c][s].mine) \/ form[c].status = "gone",
         form'[c].dirty /\ form'[c].timer = 0 =>
           \/ form[c].dirty /\ form[c].timer = 0 /\ form'[c].change = form[c].change
           \/ form[c].status = "gone"
           \/ form'[c].status # "saved" /\ \A s \in Slots : ~save[c][s].mine
  PROVE  Screen(c)'
<1>1. Running(c)' = Running(c)
  BY DEF Running
<1>2. ASSUME c \notin overlapped, NEW s \in Running(c) PROVE CarriesScreen(c, save[c][s])'
  <2>1. CarriesScreen(c, save[c][s]) /\ s \in Slots
    BY <1>2 DEF Screen, ScreenStands, Running
  <2> QED BY <2>1 DEF CarriesScreen
<1>3. ScreenStands(c)'
  BY <1>1, <1>2 DEF Screen, ScreenStands
<1>4. SavedAt(c)'
  BY <1>1 DEF Screen, SavedAt
<1> QED BY <1>3, <1>4 DEF Screen

LEMMA ScreenForms ==
  ASSUME TypeOK, NEW c \in Clients, Screen(c),
         \/ Open(c) \/ Type(c) \/ Revert(c) \/ Resume(c) \/ Discard(c) \/ StartNew(c)
         \/ Submit(c) \/ LosePost(c)
  PROVE  Screen(c)'
<1>1. form[c] \in Form /\ form \in [Clients -> Form] /\ changes \in Nat
  BY BoundsAssumption DEF TypeOK, Changes
<1>2. save' = save /\ row' = row /\ overlapped' = overlapped
  BY DEF Open, Type, Revert, Resume, Discard, StartNew, Submit, LosePost, Change, ghosts
<1>3. form[c].timer \in {0, form[c].change}
      /\ (form[c].phase = "away" => \A s \in Slots : ~save[c][s].mine)
  BY DEF Screen, ScreenStands
<1>4. CASE Open(c)
  <2>1. /\ form'[c].timer = 0 /\ form'[c].dirty = FALSE /\ form'[c].phase # "away"
        /\ form'[c].status \in {"idle", "device"}
    <3>1. PICK reached \in BOOLEAN :
            form' = [form EXCEPT ![c] =
              [[Away EXCEPT !.shown = IF reached THEN BaseOf(row) ELSE Blank,
                            !.status = IF reached THEN "idle" ELSE "device"]
                 EXCEPT !.phase = IF (IF reached THEN BaseOf(row) ELSE Blank) = Blank
                                       /\ ~copy[c]
                                  THEN "editing" ELSE "offered"]]
      BY <1>4, Zenon DEF Open
    <3> DEFINE shown == IF reached THEN BaseOf(row) ELSE Blank
               phase == IF shown = Blank /\ ~copy[c] THEN "editing" ELSE "offered"
               status == IF reached THEN "idle" ELSE "device"
               start == [Away EXCEPT !.shown = shown, !.status = status]
    <3>2. form'[c] = [start EXCEPT !.phase = phase]
      BY <1>1, <3>1, Zenon
    <3>3. phase \in {"editing", "offered"} /\ status \in {"idle", "device"}
      BY Zenon
    <3> HIDE DEF shown, phase, status
    <3>4. Away \in Form /\ Away.timer = 0 /\ Away.dirty = FALSE
      BY Constants DEF Away
    <3>5. /\ form'[c].timer = 0 /\ form'[c].dirty = FALSE /\ form'[c].phase = phase
          /\ form'[c].status = status
      BY <3>2, <3>4 DEF Form
    <3> QED BY <3>3, <3>5
  <2>2. form[c].phase = "away"
    BY <1>4 DEF Open
  <2> QED BY <1>2, <1>3, <2>1, <2>2, ScreenOfForm
<1>5. CASE Type(c) \/ Resume(c)
  <2>1. changes' = changes + 1
    BY <1>5 DEF Type, Resume, Change
  <2>2. /\ form'[c].phase = "editing" /\ form'[c].status = form[c].status
        /\ form'[c].change = changes'
        /\ form'[c].timer = IF form[c].status = "gone" THEN 0 ELSE changes'
    <3>1. ASSUME NEW f \in Form, form'[c] = Edited(f, changes'), f.status = form[c].status
          PROVE  /\ form'[c].phase = "editing" /\ form'[c].status = form[c].status
                 /\ form'[c].change = changes'
                 /\ form'[c].timer = IF form[c].status = "gone" THEN 0 ELSE changes'
      BY <3>1 DEF Edited, Form
    <3>2. CASE Type(c)
      <4>1. form'[c] = Edited(form[c], changes')
        BY <1>1, <3>2 DEF Type
      <4> QED BY <1>1, <3>1, <4>1
    <3>3. CASE Resume(c)
      <4> DEFINE f == [form[c] EXCEPT !.base = form[c].shown,
                                      !.lineage = form[c].shown.life, !.shown = Blank]
      <4>1. form'[c] = Edited(f, changes')
        BY <1>1, <3>3 DEF Resume
      <4>2. f \in Form /\ f.status = form[c].status
        BY <1>1, Constants DEF Form, Base
      <4> HIDE DEF f
      <4> QED BY <3>1, <4>1, <4>2
    <3> QED BY <1>5, <3>2, <3>3
  <2> QED BY <1>1, <1>2, <1>3, <2>1, <2>2, ScreenOfForm
<1>6. CASE Revert(c)
  <2>1. form'[c] = [form[c] EXCEPT !.dirty = FALSE, !.timer = 0]
    BY <1>1, <1>6 DEF Revert
  <2>2. form[c].phase # "away"
    BY <1>6 DEF Revert
  <2>3. form'[c].dirty = FALSE /\ form'[c].timer = 0 /\ form'[c].phase = form[c].phase
        /\ form'[c].status = form[c].status
    BY <1>1, <2>1 DEF Form
  <2> QED BY <1>2, <2>2, <2>3, ScreenOfForm
<1>7. CASE Discard(c) \/ Submit(c) \/ LosePost(c)
  <2>1. /\ form'[c].dirty = form[c].dirty /\ form'[c].timer = form[c].timer
        /\ form'[c].change = form[c].change /\ form'[c].status = form[c].status
        /\ form'[c].phase # "away"
    <3>1. CASE Discard(c)
      BY <1>1, <3>1 DEF Discard, Form
    <3>2. CASE Submit(c)
      BY <1>1, <3>2 DEF Submit, Form
    <3>3. CASE LosePost(c)
      BY <1>1, <3>3 DEF LosePost, Form
    <3> QED BY <1>7, <3>1, <3>2, <3>3
  <2> QED BY <1>2, <1>3, <2>1, ScreenOfForm
<1>8. CASE StartNew(c)
  <2>1. /\ form[c].status = "gone" /\ form'[c].status = "idle"
        /\ form'[c].timer \in {0, form[c].change} /\ form'[c].change = form[c].change
        /\ form'[c].phase # "away"
    BY <1>1, <1>8 DEF StartNew, Form
  <2> QED BY <1>2, <2>1, ScreenOfForm
<1> QED BY <1>4, <1>5, <1>6, <1>7, <1>8

\* The page is left: its saves are nobody's.
LEMMA ScreenLeft ==
  ASSUME TypeOK, NEW c \in Clients, Screen(c), form'[c] = Away,
         save'[c] = Orphaned(save[c]), row' = row, overlapped' = overlapped
  PROVE  Screen(c)'
<1>1. /\ save[c] \in [Slots -> Save]
      /\ form'[c].timer = 0 /\ form'[c].change = 0 /\ form'[c].status = "idle"
  BY DEF TypeOK, Away
<1>2. \A s \in Slots : /\ save'[c][s].mine = FALSE /\ save'[c][s].step = save[c][s].step
                       /\ save'[c][s].reply = save[c][s].reply
                       /\ save'[c][s].change = save[c][s].change
  BY <1>1 DEF Orphaned, Save
<1>3. Running(c)' = Running(c)
  BY <1>2 DEF Running
<1>4. ASSUME c \notin overlapped, NEW s \in Running(c) PROVE CarriesScreen(c, save[c][s])'
  <2>1. CarriesScreen(c, save[c][s]) /\ s \in Slots
    BY <1>4 DEF Screen, ScreenStands, Running
  <2> QED BY <1>2, <2>1 DEF CarriesScreen
<1>5. ScreenStands(c)'
  BY <1>1, <1>2, <1>3, <1>4 DEF Screen, ScreenStands
<1>6. SavedAt(c)'
  BY <1>1 DEF SavedAt
<1> QED BY <1>5, <1>6 DEF Screen

LEMMA ScreenLeaves ==
  ASSUME TypeOK, NEW c \in Clients, Screen(c), Close(c) \/ HearPost(c)
  PROVE  Screen(c)'
<1>1. form[c] \in Form /\ form \in [Clients -> Form] /\ save \in [Clients -> [Slots -> Save]]
  BY DEF TypeOK
<1>2. row' = row /\ overlapped' = overlapped
  BY DEF Close, HearPost, ghosts
<1>3. \/ form'[c] = Away /\ save'[c] = Orphaned(save[c])
      \/ form'[c] = [form[c] EXCEPT !.phase = "editing"] /\ save' = save
  <2>1. CASE Close(c)
    BY <1>1, <2>1 DEF Close
  <2>2. CASE HearPost(c)
    <3>1. \/ form' = [form EXCEPT ![c] = Away] /\ save' = [save EXCEPT ![c] = Orphaned(@)]
          \/ form' = [form EXCEPT ![c].phase = "editing"] /\ save' = save
      BY <2>2, Zenon DEF HearPost
    <3> QED BY <1>1, <3>1
  <2> QED BY <2>1, <2>2
<1>4. CASE form'[c] = [form[c] EXCEPT !.phase = "editing"] /\ save' = save
  <2>1. /\ form'[c].dirty = form[c].dirty /\ form'[c].timer = form[c].timer
        /\ form'[c].change = form[c].change /\ form'[c].status = form[c].status
        /\ form'[c].phase # "away"
    BY <1>1, <1>4 DEF Form
  <2>2. form[c].timer \in {0, form[c].change}
    BY DEF Screen, ScreenStands
  <2> QED BY <1>2, <1>4, <2>1, <2>2, ScreenOfForm
<1> QED BY <1>2, <1>3, <1>4, ScreenLeft

LEMMA ScreenSend ==
  ASSUME TypeOK, NEW c \in Clients, NEW s \in Slots, Screen(c), SendSave(c, s)
  PROVE  Screen(c)'
<1>1. form[c] \in Form /\ form \in [Clients -> Form] /\ save \in [Clients -> [Slots -> Save]]
  BY DEF TypeOK
<1>2. /\ form'[c].timer = 0 /\ form'[c].status = "saving" /\ form'[c].phase = form[c].phase
      /\ form'[c].change = form[c].change
  <2>1. form'[c] = [form[c] EXCEPT !.timer = 0, !.status = "saving"]
    BY <1>1 DEF SendSave
  <2> QED BY <1>1, <2>1 DEF Form
<1>3. form[c].timer = form[c].change /\ form[c].phase # "away"
  BY DEF SendSave, Screen, ScreenStands
<1>4. /\ save'[c][s].step = "read" /\ save'[c][s].change = form[c].timer
  BY <1>1 DEF SendSave, Free
<1>5. ASSUME c \notin overlapped'
      PROVE  \A t \in Running(c)' : t = s
  <2>1. Running(c) = {}
    BY <1>5 DEF SendSave
  <2>2. \A t \in Slots : t # s => save'[c][t] = save[c][t]
    BY <1>1 DEF SendSave
  <2> QED BY <2>1, <2>2 DEF Running
<1>6. CarriesScreen(c, save[c][s])'
  BY <1>2, <1>3, <1>4 DEF CarriesScreen
<1>7. ScreenStands(c)'
  BY <1>2, <1>3, <1>5, <1>6 DEF ScreenStands
<1>8. SavedAt(c)'
  BY <1>2 DEF SavedAt
<1> QED BY <1>7, <1>8 DEF Screen

LEMMA ScreenHear ==
  ASSUME TypeOK, SaveInv, NEW c \in Clients, NEW s \in Slots, Screen(c), HearSave(c, s)
  PROVE  Screen(c)'
<1> DEFINE p == save[c][s]
<1>1. /\ form[c] \in Form /\ form \in [Clients -> Form]
      /\ save \in [Clients -> [Slots -> Save]] /\ p \in Save
  BY DEF TypeOK
<1>2. p.step = "answer" /\ p.reply \in {"gone", "failed", "ok"} /\ s \in Running(c)
  BY <1>1 DEF HearSave, SaveInv, SaveStands, Save, Running
<1>3. row' = row /\ overlapped' = overlapped
  BY DEF HearSave, ghosts
<1>4. /\ form'[c].timer = form[c].timer /\ form'[c].change = form[c].change
      /\ form'[c].phase = form[c].phase /\ form'[c].dirty = form[c].dirty
      /\ ~p.mine => form'[c].status = form[c].status
      /\ p.mine /\ form'[c].status = "saved" => p.reply = "ok"
  <2>1. form'[c] = IF p.mine THEN Heard(form[c], p.reply, p.made) ELSE form[c]
    BY <1>1 DEF HearSave
  <2> HIDE DEF p
  <2> QED BY <1>1, <1>2, <2>1 DEF Heard, Form
<1>5. /\ save'[c][s].step = "none" /\ save'[c][s].mine = FALSE
      /\ \A t \in Slots : t # s => save'[c][t] = save[c][t]
  BY <1>1 DEF HearSave, Free
<1>6. c \notin overlapped => Running(c)' = {}
  <2>1. c \notin overlapped => \A t \in Running(c) : t = s
    BY <1>2 DEF Screen, ScreenStands
  <2> QED BY <1>5, <2>1 DEF Running
<1>7. ScreenStands(c)'
  BY <1>3, <1>4, <1>5, <1>6 DEF Screen, ScreenStands
<1>8. SavedAt(c)'
  <2>1. c \notin overlapped => CarriesScreen(c, p)
    BY <1>2 DEF Screen, ScreenStands
  <2>2. c \notin overlapped => form[c].status # "saved"
    BY <1>2 DEF Screen, ScreenStands
  <2> QED BY <1>2, <1>3, <1>4, <2>1, <2>2 DEF SavedAt, CarriesScreen
<1> QED BY <1>7, <1>8 DEF Screen

LEMMA ScreenLose ==
  ASSUME TypeOK, NEW c \in Clients, NEW s \in Slots, Screen(c), LoseSave(c, s)
  PROVE  Screen(c)'
<1> DEFINE p == save[c][s]
<1>1. /\ form[c] \in Form /\ form \in [Clients -> Form]
      /\ save \in [Clients -> [Slots -> Save]] /\ p \in Save
  BY DEF TypeOK
<1>2. p.step # "none" /\ s \in Running(c) /\ p.mine /\ row' = row /\ overlapped' = overlapped
  BY DEF LoseSave, Running, ghosts
<1>3. /\ form'[c].timer = form[c].timer /\ form'[c].change = form[c].change
      /\ form'[c].phase = form[c].phase /\ form'[c].status = "device"
  <2>1. form'[c] = [form[c] EXCEPT !.status = "device"]
    BY <1>1 DEF LoseSave, Heard
  <2> QED BY <1>1, <2>1 DEF Form
<1>4. /\ save'[c][s].mine = FALSE
      /\ save'[c][s].step # "none" =>
           save'[c][s].reply = p.reply /\ save'[c][s].change = p.change
           /\ save'[c][s].step = p.step
      /\ \A t \in Slots : t # s => save'[c][t] = save[c][t]
  <2>1. save'[c][s] = IF p.step = "answer" THEN Free ELSE [p EXCEPT !.mine = FALSE]
    BY <1>1 DEF LoseSave
  <2>2. \A t \in Slots : t # s => save'[c][t] = save[c][t]
    BY <1>1 DEF LoseSave
  <2> HIDE DEF p
  <2> QED BY <1>1, <2>1, <2>2 DEF Save, Free
<1>5. ASSUME c \notin overlapped PROVE \A t \in Running(c)' : t = s
  <2>1. \A t \in Running(c) : t = s
    BY <1>2, <1>5 DEF Screen, ScreenStands
  <2> QED BY <1>4, <2>1 DEF Running
<1>6. c \notin overlapped /\ s \in Running(c)' => CarriesScreen(c, save[c][s])'
  <2>1. c \notin overlapped => CarriesScreen(c, p)
    BY <1>2 DEF Screen, ScreenStands
  <2> QED BY <1>2, <1>4, <2>1 DEF CarriesScreen, Running
<1>7. form[c].phase # "away"
  BY <1>2 DEF Screen, ScreenStands
<1>8. ScreenStands(c)'
  BY <1>2, <1>3, <1>5, <1>6, <1>7 DEF Screen, ScreenStands
<1>9. SavedAt(c)'
  BY <1>3 DEF SavedAt
<1> QED BY <1>8, <1>9 DEF Screen

\* A step of the worker that leaves the row alone.
LEMMA ScreenWorker ==
  ASSUME TypeOK, NEW c \in Clients, NEW s \in Slots, Screen(c),
         ReadDraft(c, s) \/ Collide(c, s) \/ FailSave(c, s)
  PROVE  Screen(c)'
<1> DEFINE p == save[c][s]
<1>1. save \in [Clients -> [Slots -> Save]] /\ p \in Save
  BY DEF TypeOK
<1>2. row' = row /\ overlapped' = overlapped /\ form' = form
  BY DEF ReadDraft, Collide, FailSave, ghosts
<1>3. p.step # "none"
  BY DEF ReadDraft, Collide, FailSave
<1>4. /\ save'[c][s].mine = p.mine /\ save'[c][s].change = p.change
      /\ save'[c][s].step # "none"
      /\ ~(save'[c][s].step = "answer" /\ save'[c][s].reply = "ok")
  <2>1. \/ save'[c][s] = [p EXCEPT !.step = "answer", !.reply = "gone"]
        \/ save'[c][s] = [p EXCEPT !.step = "write", !.current = row]
        \/ save'[c][s] = [p EXCEPT !.step = "answer", !.reply = "failed", !.current = NoRow]
        \/ save'[c][s] = [p EXCEPT !.step = "read", !.tries = p.tries + 1, !.current = NoRow]
    BY <1>1 DEF ReadDraft, Collide, FailSave
  <2> HIDE DEF p
  <2> QED BY <1>1, <2>1 DEF Save
<1>5. \A t \in Slots : t # s => save'[c][t] = save[c][t]
  BY <1>1 DEF ReadDraft, Collide, FailSave
<1>6. Running(c)' = Running(c)
  BY <1>3, <1>4, <1>5 DEF Running
<1>7. ASSUME c \notin overlapped, NEW t \in Running(c) PROVE CarriesScreen(c, save[c][t])'
  <2>1. CarriesScreen(c, save[c][t]) /\ t \in Slots
    BY <1>7 DEF Screen, ScreenStands, Running
  <2> QED BY <1>2, <1>4, <1>5, <2>1 DEF CarriesScreen
<1>8. ScreenStands(c)'
  BY <1>2, <1>4, <1>5, <1>6, <1>7 DEF Screen, ScreenStands
<1>9. SavedAt(c)'
  BY <1>2, <1>6 DEF Screen, SavedAt
<1> QED BY <1>8, <1>9 DEF Screen

LEMMA ScreenLand ==
  ASSUME TypeOK, SaveInv, NEW c \in Clients, NEW s \in Slots, Screen(c), Land(c, s)
  PROVE  Screen(c)'
<1> DEFINE p == save[c][s]
<1>1. /\ form[c] \in Form /\ form \in [Clients -> Form]
      /\ save \in [Clients -> [Slots -> Save]] /\ p \in Save
  BY DEF TypeOK
<1>2. p.step = "write" /\ s \in Running(c) /\ overlapped' = overlapped
  BY DEF Land, Running
<1>3. row'.change = p.change
  BY LandFacts
<1>4. /\ save'[c][s].step = "answer" /\ save'[c][s].mine = p.mine
      /\ save'[c][s].change = p.change
      /\ \A t \in Slots : t # s => save'[c][t] = save[c][t]
  BY <1>1 DEF Land, Save
<1>5. /\ form'[c].timer = form[c].timer /\ form'[c].change = form[c].change
      /\ form'[c].phase = form[c].phase /\ form'[c].status = form[c].status
      /\ form'[c].dirty = form[c].dirty
  <2>1. form'[c] = form[c] \/ form'[c] = [form[c] EXCEPT !.lineage = row'.life]
    BY <1>1 DEF Land
  <2> QED BY <1>1, <2>1 DEF Form
<1>6. Running(c)' = Running(c)
  BY <1>2, <1>4 DEF Running
<1>7. ASSUME c \notin overlapped
      PROVE  /\ \A t \in Running(c) : t = s
             /\ CarriesScreen(c, save[c][s])'
  <2>1. CarriesScreen(c, p) /\ \A t \in Running(c) : t = s
    BY <1>2, <1>7 DEF Screen, ScreenStands
  <2> QED BY <1>3, <1>4, <1>5, <2>1 DEF CarriesScreen
<1>8. ScreenStands(c)'
  BY <1>2, <1>4, <1>5, <1>6, <1>7 DEF Screen, ScreenStands
<1>9. SavedAt(c)'
  BY <1>2, <1>6 DEF SavedAt
<1> QED BY <1>8, <1>9 DEF Screen

LEMMA ScreenRow ==
  ASSUME TypeOK, NEW c \in Clients, Screen(c), DeleteDraft(c) \/ ClearDraftAfterSubmit(c)
  PROVE  Screen(c)'
<1>1. row' \in {row, NoRow} /\ overlapped' = overlapped /\ save' = save /\ form' = form
  BY DEF DeleteDraft, ClearDraftAfterSubmit, ghosts
<1>2. Running(c)' = Running(c)
  BY <1>1 DEF Running
<1>3. ASSUME c \notin overlapped, NEW t \in Running(c) PROVE CarriesScreen(c, save[c][t])'
  <2>1. CarriesScreen(c, save[c][t])
    BY <1>3 DEF Screen, ScreenStands
  <2> QED BY <1>1, <2>1 DEF CarriesScreen
<1>4. ScreenStands(c)'
  BY <1>1, <1>2, <1>3 DEF Screen, ScreenStands
<1>5. SavedAt(c)'
  BY <1>1, <1>2 DEF Screen, SavedAt
<1> QED BY <1>4, <1>5 DEF Screen

-----------------------------------------------------------------------------
\* The inductive invariant.

IInv == TypeOK /\ SaveInv /\ ScreenInv /\ SavedIsShared

LEMMA IInvByClient == IInv <=> TypeOK /\ SaveInv /\ \A c \in Clients : Screen(c)
BY DEF IInv, ScreenInv, SavedIsShared, Screen, SavedAt

LEMMA IInvByClientNext ==
  IInv' <=> TypeOK' /\ SaveInv' /\ \A c \in Clients : Screen(c)'
BY DEF IInv, ScreenInv, SavedIsShared, Screen, SavedAt

LEMMA InitIInv == Init => IInv
<1> SUFFICES ASSUME Init PROVE SaveInv /\ \A c \in Clients : Screen(c)
  BY TypeInit, IInvByClient
<1>1. SaveInv
  BY DEF Init, SaveInv, SaveStands, Free
<1>2. ASSUME NEW c \in Clients PROVE Screen(c)
  <2>1. Running(c) = {}
    BY DEF Init, Running, Free
  <2>2. form[c] = Away /\ \A s \in Slots : save[c][s] = Free
    BY DEF Init
  <2> QED BY <2>1, <2>2 DEF Screen, ScreenStands, SavedAt, Away, Free
<1> QED BY <1>1, <1>2

\* What a step of one client does to the others' pages and saves.
LEMMA OthersKept ==
  ASSUME TypeOK, NEW c \in Clients, NEW d \in Clients \ {c},
         \/ Open(c) \/ Type(c) \/ Revert(c) \/ Resume(c) \/ Discard(c) \/ StartNew(c)
         \/ Close(c) \/ DeleteDraft(c)
         \/ Submit(c) \/ ClearDraftAfterSubmit(c) \/ HearPost(c) \/ LosePost(c)
         \/ \E s \in Slots :
              \/ SendSave(c, s) \/ HearSave(c, s) \/ LoseSave(c, s)
              \/ ReadDraft(c, s) \/ Land(c, s) \/ Collide(c, s) \/ FailSave(c, s)
  PROVE  /\ form'[d] = form[d] /\ save'[d] = save[d]
         /\ d \in overlapped' <=> d \in overlapped
         /\ row' = row \/ row' = NoRow \/ row'.by # d
<1>0. form \in [Clients -> Form] /\ save \in [Clients -> [Slots -> Save]]
  BY DEF TypeOK
<1>1. CASE \/ Open(c) \/ Type(c) \/ Revert(c) \/ Resume(c) \/ Discard(c) \/ StartNew(c)
           \/ Close(c) \/ Submit(c) \/ LosePost(c)
  <2>1. form'[d] = form[d] /\ save'[d] = save[d]
    BY <1>0, <1>1 DEF Open, Type, Revert, Resume, Discard, StartNew, Close, Submit, LosePost
  <2>2. overlapped' = overlapped /\ row' = row
    BY <1>1 DEF Open, Type, Revert, Resume, Discard, StartNew, Close, Submit, LosePost,
                Change, ghosts
  <2> QED BY <2>1, <2>2
<1>2. CASE DeleteDraft(c) \/ ClearDraftAfterSubmit(c)
  BY <1>2 DEF DeleteDraft, ClearDraftAfterSubmit, ghosts
<1>3. CASE HearPost(c)
  <2>1. \/ form' = [form EXCEPT ![c] = Away] /\ save' = [save EXCEPT ![c] = Orphaned(@)]
        \/ form' = [form EXCEPT ![c].phase = "editing"] /\ save' = save
    BY <1>3, Zenon DEF HearPost
  <2>2. form'[d] = form[d] /\ save'[d] = save[d]
    BY <1>0, <2>1
  <2>3. overlapped' = overlapped /\ row' = row
    BY <1>3 DEF HearPost, ghosts
  <2> QED BY <2>2, <2>3
<1>4. ASSUME NEW s \in Slots,
             \/ HearSave(c, s) \/ LoseSave(c, s) \/ ReadDraft(c, s)
             \/ Collide(c, s) \/ FailSave(c, s) \/ SendSave(c, s)
      PROVE  /\ form'[d] = form[d] /\ save'[d] = save[d] /\ row' = row
             /\ d \in overlapped' <=> d \in overlapped
  <2>1. form'[d] = form[d] /\ save'[d] = save[d]
    BY <1>0, <1>4 DEF HearSave, LoseSave, ReadDraft, Collide, FailSave, SendSave
  <2>2. row' = row /\ overlapped' \in {overlapped, overlapped \ {c}, overlapped \cup {c}}
    BY <1>4 DEF HearSave, LoseSave, ReadDraft, Collide, FailSave, SendSave, ghosts
  <2> QED BY <2>1, <2>2
<1>5. ASSUME NEW s \in Slots, Land(c, s)
      PROVE  /\ form'[d] = form[d] /\ save'[d] = save[d]
             /\ overlapped' = overlapped /\ row'.by = c
  <2>1. form'[d] = form[d] /\ save'[d] = save[d] /\ overlapped' = overlapped
    BY <1>0, <1>5 DEF Land
  <2>2. row'.by = c
    BY <1>5 DEF Land, Written
  <2> QED BY <2>1, <2>2
<1> QED BY <1>1, <1>2, <1>3, <1>4, <1>5

LEMMA StepIInv == IInv /\ [Next]_vars => IInv'
<1> SUFFICES ASSUME TypeOK, SaveInv, \A c \in Clients : Screen(c), [Next]_vars
             PROVE  TypeOK' /\ SaveInv' /\ \A c \in Clients : Screen(c)'
  <2>1. IInv' <=> TypeOK' /\ SaveInv' /\ \A c \in Clients : Screen(c)'
    BY IInvByClientNext
  <2> QED BY <2>1, IInvByClient
<1>1. ASSUME NEW c \in Clients,
             \/ Open(c) \/ Type(c) \/ Revert(c) \/ Resume(c) \/ Discard(c) \/ StartNew(c)
             \/ Close(c) \/ Submit(c) \/ HearPost(c) \/ LosePost(c)
      PROVE  TypeOK' /\ SaveInv' /\ Screen(c)'
  BY <1>1, FormSteps, SaveInvForms, ScreenForms, ScreenLeaves
<1>2. ASSUME NEW c \in Clients, DeleteDraft(c) \/ ClearDraftAfterSubmit(c)
      PROVE  TypeOK' /\ SaveInv' /\ Screen(c)'
  BY <1>2, RowSteps, SaveInvRow, ScreenRow
<1>3. ASSUME NEW c \in Clients, NEW s \in Slots,
             \/ SendSave(c, s) \/ HearSave(c, s) \/ LoseSave(c, s)
             \/ ReadDraft(c, s) \/ Collide(c, s) \/ FailSave(c, s)
      PROVE  TypeOK' /\ SaveInv' /\ Screen(c)'
  BY <1>3, SaveSteps, SaveInvSaves, ScreenSend, ScreenHear, ScreenLose, ScreenWorker
<1>4. ASSUME NEW c \in Clients, NEW s \in Slots, Land(c, s)
      PROVE  TypeOK' /\ SaveInv' /\ Screen(c)'
  BY <1>4, RowSteps, SaveInvLand, ScreenLand
<1>5. CASE Next
  <2>1. PICK c \in Clients :
          \/ Open(c) \/ Type(c) \/ Revert(c) \/ Resume(c) \/ Discard(c) \/ StartNew(c)
          \/ Close(c) \/ DeleteDraft(c)
          \/ Submit(c) \/ ClearDraftAfterSubmit(c) \/ HearPost(c) \/ LosePost(c)
          \/ \E s \in Slots :
               \/ SendSave(c, s) \/ HearSave(c, s) \/ LoseSave(c, s)
               \/ ReadDraft(c, s) \/ Land(c, s) \/ Collide(c, s) \/ FailSave(c, s)
    BY <1>5, Zenon DEF Next
  <2>2. TypeOK' /\ SaveInv' /\ Screen(c)'
    BY <1>1, <1>2, <1>3, <1>4, <2>1
  <2>3. ASSUME NEW d \in Clients \ {c} PROVE Screen(d)'
    BY <2>1, OthersKept, ScreenOfOthers
  <2> QED BY <2>2, <2>3
<1>6. CASE UNCHANGED vars
  <2>1. TypeOK'
    BY <1>6 DEF vars, ghosts, TypeOK
  <2>2. \A c \in Clients, s \in Slots : save'[c][s] = save[c][s]
    BY <1>6 DEF vars
  <2>3. SaveInv'
    BY <1>6, <2>2, SaveKept DEF vars, ghosts
  <2>4. ASSUME NEW d \in Clients PROVE Screen(d)'
    BY <1>6, ScreenOfOthers DEF vars, ghosts
  <2> QED BY <2>1, <2>3, <2>4
<1> QED BY <1>5, <1>6

LEMMA Inductive == Spec => []IInv
BY InitIInv, StepIInv, PTL DEF Spec

-----------------------------------------------------------------------------
\* The theorems.

\* Every reachable state is of its type: versions count from 1, a save is at most in
\* its last round, every draft belongs to a life begun.
THEOREM TypeCorrect == Spec => []TypeOK
BY Inductive, PTL DEF IInv

\* What a save that lands adds to the histories.
LEMMA Added ==
  ASSUME TypeOK, [Next]_vars
  PROVE  \/ unreported' = unreported /\ revived' = revived
         \/ \E d \in Clients, s \in Slots :
              /\ Land(d, s)
              /\ unreported' = unreported \cup Replacing(d, save[d][s])
              /\ revived' = revived \cup Reviving(save[d][s])
<1>1. CASE UNCHANGED vars
  BY <1>1 DEF vars, ghosts
<1>2. ASSUME NEW d \in Clients, NEW s \in Slots, Land(d, s)
      PROVE  /\ unreported' = unreported \cup Replacing(d, save[d][s])
             /\ revived' = revived \cup Reviving(save[d][s])
  BY <1>2, Zenon DEF Land
<1>3. ASSUME NEW d \in Clients,
             \/ Open(d) \/ Type(d) \/ Revert(d) \/ Resume(d) \/ Discard(d) \/ StartNew(d)
             \/ Close(d) \/ DeleteDraft(d)
             \/ Submit(d) \/ ClearDraftAfterSubmit(d) \/ HearPost(d) \/ LosePost(d)
      PROVE  unreported' = unreported /\ revived' = revived
  BY <1>3 DEF Open, Type, Revert, Resume, Discard, StartNew, Close, DeleteDraft, Submit,
              ClearDraftAfterSubmit, HearPost, LosePost, Change, ghosts
<1>4. ASSUME NEW d \in Clients, NEW s \in Slots,
             \/ SendSave(d, s) \/ HearSave(d, s) \/ LoseSave(d, s)
             \/ ReadDraft(d, s) \/ Collide(d, s) \/ FailSave(d, s)
      PROVE  unreported' = unreported /\ revived' = revived
  BY <1>4 DEF SendSave, HearSave, LoseSave, ReadDraft, Collide, FailSave, ghosts
<1> QED BY <1>1, <1>2, <1>3, <1>4, Zenon DEF Next

\* No save makes a new draft of one that has ended, filed or discarded, unless its
\* form had not been told that its first save had made that draft.
THEOREM FiledStays == Spec => []FiledStaysFiled
<1>1. Init => FiledStaysFiled
  BY DEF Init, FiledStaysFiled
<1>2. ASSUME IInv, FiledStaysFiled, [Next]_vars PROVE FiledStaysFiled'
  <2>1. ASSUME NEW c \in Clients, NEW s \in Slots, Land(c, s),
               NEW r \in Reviving(save[c][s]), r.onto = "nothing"
        PROVE  r.unlearned
    <3>1. r = [unlearned |-> save[c][s].base.version = 0,
               onto |-> IF row = NoRow THEN "nothing" ELSE "successor"]
      BY <2>1 DEF Reviving
    <3>2. r.unlearned = (save[c][s].base.version = 0)
          /\ r.onto = IF row = NoRow THEN "nothing" ELSE "successor"
      BY <3>1
    <3>3. row = NoRow
      BY <2>1, <3>2
    <3> QED BY <1>2, <2>1, <3>2, <3>3, LandFacts DEF IInv
  <2> QED BY <1>2, <2>1, Added DEF FiledStaysFiled, IInv
<1> QED BY <1>1, <1>2, Inductive, PTL DEF Spec

\* Unseen work of somebody else is replaced with a report of that very work, but
\* where a later draft's versions began again at 1.
THEOREM OverwritesReported == Spec => []OverwritesAreReported
<1>1. Init => OverwritesAreReported
  BY DEF Init, OverwritesAreReported
<1>2. ASSUME IInv, OverwritesAreReported, [Next]_vars PROVE OverwritesAreReported'
  <2>1. ASSUME NEW c \in Clients, NEW s \in Slots, Land(c, s),
               NEW u \in Replacing(c, save[c][s])
        PROVE  u.reborn \/ u.crossed
    <3> DEFINE p == save[c][s]
    <3>1. u = [reborn |-> row.version = p.base.version,
               crossed |-> row.life # p.current.life]
          /\ Unseen(c, p) /\ ~(Reports(c, p) /\ BaseOf(p.current) = BaseOf(row))
      BY <2>1 DEF Replacing
    <3>2. u.reborn = (row.version = p.base.version)
          /\ u.crossed = (row.life # p.current.life)
      BY <3>1
    <3>3. row # NoRow /\ Account[row.by] # Account[c]
      BY <3>1 DEF Unseen
    <3>4. p.current # NoRow /\ p.current.version = row.version /\ p.step = "write"
      BY <1>2, <2>1, <3>3, LandFacts DEF IInv, Land
    <3>5. row.life = p.current.life => p.current = row
      BY <1>2, <3>3, <3>4 DEF IInv, SaveInv, SaveStands
    <3>6. p.current = row /\ row.version # p.base.version => Reports(c, p)
      BY <3>3, <3>4 DEF Reports
    <3> QED BY <3>1, <3>2, <3>5, <3>6
  <2> QED BY <1>2, <2>1, Added DEF OverwritesAreReported, IInv
<1> QED BY <1>1, <1>2, Inductive, PTL DEF Spec

\* "saved" means shared: with nothing more to send, and no saves of its own that ran
\* beside one another, a row this client wrote last holds what is on its screen.
THEOREM SavedShared == Spec => []SavedIsShared
BY Inductive, PTL DEF IInv

\* Within one draft each save adds one to the version, whoever else saves, and a
\* new draft begins at 1.
THEOREM Versioned == Spec => VersionsCount
<1>1. ASSUME IInv, [Next]_vars PROVE VersionStep
  <2>1. ASSUME NEW c \in Clients, NEW s \in Slots, Land(c, s) PROVE VersionStep
    BY <1>1, <2>1, LandFacts DEF IInv, VersionStep
  <2>2. CASE UNCHANGED vars
    BY <2>2 DEF vars, VersionStep
  <2>3. ASSUME NEW c \in Clients,
               \/ Open(c) \/ Type(c) \/ Revert(c) \/ Resume(c) \/ Discard(c) \/ StartNew(c)
               \/ Close(c) \/ DeleteDraft(c)
               \/ Submit(c) \/ ClearDraftAfterSubmit(c) \/ HearPost(c) \/ LosePost(c)
        PROVE  row' = row \/ row' = NoRow
    BY <2>3 DEF Open, Type, Revert, Resume, Discard, StartNew, Close, DeleteDraft, Submit,
                ClearDraftAfterSubmit, HearPost, LosePost
  <2>4. ASSUME NEW c \in Clients, NEW s \in Slots,
               \/ SendSave(c, s) \/ HearSave(c, s) \/ LoseSave(c, s)
               \/ ReadDraft(c, s) \/ Collide(c, s) \/ FailSave(c, s)
        PROVE  row' = row
    BY <2>4 DEF SendSave, HearSave, LoseSave, ReadDraft, Collide, FailSave
  <2>5. row' = row \/ row' = NoRow => VersionStep
    BY DEF VersionStep
  <2> QED BY <1>1, <2>1, <2>2, <2>3, <2>4, <2>5, Zenon DEF Next
<1>2. ASSUME IInv, [Next]_vars PROVE [VersionStep]_vars
  BY <1>1, <1>2
<1> QED BY <1>2, Inductive, PTL DEF Spec, VersionsCount

=============================================================================
