---------------------------- MODULE ClaimProofs ----------------------------
(***************************************************************************)
(* Proofs about the damage claims, for every bound.  Review: the type      *)
(* invariant, the five safety invariants and TransitionsAreSound, for      *)
(* every number of requests, documents and amounts.  Intake: the type      *)
(* invariant and the five safety invariants, for every number of slots,    *)
(* tries, ids, contents, photos, visits, submits and mishaps.              *)
(*                                                                         *)
(* Review's inductive invariant says what a request may still rely on when *)
(* its step comes: NoteInv what fits its step for good, FreshInv what      *)
(* holds until something lands behind its back, PriceInv the amount it     *)
(* read off a quote.  DocInv and Distinct tell the uploads apart, so that  *)
(* they are never more than MaxDocs, OneInv says who may be opening a work *)
(* order, and FileInv numbers the keys of a kind none of whose files was   *)
(* deleted.                                                                *)
(*                                                                         *)
(* Intake's says what a try in hand carries (TryInv), which try the page   *)
(* listens to (HearInv), what the page goes by (PageInv), that one content *)
(* goes under one id (OneId), whose id a photo was uploaded under (OwnInv, *)
(* StayInv) and, for PhantomsAreExcused, that the mails sent and those     *)
(* still bound to be sent are paid for by mishaps and by tries sent beside *)
(* another, but for the one try that may yet file the claim (CountInv).    *)
(***************************************************************************)
EXTENDS ClaimReview, ClaimIntake, FiniteSetTheorems, WellFoundedInduction, TLAPS

Pending(q) == q.step \in {"put", "insert"}

\* What a request carries, whatever the others do: ds is docs, n is uploads.
Fits(q, ds, n) ==
  /\ q.step \in {"gate", "write"} =>
       q.t \in Transitions /\ (q.override => q.t[2] \in {"quotes", "parts"})
  /\ q.step = "gate" => q.t \in RequiresReceipt \cup RequiresQuote
  /\ q.step = "write" /\ q.t \in RequiresQuote => q.quote # 0 /\ q.amount # 0
  /\ q.step = "package" \/ (q.step = "write" /\ q.t[2] = "pay") =>
       (q.amount >= Threshold => q.note)
  /\ Pending(q) => q.doc \in 1..n /\ q.number \in DocIds
  /\ q.step \in {"delete", "edit"} => q.doc \in DOMAIN ds
  /\ q.step = "edit" => ds[q.doc].kind = "Quote" /\ q.amount # 0

\* What is still as it was read, while nothing has landed since: w is row.
Fresh(q, w, ds) ==
  ~q.stale =>
    /\ q.step \in {"gate", "write"} =>
         /\ q.t[1] = w.status
         /\ q.override => ~w.equipment
         /\ q.auto => w.cause = "undetermined"
    /\ q.step = "write" /\ q.t \in RequiresQuote => ds[q.quote].live
    /\ q.step = "write" /\ q.t \in RequiresReceipt =>
         \E d \in DOMAIN ds : ds[d].kind = "Receipt" /\ ds[d].live
    /\ q.step = "delete" => w.quote # q.doc

\* An approval: a quote on file, with its amount unless that was edited since.
Priced(quote, amount, ds, ed) ==
  quote # 0 => /\ quote \in DOMAIN ds /\ ds[quote].kind = "Quote"
               /\ quote \in ed \/ ds[quote].amount = amount

NoteInv == \A r \in Requests : Fits(req[r], docs, uploads)
FreshInv == \A r \in Requests : Fresh(req[r], row, docs)
PriceInv ==
  /\ Priced(row.quote, row.amount, docs, edited)
  /\ \A r \in Requests : Priced(req[r].quote, req[r].amount, docs, edited)
DocInv ==
  \A d \in DOMAIN docs : /\ docs[d].kind = "Quote" => docs[d].amount # 0
                         /\ docs[d].upload \in 1..uploads
Distinct ==
  /\ \A d, e \in DOMAIN docs : docs[d].upload = docs[e].upload => d = e
  /\ \A r \in Requests : Pending(req[r]) =>
       /\ \A d \in DOMAIN docs : docs[d].upload # req[r].doc
       /\ \A s \in Requests : Pending(req[s]) /\ req[r].doc = req[s].doc => r = s

Opening == {"reread", "post"}
OneInv == "override" \notin raced =>
  /\ orders <= 1
  /\ orders # 0 => row.equipment
  /\ \A r \in Requests : req[r].step \in Opening \cup {"link"} => row.equipment
  /\ \A r \in Requests : req[r].step \in Opening => orders = 0
  /\ \A r, s \in Requests : req[r].step \in Opening /\ req[s].step \in Opening => r = s

Gone(kind) == \E d \in DOMAIN docs : docs[d].kind = kind /\ ~docs[d].live
Numbered(kind) ==
  /\ \A d \in Live(kind) :
       /\ docs[d].key[1] = kind /\ docs[d].key[2] <= Cardinality(Live(kind))
       /\ files[docs[d].key] = docs[d].upload
  /\ \A r \in Requests : Pending(req[r]) /\ req[r].kind = kind =>
       /\ req[r].number = Cardinality(Live(kind)) + 1
       /\ req[r].step = "insert" => files[<<kind, req[r].number>>] = req[r].doc
       /\ \A s \in Requests : Pending(req[s]) /\ req[s].kind = kind => r = s
FileInv == "file" \notin raced => \A kind \in Kinds : ~Gone(kind) => Numbered(kind)

Base == TypeOK /\ NoteInv /\ DocInv /\ PriceInv /\ FreshInv /\ Distinct
Goals == /\ ApprovedQuoteStays /\ PaymentIsApproved /\ ChecksAreApproved
         /\ OneWorkOrder /\ FilesAreKept
IInv == Base /\ OneInv /\ FileInv /\ Goals

-----------------------------------------------------------------------------
(* The table of transitions. *)

\* A transition is a pair of statuses.
LEMMA Pairs == \A t \in Transitions : t[1] \in Statuses /\ t[2] \in Statuses
<1>1. \A t \in ClearsBackwards : t[1] \in Statuses /\ t[2] \in Statuses
  BY DEF ClearsBackwards, Statuses
<1>2. \A t \in Plain \cup Noted : t[1] \in Statuses /\ t[2] \in Statuses
  BY DEF Plain, Noted, Statuses
<1> QED
  BY <1>1, <1>2 DEF Transitions, RequiresReceipt, RequiresQuote, Clears, Statuses

\* It is told by its two ends.
LEMMA Pairing == \A t \in Transitions : t = <<t[1], t[2]>>
<1>1. \A t \in ClearsBackwards : t = <<t[1], t[2]>>
  BY DEF ClearsBackwards
<1>2. \A t \in Plain \cup Noted : t = <<t[1], t[2]>>
  BY DEF Plain, Noted
<1> QED
  BY <1>1, <1>2 DEF Transitions, RequiresReceipt, RequiresQuote, Clears

\* What clears an approval leaves the payment chain, and what writes one enters it.
LEMMA Clearing ==
  /\ \A t \in Clears : t[2] \notin Chain \cup {"paid"} /\ t \notin RequiresQuote \cup RequiresReceipt
  /\ \A t \in RequiresQuote : t[2] = "check"
  /\ \A t \in RequiresReceipt : t[2] = "paid" /\ t[1] = "parts"
<1>1. \A t \in ClearsBackwards :
        /\ t[2] \in {"gm", "rm", "quotes", "rmquote"}
        /\ t \notin RequiresQuote \cup RequiresReceipt
  BY DEF ClearsBackwards, RequiresQuote, RequiresReceipt
<1> QED
  BY <1>1 DEF Clears, RequiresQuote, RequiresReceipt, Chain

\* Any other transition that enters or stays in the payment chain comes from
\* within it or from "no response", and none leaves it but to "paid".
LEMMA Keeping ==
  \A t \in Transitions \ (Clears \cup RequiresQuote) :
    /\ t[2] \in Chain => t[1] \in Chain \/ t = <<"noanswer", "check">>
    /\ t[1] \in Chain \cup {"paid"} => t[2] \in Chain \cup {"paid"}
<1> SUFFICES ASSUME NEW t \in Plain \cup RequiresReceipt \cup Noted
             PROVE  /\ t[2] \in Chain => t[1] \in Chain \/ t = <<"noanswer", "check">>
                    /\ t[1] \in Chain \cup {"paid"} => t[2] \in Chain \cup {"paid"}
  BY DEF Transitions
<1>1. CASE t \in Plain
  BY <1>1 DEF Plain, Chain
<1>2. CASE t \in Noted \cup RequiresReceipt
  BY <1>2 DEF Noted, RequiresReceipt, Chain
<1> QED
  BY <1>1, <1>2

\* Parts that were ordered are closed with a receipt only.
LEMMA Closing ==
  \A t \in Transitions : t[1] = "parts" /\ t[2] \in Closed => t \in RequiresReceipt
<1>1. \A t \in ClearsBackwards : t[2] \notin Closed
  BY DEF ClearsBackwards, Closed
<1>2. \A t \in Plain \cup Noted : t[1] = "parts" => FALSE
  BY DEF Plain, Noted
<1> QED
  BY <1>1, <1>2 DEF Transitions, Clears, RequiresQuote, RequiresReceipt, Closed

\* "Submit for Payment" keeps the approval it finds.
LEMMA Paying ==
  \A t \in Transitions : t[2] = "pay" =>
    t \notin Clears /\ t \notin RequiresQuote /\ t \notin RequiresReceipt
BY Clearing DEF Chain

-----------------------------------------------------------------------------
(* Requests: what a step leaves of the others. *)

\* All but the history bit is the same, and that is only ever set.
Alike(p, q) ==
  /\ p.step = q.step /\ p.t = q.t /\ p.note = q.note /\ p.auto = q.auto
  /\ p.override = q.override /\ p.quote = q.quote /\ p.amount = q.amount
  /\ p.kind = q.kind /\ p.doc = q.doc /\ p.number = q.number /\ p.cause = q.cause
  /\ p.stale => q.stale

\* The documents only grow: a row is never dropped, and a deletion never undone.
Kept(ds, es) ==
  \A d \in DOMAIN ds :
    /\ d \in DOMAIN es /\ es[d].kind = ds[d].kind
    /\ es[d].key = ds[d].key /\ es[d].upload = ds[d].upload

\* A request that is not under way is a request.
LEMMA IdleTyped == Idle \in Request
BY DEF Idle, Request, Steps, Kinds, Causes, Money, DocIds

\* A step of r that does not touch the claim leaves the other requests alone.
LEMMA OwnStep ==
  ASSUME NEW r \in Requests, req \in [Requests -> Request], NEW q \in Request,
         req' = [req EXCEPT ![r] = q]
  PROVE  /\ req' \in [Requests -> Request] /\ req'[r] = q
         /\ \A x \in Requests \ {r} : req'[x] = req[x] /\ Alike(req[x], req'[x])
BY DEF Alike

\* A write of r makes the others' reads old.
LEMMA GoStep ==
  ASSUME NEW r \in Requests, req \in [Requests -> Request], NEW q \in Request,
         Go(r, q)
  PROVE  /\ req' \in [Requests -> Request] /\ req'[r] = q
         /\ \A x \in Requests \ {r} :
              /\ Alike(req[x], req'[x])
              /\ req[x].step \in Reading => req'[x].stale
<1>1. \A x \in Requests \ {r} :
        req'[x] = [req[x] EXCEPT !.stale = req[x].stale \/ req[x].step \in Reading]
  BY DEF Go
<1>2. req'[r] = q /\ DOMAIN req' = Requests /\ req' = [x \in Requests |-> req'[x]]
  BY DEF Go
<1>3. ASSUME NEW x \in Requests \ {r}
      PROVE  /\ req'[x] \in Request /\ Alike(req[x], req'[x])
             /\ req[x].step \in Reading => req'[x].stale
  <2>1. req[x] \in Request
    OBVIOUS
  <2> QED
    BY <2>1, <1>1 DEF Request, Alike
<1> QED
  BY <1>2, <1>3

\* What a request carries stays fit for its step while documents are added.
LEMMA FitsStays ==
  ASSUME NEW p \in Request, NEW q \in Request, Alike(p, q),
         NEW ds, NEW es, Kept(ds, es), NEW n \in Nat, NEW m \in Nat, n <= m,
         Fits(p, ds, n)
  PROVE  Fits(q, es, m)
BY DEF Fits, Alike, Kept, Pending, Request

-----------------------------------------------------------------------------
(* Documents. *)

\* The numbers up to n are n.
LEMMA UpTo ==
  ASSUME NEW n \in Nat
  PROVE  IsFiniteSet(1..n) /\ Cardinality(1..n) = n
<1>1. 1 \in Int /\ n \in Int
  OBVIOUS
<1>2. IsFiniteSet(1..n) /\ Cardinality(1..n) = IF 1 > n THEN 0 ELSE n - 1 + 1
  BY ONLY <1>1, FS_Interval
<1> QED
  BY <1>2

\* Uploads told apart are no more than the numbers there are for them.
LEMMA Room ==
  ASSUME NEW s \in Seq(Doc), NEW n \in Nat,
         \A d \in DOMAIN s : s[d].upload \in 1..n,
         \A d, e \in DOMAIN s : s[d].upload = s[e].upload => d = e
  PROVE  Len(s) <= n
<1> DEFINE f == [d \in 1..Len(s) |-> s[d].upload]
<1>1. Len(s) \in Nat /\ DOMAIN s = 1..Len(s)
  OBVIOUS
<1>2. f \in Injection(1..Len(s), 1..n)
  BY <1>1 DEF Injection, IsInjective
<1>3. IsFiniteSet(1..n) /\ Cardinality(1..n) = n /\ Cardinality(1..Len(s)) = Len(s)
  BY <1>1, UpTo
<1>4. Cardinality(1..Len(s)) <= Cardinality(1..n)
  BY <1>2, <1>3, FS_Injection
<1> QED
  BY <1>3, <1>4

\* The documents of a kind on file are finitely many, and no more than were uploaded.
LEMMA LiveCount ==
  ASSUME TypeOK, DocInv, Distinct, NEW kind \in Kinds
  PROVE  /\ Live(kind) \subseteq DOMAIN docs /\ IsFiniteSet(Live(kind))
         /\ Cardinality(Live(kind)) \in Nat /\ Cardinality(Live(kind)) <= uploads
<1>1. docs \in Seq(Doc) /\ uploads \in Nat /\ DOMAIN docs = 1..Len(docs) /\ Len(docs) \in Nat
  BY BoundsAssumption DEF TypeOK
<1>2. Len(docs) <= uploads
  BY <1>1, Room DEF DocInv, Distinct
<1>3. IsFiniteSet(1..Len(docs)) /\ Cardinality(1..Len(docs)) = Len(docs)
  BY <1>1, UpTo
<1>4. Live(kind) \subseteq 1..Len(docs)
  BY <1>1 DEF Live
<1>5. /\ IsFiniteSet(Live(kind))
      /\ Cardinality(Live(kind)) <= Cardinality(1..Len(docs))
  BY <1>3, <1>4, FS_Subset
<1>6. Cardinality(Live(kind)) \in Nat
  BY <1>5, FS_CardinalityType
<1> QED
  BY <1>1, <1>2, <1>3, <1>4, <1>5, <1>6

-----------------------------------------------------------------------------
(* Every step keeps the types. *)

\* The other requests are as they were, but for the history bit.
Others(r) == \A x \in Requests \ {r} : Alike(req[x], req'[x])
Typed(r) == TypeOK' /\ Others(r) /\ req'[r] \in Request

\* A request that begins keeps the types if what it begins with has one.
LEMMA BeginTyped ==
  ASSUME TypeOK, NEW r \in Requests, NEW q \in Request, Begin(r, q),
         uploads' \in 0..MaxDocs, uploads' >= uploads, extras' \in 0..MaxExtras,
         UNCHANGED <<row, docs, files, orders, faults, sent, reopened, edited>>,
         raced' \in {raced, raced \cup {"file"}}
  PROVE  Typed(r) /\ req'[r] = q
<1>1. overlaps' \in 0..MaxOverlaps
  BY BoundsAssumption DEF Begin, TypeOK
<1>2. /\ req' \in [Requests -> Request] /\ req'[r] = q
      /\ \A x \in Requests \ {r} : Alike(req[x], req'[x])
  BY OwnStep DEF Begin, TypeOK
<1> QED
  BY <1>1, <1>2 DEF TypeOK, Typed, Others

\* The counter of extras stays in its bound.
LEMMA ExtraTyped ==
  ASSUME TypeOK, Extra \/ UNCHANGED extras
  PROVE  extras' \in 0..MaxExtras
BY BoundsAssumption DEF TypeOK, Extra

\* The request of BeginTransition.
AskedRequest(t, note, override) ==
  [Idle EXCEPT
     !.step = IF t \in RequiresReceipt \cup RequiresQuote THEN "gate" ELSE "write",
     !.t = t, !.note = note, !.override = override,
     !.auto = AutoNoFault(t),
     !.quote = IF t[2] = "pay" THEN row.quote ELSE 0,
     !.amount = IF t[2] = "pay" THEN row.amount ELSE 0]
Asked(r, t, note, override) ==
  /\ t[1] = row.status
  /\ Attributed(t, note)
  /\ override => MayOverride(t)
  /\ Extra \/ UNCHANGED extras
  /\ Begin(r, AskedRequest(t, note, override))
  /\ UNCHANGED <<row, docs, files, orders, uploads, faults, ghosts>>

\* BeginTransition, told by the request it begins with.
LEMMA Asking ==
  ASSUME NEW r, BeginTransition(r)
  PROVE  \E t \in Transitions, note, override \in BOOLEAN : Asked(r, t, note, override)
<1>1. PICK t \in Transitions, note \in BOOLEAN, override \in BOOLEAN :
        /\ t[1] = row.status
        /\ Attributed(t, note)
        /\ override => MayOverride(t)
        /\ IF override \/ t \in Clears THEN Extra ELSE UNCHANGED extras
        /\ Begin(r, AskedRequest(t, note, override))
        /\ UNCHANGED <<row, docs, files, orders, uploads, faults, ghosts>>
  BY Zenon DEF BeginTransition, AskedRequest
<1> QED
  BY <1>1, Zenon DEF Asked

\* That request has the type of one.
LEMMA AskedTyped ==
  ASSUME TypeOK, NEW t \in Transitions, NEW note \in BOOLEAN, NEW override \in BOOLEAN
  PROVE  AskedRequest(t, note, override) \in Request
<1> DEFINE step == IF t \in RequiresReceipt \cup RequiresQuote THEN "gate" ELSE "write"
           quote == IF t[2] = "pay" THEN row.quote ELSE 0
           amount == IF t[2] = "pay" THEN row.amount ELSE 0
           auto == AutoNoFault(t)
<1>1. step \in Steps /\ quote \in DocIds \cup {0} /\ amount \in Money /\ auto \in BOOLEAN
  BY DEF Steps, TypeOK, Row, Money, AutoNoFault
<1>2. AskedRequest(t, note, override) =
        [Idle EXCEPT !.step = step, !.t = t, !.note = note, !.override = override,
                     !.auto = auto, !.quote = quote, !.amount = amount]
  BY DEF AskedRequest
<1> HIDE DEF step, quote, amount, auto
<1> QED
  BY <1>1, <1>2, IdleTyped DEF Request, Idle

\* So a transition that begins keeps the types.
LEMMA BeginTransitionTyped ==
  ASSUME Base, NEW r \in Requests, BeginTransition(r)
  PROVE  Typed(r)
<1> USE DEF Base
<1>1. PICK t \in Transitions, note, override \in BOOLEAN : Asked(r, t, note, override)
  BY Asking
<1> DEFINE q == AskedRequest(t, note, override)
<1>3. q \in Request
  BY AskedTyped
<1> HIDE DEF q
<1>4. extras' \in 0..MaxExtras
  BY <1>1, ExtraTyped DEF Asked
<1>5. Begin(r, q)
  BY <1>1 DEF q, Asked
<1> QED
  BY <1>1, <1>3, <1>4, <1>5, BeginTyped, BoundsAssumption DEF Asked, ghosts, TypeOK

\* The other requests that begin, with what they have just read.
LEMMA BeginOtherTyped ==
  ASSUME Base, NEW r \in Requests,
         BeginCause(r) \/ BeginUpload(r) \/ BeginDelete(r) \/ BeginEdit(r)
  PROVE  Typed(r)
<1> USE BoundsAssumption DEF Base
<1>0. docs \in Seq(Doc) /\ DOMAIN docs \subseteq DocIds
  BY DEF TypeOK, DocIds
<1>1. CASE BeginCause(r)
  <2>1. PICK c \in Causes : /\ Extra /\ Begin(r, [Idle EXCEPT !.step = "cause", !.cause = c])
                            /\ UNCHANGED <<row, docs, files, orders, uploads, faults, ghosts>>
    BY <1>1 DEF BeginCause
  <2>2. [Idle EXCEPT !.step = "cause", !.cause = c] \in Request
    BY IdleTyped DEF Idle, Request, Steps
  <2> QED
    BY <2>1, <2>2, ExtraTyped, BeginTyped DEF ghosts, TypeOK
<1>2. CASE BeginUpload(r)
  <2> DEFINE q(kind) == [Idle EXCEPT !.step = "put", !.kind = kind,
                             !.number = NextNumber(kind), !.doc = uploads']
  <2>1. PICK kind \in Kinds : /\ uploads < MaxDocs /\ uploads' = uploads + 1
                              /\ Begin(r, q(kind))
                              /\ raced' \in {raced, raced \cup {"file"}}
                              /\ UNCHANGED <<row, docs, files, orders, extras, faults,
                                             sent, reopened, edited>>
    BY <1>2 DEF BeginUpload
  <2>2. NextNumber(kind) \in Nat /\ uploads' \in DocIds
    BY <2>1, LiveCount DEF NextNumber, TypeOK, DocIds
  <2>3. q(kind) \in Request
    BY <2>2, IdleTyped DEF Idle, Request, Steps
  <2>4. uploads' \in 0..MaxDocs /\ uploads' >= uploads /\ extras' \in 0..MaxExtras
    BY <2>1 DEF TypeOK
  <2> HIDE DEF q
  <2> QED
    BY <2>1, <2>3, <2>4, BeginTyped
<1>3. CASE BeginDelete(r)
  <2>1. PICK d \in DOMAIN docs :
          /\ Extra /\ Begin(r, [Idle EXCEPT !.step = "delete", !.doc = d])
          /\ UNCHANGED <<row, docs, files, orders, uploads, faults, ghosts>>
    BY <1>3 DEF BeginDelete
  <2>2. [Idle EXCEPT !.step = "delete", !.doc = d] \in Request
    BY <1>0, IdleTyped DEF Idle, Request, Steps
  <2> QED
    BY <2>1, <2>2, ExtraTyped, BeginTyped DEF ghosts, TypeOK
<1>4. CASE BeginEdit(r)
  <2>1. PICK d \in Live("Quote"), amount \in Amounts :
          /\ Extra /\ Begin(r, [Idle EXCEPT !.step = "edit", !.doc = d, !.amount = amount])
          /\ UNCHANGED <<row, docs, files, orders, uploads, faults, ghosts>>
    BY <1>4 DEF BeginEdit
  <2>2. [Idle EXCEPT !.step = "edit", !.doc = d, !.amount = amount] \in Request
    BY <1>0, IdleTyped DEF Idle, Request, Steps, Live, Money
  <2> QED
    BY <2>1, <2>2, ExtraTyped, BeginTyped DEF ghosts, TypeOK
<1> QED
  BY <1>1, <1>2, <1>3, <1>4

\* A request's own steps, which touch no document.
LEMMA OwnTyped ==
  ASSUME TypeOK, NEW r \in Requests, NEW q \in Request,
         req' = [req EXCEPT ![r] = q], row' \in Row, orders' \in Nat,
         faults' \in 0..MaxFaults, sent' \subseteq Sent,
         UNCHANGED <<docs, files, uploads, extras, overlaps, reopened, edited, raced>>
  PROVE  Typed(r) /\ req'[r] = q
<1>1. /\ req' \in [Requests -> Request] /\ req'[r] = q
      /\ \A x \in Requests \ {r} : Alike(req[x], req'[x])
  BY OwnStep DEF TypeOK
<1> QED
  BY <1>1 DEF TypeOK, Typed, Others

\* The counter of faults stays in its bound.
LEMMA FaultTyped ==
  ASSUME TypeOK, Fault \/ UNCHANGED faults
  PROVE  faults' \in 0..MaxFaults
BY BoundsAssumption DEF TypeOK, Fault

\* What the type invariant says of the claim and its documents, field by field.
LEMMA State ==
  ASSUME TypeOK
  PROVE  /\ row \in Row /\ req \in [Requests -> Request] /\ docs \in Seq(Doc)
         /\ orders \in Nat /\ faults \in 0..MaxFaults /\ sent \subseteq Sent
         /\ uploads \in Nat /\ uploads \in 0..MaxDocs
         /\ Len(docs) \in Nat /\ DOMAIN docs = 1..Len(docs) /\ DOMAIN docs \subseteq DocIds
         /\ \A d \in DOMAIN docs :
              /\ docs[d] \in Doc /\ docs[d].kind \in Kinds /\ docs[d].amount \in Money
              /\ docs[d].live \in BOOLEAN /\ docs[d].key \in Keys /\ docs[d].upload \in DocIds
<1>1. docs \in Seq(Doc) /\ Len(docs) <= MaxDocs /\ MaxDocs \in Nat
  BY BoundsAssumption DEF TypeOK
<1>2. Len(docs) \in Nat /\ DOMAIN docs = 1..Len(docs) /\ \A d \in DOMAIN docs : docs[d] \in Doc
  BY <1>1
<1>3. DOMAIN docs \subseteq DocIds
  BY <1>1, <1>2 DEF DocIds
<1>4. \A d \in Doc : /\ d.kind \in Kinds /\ d.amount \in Money
                     /\ d.live \in BOOLEAN /\ d.key \in Keys /\ d.upload \in DocIds
  BY DEF Doc
<1>5. \A d \in DOMAIN docs :
        /\ docs[d] \in Doc /\ docs[d].kind \in Kinds /\ docs[d].amount \in Money
        /\ docs[d].live \in BOOLEAN /\ docs[d].key \in Keys /\ docs[d].upload \in DocIds
  BY <1>2, <1>4
<1> QED
  BY <1>1, <1>2, <1>3, <1>5 DEF TypeOK

\* These steps keep the types.
LEMMA OwnStepsTyped ==
  ASSUME Base, NEW r \in Requests,
         \/ PassGate(r) \/ ReReadClaim(r) \/ PostWorkOrder(r) \/ LinkWorkOrder(r)
         \/ PackageForAP(r) \/ GiveUp(r)
  PROVE  Typed(r)
<1> USE DEF Base
<1>0. /\ req[r] \in Request /\ row \in Row
      /\ orders \in Nat /\ faults \in 0..MaxFaults /\ sent \subseteq Sent
  BY State
<1>1. CASE PassGate(r)
  <2>1. UNCHANGED <<row, docs, files, orders, bounds, ghosts>>
    BY <1>1 DEF PassGate
  <2>2. CASE req' = [req EXCEPT ![r].step = "write"]
    <3>1. req' = [req EXCEPT ![r] = [req[r] EXCEPT !.step = "write"]]
      BY <2>2 DEF TypeOK
    <3>2. [req[r] EXCEPT !.step = "write"] \in Request
      BY <1>0 DEF Request, Steps
    <3> QED
      BY <2>1, <3>1, <3>2, <1>0, OwnTyped DEF bounds, ghosts
  <2>3. CASE \E d \in Live("Quote") :
               req' = [req EXCEPT ![r] = [@ EXCEPT !.step = "write", !.quote = d,
                                                   !.amount = docs[d].amount]]
    <3>1. PICK d \in Live("Quote") :
            req' = [req EXCEPT ![r] = [req[r] EXCEPT !.step = "write", !.quote = d,
                                                     !.amount = docs[d].amount]]
      BY <2>3
    <3>2. d \in DocIds /\ docs[d].amount \in Money
      BY State DEF Live
    <3>3. [req[r] EXCEPT !.step = "write", !.quote = d, !.amount = docs[d].amount] \in Request
      BY <1>0, <3>2 DEF Request, Steps
    <3> QED
      BY <2>1, <3>1, <3>3, <1>0, OwnTyped DEF bounds, ghosts
  <2> QED
    BY <1>1, <2>2, <2>3 DEF PassGate
<1>2. CASE ReReadClaim(r)
  <2>1. /\ Fault \/ UNCHANGED faults
        /\ UNCHANGED <<row, docs, files, orders, uploads, extras, overlaps, ghosts>>
    BY <1>2 DEF ReReadClaim
  <2>2. faults' \in 0..MaxFaults
    BY <2>1, FaultTyped
  <2>3. PICK q \in {Idle, [Idle EXCEPT !.step = "post"]} : req' = [req EXCEPT ![r] = q]
    BY <1>2 DEF ReReadClaim
  <2>4. q \in Request
    BY IdleTyped DEF Idle, Request, Steps
  <2> QED
    BY <2>1, <2>2, <2>3, <2>4, <1>0, OwnTyped DEF ghosts
<1>3. CASE PostWorkOrder(r)
  <2>1. /\ Fault \/ UNCHANGED faults
        /\ UNCHANGED <<row, docs, files, uploads, extras, overlaps, ghosts>>
    BY <1>3 DEF PostWorkOrder
  <2>2. faults' \in 0..MaxFaults /\ orders' \in Nat
    BY <2>1, <1>0, <1>3, FaultTyped DEF PostWorkOrder
  <2>3. PICK q \in {Idle, [Idle EXCEPT !.step = "link", !.number = orders']} :
          req' = [req EXCEPT ![r] = q]
    BY <1>3 DEF PostWorkOrder
  <2>4. q \in Request
    BY <2>2, IdleTyped DEF Idle, Request, Steps
  <2> QED
    BY <2>1, <2>2, <2>3, <2>4, <1>0, OwnTyped DEF ghosts
<1>4. CASE LinkWorkOrder(r)
  <2>1. row' \in Row
    BY <1>0, <1>4 DEF LinkWorkOrder, LinkWhenNull, Row, Request
  <2> QED
    BY <1>0, <1>4, <2>1, IdleTyped, OwnTyped DEF LinkWorkOrder, bounds, ghosts
<1>5. CASE PackageForAP(r)
  <2>1. sent' \subseteq Sent
    <3> DEFINE form(first) == [amount |-> docs[first].amount, approved |-> req[r].amount,
                               note |-> req[r].note, edited |-> first \in edited,
                               substitute |-> first # req[r].quote]
    <3>1. ASSUME NEW first \in DOMAIN docs PROVE form(first) \in Sent
      <4>1. docs[first].amount \in Money /\ req[r].amount \in Money /\ req[r].note \in BOOLEAN
        BY <1>0, State DEF Request
      <4> QED
        BY <4>1 DEF Sent
    <3>2. sent' = {} \/ \E first \in DOMAIN docs : sent' = {form(first)}
      BY <1>5 DEF PackageForAP, Live
    <3> HIDE DEF form
    <3> QED
      BY <3>1, <3>2
  <2> QED
    BY <1>0, <1>5, <2>1, IdleTyped, OwnTyped DEF PackageForAP, bounds, ghosts
<1>6. CASE GiveUp(r)
  BY <1>0, <1>6, IdleTyped, OwnTyped DEF GiveUp, bounds, ghosts
<1> QED
  BY <1>1, <1>2, <1>3, <1>4, <1>5, <1>6

\* A write keeps the types if what it writes has them.
LEMMA GoTyped ==
  ASSUME TypeOK, NEW r \in Requests, NEW q \in Request, Go(r, q),
         row' \in Row, docs' \in Seq(Doc), Len(docs') <= MaxDocs,
         files' \in [Keys -> 0..MaxDocs], sent' \subseteq Sent, reopened' \in BOOLEAN,
         edited' \subseteq DocIds, raced' \subseteq {"override", "quote", "file", "approval"},
         UNCHANGED <<orders, bounds>>
  PROVE  Typed(r) /\ req'[r] = q
<1>1. /\ req' \in [Requests -> Request] /\ req'[r] = q
      /\ \A x \in Requests \ {r} : Alike(req[x], req'[x])
  BY GoStep DEF TypeOK
<1> QED
  BY <1>1 DEF TypeOK, Typed, Others, bounds

\* The row WriteTransition writes.
LEMMA UpdatedTyped ==
  ASSUME TypeOK, NEW q \in Request, q.t \in Transitions
  PROVE  /\ Updated(q) \in Row
         /\ Updated(q).status = q.t[2]
         /\ Updated(q).amount = Approval(q).amount /\ Updated(q).quote = Approval(q).quote
         /\ Updated(q).equipment = (row.equipment \/ q.override)
         /\ Updated(q).cause = IF q.auto THEN "noFault" ELSE row.cause
         /\ Updated(q).order = row.order
<1> DEFINE amount == Approval(q).amount
           quote == Approval(q).quote
           equipment == row.equipment \/ q.override
           cause == IF q.auto THEN "noFault" ELSE row.cause
<1>1. row \in Row /\ q.t[2] \in Statuses
  BY State, Pairs
<1>2. amount \in Money /\ quote \in DocIds \cup {0}
  BY <1>1 DEF Approval, Row, Request, Money
<1>3. equipment \in BOOLEAN /\ cause \in Causes
  BY <1>1 DEF Row, Request, Causes
<1>4. Updated(q) = [row EXCEPT !.status = q.t[2], !.amount = amount, !.quote = quote,
                               !.equipment = equipment, !.cause = cause]
  BY <1>1 DEF Updated, Row
<1> HIDE DEF amount, quote, equipment, cause
<1>5. /\ Updated(q) \in Row
      /\ Updated(q).status = q.t[2]
      /\ Updated(q).amount = amount /\ Updated(q).quote = quote
      /\ Updated(q).equipment = equipment /\ Updated(q).cause = cause
      /\ Updated(q).order = row.order
  BY <1>1, <1>2, <1>3, <1>4 DEF Row
<1> QED
  BY <1>5 DEF amount, quote, equipment, cause

\* What a request goes on with after its transition is written.
LEMMA AfterTyped ==
  ASSUME NEW q \in Request, q.override => q.t[2] \in {"quotes", "parts"}
  PROVE  /\ After(q) \in Request
         /\ After(q).step \in {"idle", "reread", "package"}
         /\ After(q).step = "package" =>
              /\ q.t[2] = "pay" /\ After(q).quote = q.quote
              /\ After(q).amount = q.amount /\ After(q).note = q.note
         /\ After(q).step # "package" => After(q).quote = 0
         /\ After(q).step = "reread" <=> q.override
<1>1. CASE q.override
  <2>1. After(q) = [Idle EXCEPT !.step = "reread"]
    BY <1>1 DEF After
  <2> QED
    BY <1>1, <2>1, IdleTyped DEF Idle, Request, Steps
<1>2. CASE ~q.override /\ q.t[2] = "pay"
  <2>1. After(q) = [Idle EXCEPT !.step = "package", !.quote = q.quote,
                                !.amount = q.amount, !.note = q.note]
    BY <1>2 DEF After
  <2>2. q.quote \in DocIds \cup {0} /\ q.amount \in Money /\ q.note \in BOOLEAN
    BY DEF Request
  <2> QED
    BY <1>2, <2>1, <2>2, IdleTyped DEF Idle, Request, Steps
<1>3. CASE ~q.override /\ q.t[2] # "pay"
  <2>1. After(q) = Idle
    BY <1>3 DEF After
  <2> QED
    BY <1>3, <2>1, IdleTyped DEF Idle
<1> QED
  BY <1>1, <1>2, <1>3

\* What the document steps leave of the documents.
LEMMA DocSteps ==
  ASSUME Base, NEW r \in Requests,
         InsertDoc(r) \/ SoftDelete(r) \/ EditDoc(r)
  PROVE  /\ docs' \in Seq(Doc) /\ Len(docs') <= MaxDocs /\ Kept(docs, docs')
         /\ InsertDoc(r) => \E amount \in Money :
              /\ req[r].kind = "Quote" => amount # 0
              /\ Len(docs') = Len(docs) + 1 /\ \A d \in DOMAIN docs : docs'[d] = docs[d]
              /\ docs'[Len(docs')] = [kind |-> req[r].kind, amount |-> amount, live |-> TRUE,
                    key |-> <<req[r].kind, req[r].number>>, upload |-> req[r].doc]
         /\ SoftDelete(r) => /\ DOMAIN docs' = DOMAIN docs
                             /\ docs' = [docs EXCEPT ![req[r].doc].live = FALSE]
         /\ EditDoc(r) => /\ DOMAIN docs' = DOMAIN docs
                          /\ docs' = [docs EXCEPT ![req[r].doc].amount = req[r].amount]
<1> DEFINE q == req[r]
<1> USE DEF Base
<1>0. q \in Request /\ docs \in Seq(Doc) /\ DOMAIN docs = 1..Len(docs) /\ Len(docs) \in Nat
      /\ \A d \in DOMAIN docs : docs[d] \in Doc
  BY State
<1>f. Fits(q, docs, uploads) /\ Len(docs) <= MaxDocs
  BY DEF NoteInv, TypeOK
<1>1. CASE InsertDoc(r)
  <2>1. PICK amount \in Money :
          /\ q.kind = "Quote" => amount # 0
          /\ docs' = Append(docs, [kind |-> q.kind, amount |-> amount, live |-> TRUE,
                                   key |-> <<q.kind, q.number>>, upload |-> q.doc])
    BY <1>1, AmountsAssumption DEF InsertDoc, Money
  <2> DEFINE new == [kind |-> q.kind, amount |-> amount, live |-> TRUE,
                     key |-> <<q.kind, q.number>>, upload |-> q.doc]
  <2>2. Pending(q) /\ q.number \in DocIds /\ q.doc \in 1..uploads /\ q.kind \in Kinds
    BY <1>1, <1>0, <1>f DEF InsertDoc, Fits, Pending, Request
  <2>3. new \in Doc
    BY <2>2, State, BoundsAssumption DEF Doc, Keys, DocIds
  <2>3a. new.upload = q.doc
    OBVIOUS
  <2>4. /\ docs' \in Seq(Doc) /\ Len(docs') = Len(docs) + 1
        /\ \A d \in DOMAIN docs : docs'[d] = docs[d]
        /\ docs'[Len(docs')] = new
    <3> HIDE DEF new
    <3>1. docs' = Append(docs, new)
      BY <2>1 DEF new
    <3> QED
      BY <3>1, <1>0, <2>3
  <2> HIDE DEF new
  <2>5. DOMAIN docs' = DOMAIN docs \cup {Len(docs')} /\ Len(docs') \notin DOMAIN docs
    BY <2>4, <1>0
  <2>6. \A d \in DOMAIN docs : docs[d].upload \in 1..uploads /\ docs[d].upload # q.doc
    BY <2>2 DEF DocInv, Distinct
  <2>7. Len(docs') <= uploads
    <3>1. \A d \in DOMAIN docs' : docs'[d].upload \in 1..uploads
      BY <2>2, <2>3a, <2>4, <2>5, <2>6
    <3>2. \A d, e \in DOMAIN docs' : docs'[d].upload = docs'[e].upload => d = e
      BY <2>3a, <2>4, <2>5, <2>6 DEF Distinct
    <3> QED
      BY <3>1, <3>2, <2>4, Room, State
  <2>8. Kept(docs, docs') /\ Len(docs') <= MaxDocs
    BY <2>4, <2>5, <2>7, State, BoundsAssumption DEF Kept
  <2>9. ~SoftDelete(r) /\ ~EditDoc(r)
    BY <1>1 DEF InsertDoc, SoftDelete, EditDoc
  <2> QED
    BY <2>1, <2>4, <2>8, <2>9 DEF new
<1>2. CASE SoftDelete(r)
  <2>1. docs' = [docs EXCEPT ![q.doc] = [docs[q.doc] EXCEPT !.live = FALSE]]
    BY <1>2 DEF SoftDelete
  <2>2. q.doc \in DOMAIN docs
    BY <1>2, <1>f DEF SoftDelete, Fits
  <2>3. [docs[q.doc] EXCEPT !.live = FALSE] \in Doc
    BY <1>0, <2>2 DEF Doc
  <2>4. /\ docs' \in Seq(Doc) /\ Len(docs') = Len(docs) /\ DOMAIN docs' = DOMAIN docs
    BY <1>0, <2>1, <2>2, <2>3
  <2>5. Kept(docs, docs')
    BY <1>0, <2>1, <2>2, <2>4 DEF Kept, Doc
  <2>6. ~InsertDoc(r) /\ ~EditDoc(r) /\ docs' = [docs EXCEPT ![q.doc].live = FALSE]
    BY <1>2 DEF InsertDoc, SoftDelete, EditDoc
  <2> QED
    BY <2>4, <2>5, <2>6, <1>f
<1>3. CASE EditDoc(r)
  <2>1. docs' = [docs EXCEPT ![q.doc] = [docs[q.doc] EXCEPT !.amount = q.amount]]
    BY <1>3 DEF EditDoc
  <2>2. q.doc \in DOMAIN docs /\ q.amount \in Money
    BY <1>0, <1>3, <1>f DEF EditDoc, Fits, Request
  <2>3. [docs[q.doc] EXCEPT !.amount = q.amount] \in Doc
    BY <1>0, <2>2 DEF Doc
  <2>4. /\ docs' \in Seq(Doc) /\ Len(docs') = Len(docs) /\ DOMAIN docs' = DOMAIN docs
    BY <1>0, <2>1, <2>2, <2>3
  <2>5. Kept(docs, docs')
    BY <1>0, <2>1, <2>2, <2>4 DEF Kept, Doc
  <2>6. ~InsertDoc(r) /\ ~SoftDelete(r) /\ docs' = [docs EXCEPT ![q.doc].amount = q.amount]
    BY <1>3 DEF InsertDoc, SoftDelete, EditDoc
  <2> QED
    BY <2>4, <2>5, <2>6, <1>f
<1> QED
  BY <1>1, <1>2, <1>3

\* The steps that write keep the types.
LEMMA WritesTyped ==
  ASSUME Base, NEW r \in Requests,
         \/ WriteTransition(r) \/ SetCause(r) \/ PutFile(r)
         \/ InsertDoc(r) \/ SoftDelete(r) \/ EditDoc(r)
  PROVE  Typed(r)
<1> USE DEF Base
<1>0. req[r] \in Request /\ Fits(req[r], docs, uploads) /\ TypeOK /\ MaxDocs \in Nat
  BY BoundsAssumption DEF NoteInv, TypeOK
<1>t. /\ row \in Row /\ docs \in Seq(Doc) /\ Len(docs) <= MaxDocs /\ files \in [Keys -> 0..MaxDocs]
      /\ sent \subseteq Sent /\ reopened \in BOOLEAN /\ edited \subseteq DocIds
      /\ raced \subseteq {"override", "quote", "file", "approval"}
  BY DEF TypeOK
<1>1. CASE WriteTransition(r)
  <2>1. req[r].t \in Transitions /\ (req[r].override => req[r].t[2] \in {"quotes", "parts"})
    BY <1>0, <1>1 DEF WriteTransition, Fits
  <2>2. row' \in Row /\ Go(r, After(req[r])) /\ After(req[r]) \in Request
    BY <1>0, <1>1, <2>1, UpdatedTyped, AfterTyped DEF WriteTransition
  <2>3. raced' \subseteq {"override", "quote", "file", "approval"}
    <3>1. Broken(req[r]) \subseteq {"override", "quote", "approval"}
      BY DEF Broken
    <3>2. raced' = raced \/ raced' = raced \cup Broken(req[r])
      BY <1>1 DEF WriteTransition
    <3> QED
      BY <3>1, <3>2, <1>t
  <2>4. /\ sent' = {} /\ reopened' \in BOOLEAN
        /\ UNCHANGED <<docs, files, orders, bounds, edited>>
    BY <1>1, <1>t DEF WriteTransition
  <2> QED
    BY <1>t, <2>2, <2>3, <2>4, GoTyped
<1>2. CASE SetCause(r)
  <2>1. row' \in Row
    BY <1>0, <1>2, <1>t DEF SetCause, Row, Request
  <2> QED
    BY <1>2, <1>t, <2>1, IdleTyped, GoTyped DEF SetCause, ghosts
<1>3. CASE PutFile(r)
  <2>1. files' \in [Keys -> 0..MaxDocs]
    <3>1. req[r].doc \in 0..MaxDocs
      BY <1>0 DEF Request, DocIds
    <3>2. files' = [files EXCEPT ![<<req[r].kind, req[r].number>>] = req[r].doc]
      BY <1>3 DEF PutFile
    <3> QED
      BY <3>1, <3>2, <1>t
  <2>2. [req[r] EXCEPT !.step = "insert"] \in Request
    BY <1>0 DEF Request, Steps
  <2> QED
    BY <1>3, <1>t, <2>1, <2>2, GoTyped DEF PutFile, ghosts
<1>4. CASE InsertDoc(r)
  BY <1>4, <1>t, IdleTyped, DocSteps, GoTyped DEF InsertDoc, ghosts
<1>5. CASE SoftDelete(r)
  <2>1. raced' \subseteq {"override", "quote", "file", "approval"}
    BY <1>5, <1>t DEF SoftDelete
  <2> QED
    BY <1>5, <1>t, <2>1, IdleTyped, DocSteps, GoTyped DEF SoftDelete
<1>6. CASE EditDoc(r)
  <2>1. edited' \subseteq DocIds
    <3>1. req[r].doc \in DocIds
      BY <1>0, <1>6, State DEF EditDoc, Fits
    <3> QED
      BY <3>1, <1>6, <1>t DEF EditDoc
  <2> QED
    BY <1>6, <1>t, <2>1, IdleTyped, DocSteps, GoTyped DEF EditDoc
<1> QED
  BY <1>1, <1>2, <1>3, <1>4, <1>5, <1>6

-----------------------------------------------------------------------------
(* The steps by what they touch. *)

Begins(r) == \/ BeginTransition(r) \/ BeginCause(r) \/ BeginUpload(r)
             \/ BeginDelete(r) \/ BeginEdit(r)
Owns(r) == \/ PassGate(r) \/ ReReadClaim(r) \/ PostWorkOrder(r)
           \/ LinkWorkOrder(r) \/ PackageForAP(r) \/ GiveUp(r)
Lands(r) == \/ WriteTransition(r) \/ SetCause(r) \/ PutFile(r)
            \/ InsertDoc(r) \/ SoftDelete(r) \/ EditDoc(r)
Step(r) == Begins(r) \/ Owns(r) \/ Lands(r)

\* Next is a step of one request.
LEMMA NextIsAStep == Next => \E r \in Requests : Step(r)
BY Zenon DEF Next, Step, Begins, Owns, Lands

\* Every step keeps the types.
LEMMA StepTyped ==
  ASSUME Base, NEW r \in Requests, Step(r)
  PROVE  Typed(r)
BY BeginTransitionTyped, BeginOtherTyped, OwnStepsTyped, WritesTyped
DEF Step, Begins, Owns, Lands

\* The fields of the row that requests read are as they were.
SameClaim ==
  /\ row'.status = row.status /\ row'.amount = row.amount /\ row'.quote = row.quote
  /\ row'.cause = row.cause /\ row'.equipment = row.equipment

\* A step that lands nothing leaves what the others have read as it was.
LEMMA Quiet ==
  ASSUME Base, NEW r \in Requests, Begins(r) \/ Owns(r)
  PROVE  /\ SameClaim /\ docs' = docs /\ files' = files
         /\ edited' = edited /\ reopened' = reopened
         /\ uploads' \in Nat /\ uploads <= uploads'
         /\ uploads' # uploads => BeginUpload(r)
         /\ raced' # raced => BeginUpload(r)
         /\ row' # row => LinkWorkOrder(r)
         /\ orders' # orders => PostWorkOrder(r)
         /\ sent' # sent => PackageForAP(r)
<1>0. row \in Row /\ uploads \in Nat
  BY State DEF Base
<1>1. CASE BeginTransition(r)
  BY <1>0, <1>1, Asking DEF Asked, SameClaim, ghosts
<1>2. CASE BeginCause(r)
  BY <1>0, <1>2 DEF BeginCause, SameClaim, ghosts
<1>3. CASE BeginUpload(r)
  <2>1. /\ uploads' = uploads + 1
        /\ UNCHANGED <<row, docs, files, orders, extras, faults, sent, reopened, edited>>
    BY <1>3, Zenon DEF BeginUpload
  <2> QED
    BY <1>0, <1>3, <2>1 DEF SameClaim
<1>4. CASE BeginDelete(r)
  BY <1>0, <1>4 DEF BeginDelete, SameClaim, ghosts
<1>5. CASE BeginEdit(r)
  <2>1. UNCHANGED <<row, docs, files, orders, uploads, faults, ghosts>>
    BY <1>5, Zenon DEF BeginEdit
  <2> QED
    BY <1>0, <2>1 DEF SameClaim, ghosts
<1>6. CASE PassGate(r)
  <2>1. UNCHANGED <<row, docs, files, orders, bounds, ghosts>>
    BY <1>6, Zenon DEF PassGate
  <2> QED
    BY <1>0, <2>1 DEF SameClaim, ghosts, bounds
<1>7. CASE ReReadClaim(r)
  BY <1>0, <1>7 DEF ReReadClaim, SameClaim, ghosts
<1>8. CASE PostWorkOrder(r)
  <2>1. UNCHANGED <<row, docs, files, uploads, extras, overlaps, ghosts>>
    BY <1>8, Zenon DEF PostWorkOrder
  <2> QED
    BY <1>0, <1>8, <2>1 DEF SameClaim, ghosts
<1>9. CASE LinkWorkOrder(r)
  BY <1>0, <1>9 DEF LinkWorkOrder, SameClaim, ghosts, bounds, Row
<1>10. CASE PackageForAP(r)
  BY <1>0, <1>10 DEF PackageForAP, SameClaim, bounds
<1>11. CASE GiveUp(r)
  BY <1>0, <1>11 DEF GiveUp, SameClaim, ghosts, bounds
<1> QED
  BY <1>1, <1>2, <1>3, <1>4, <1>5, <1>6, <1>7, <1>8, <1>9, <1>10, <1>11 DEF Begins, Owns

\* A step that lands something makes every read of the others old.
LEMMA Loud ==
  ASSUME Base, NEW r \in Requests, Lands(r)
  PROVE  /\ \A x \in Requests \ {r} : req[x].step \in Reading => req'[x].stale
         /\ UNCHANGED <<orders, bounds>>
         /\ Kept(docs, docs')
         /\ docs' # docs => InsertDoc(r) \/ SoftDelete(r) \/ EditDoc(r)
         /\ files' # files => PutFile(r)
         /\ row' # row => WriteTransition(r) \/ SetCause(r)
         /\ sent' # sent => WriteTransition(r)
         /\ raced' # raced => WriteTransition(r) \/ SoftDelete(r)
         /\ edited' # edited => EditDoc(r)
         /\ reopened' # reopened => WriteTransition(r)
<1> USE DEF Base
<1>0. req[r] \in Request /\ req \in [Requests -> Request] /\ Fits(req[r], docs, uploads)
  BY State DEF NoteInv
<1>1. \E q \in Request : Go(r, q)
  <2>1. CASE WriteTransition(r)
    <3>1. req[r].override => req[r].t[2] \in {"quotes", "parts"}
      BY <1>0, <2>1 DEF WriteTransition, Fits
    <3> QED
      BY <1>0, <2>1, <3>1, AfterTyped DEF WriteTransition
  <2>2. CASE PutFile(r)
    <3>1. [req[r] EXCEPT !.step = "insert"] \in Request
      BY <1>0 DEF Request, Steps
    <3> QED
      BY <2>2, <3>1 DEF PutFile
  <2>3. CASE Go(r, Idle)
    BY <2>3, IdleTyped
  <2> QED
    BY <2>1, <2>2, <2>3 DEF Lands, SetCause, InsertDoc, SoftDelete, EditDoc
<1>2. \A x \in Requests \ {r} : req[x].step \in Reading => req'[x].stale
  BY <1>0, <1>1, GoStep
<1>3. Kept(docs, docs')
  <2>1. docs' = docs => Kept(docs, docs')
    BY DEF Kept
  <2> QED
    BY <2>1, DocSteps DEF Lands, WriteTransition, SetCause, PutFile
<1>4. CASE WriteTransition(r)
  BY <1>2, <1>3, <1>4 DEF WriteTransition
<1>5. CASE SetCause(r)
  BY <1>2, <1>3, <1>5 DEF SetCause, ghosts
<1>6. CASE PutFile(r)
  BY <1>2, <1>3, <1>6 DEF PutFile, ghosts
<1>7. CASE InsertDoc(r)
  BY <1>2, <1>3, <1>7 DEF InsertDoc, ghosts
<1>8. CASE SoftDelete(r)
  BY <1>2, <1>3, <1>8 DEF SoftDelete
<1>9. CASE EditDoc(r)
  BY <1>2, <1>3, <1>9 DEF EditDoc
<1> QED
  BY <1>4, <1>5, <1>6, <1>7, <1>8, <1>9 DEF Lands

\* Documents are never dropped, and uploads only counted up.
LEMMA Growing ==
  ASSUME Base, NEW r \in Requests, Step(r)
  PROVE  Kept(docs, docs') /\ uploads \in Nat /\ uploads' \in Nat /\ uploads <= uploads'
<1>1. uploads \in Nat /\ Kept(docs, docs)
  BY State DEF Base, Kept
<1> QED
  BY <1>1, Quiet, Loud DEF Step, bounds

-----------------------------------------------------------------------------
(* What a step leaves the request it belongs to. *)

\* These steps rely on nothing.
LEMMA Careless ==
  ASSUME NEW q \in Request, q.step \in {"idle", "reread", "post", "link", "cause"}, q.quote = 0,
         NEW ds, NEW n, NEW w, NEW ed
  PROVE  Fits(q, ds, n) /\ Fresh(q, w, ds) /\ Priced(q.quote, q.amount, ds, ed)
BY DEF Fits, Fresh, Priced, Pending

Sound(r) ==
  /\ Fits(req'[r], docs', uploads') /\ Fresh(req'[r], row', docs')
  /\ Priced(req'[r].quote, req'[r].amount, docs', edited')

\* And a request left at one of them is sound.
LEMMA CarelessStep ==
  ASSUME NEW r \in Requests, Typed(r),
         req'[r].step \in {"idle", "reread", "post", "link", "cause"}, req'[r].quote = 0
  PROVE  Sound(r)
BY Careless DEF Sound, Typed

\* A request that begins holds what it begins with.
LEMMA Beginning ==
  ASSUME Base, NEW r \in Requests, NEW q \in Request, Begin(r, q)
  PROVE  req'[r] = q /\ req[r] = Idle
BY OwnStep DEF Begin, Base, TypeOK

\* The types and the invariants of one request, for the leaves below.
LEMMA Mine ==
  ASSUME Base, NEW r \in Requests
  PROVE  /\ req[r] \in Request /\ req[r].amount \in Money /\ req[r].quote \in DocIds \cup {0}
         /\ Fits(req[r], docs, uploads) /\ Fresh(req[r], row, docs)
         /\ Priced(req[r].quote, req[r].amount, docs, edited)
<1>1. req[r] \in Request
  BY State DEF Base
<1>2. req[r].amount \in Money /\ req[r].quote \in DocIds \cup {0}
  BY <1>1 DEF Request
<1> QED
  BY <1>1, <1>2 DEF Base, NoteInv, FreshInv, PriceInv

\* A transition begins by what it has just read.
LEMMA BeginTransitionSound ==
  ASSUME Base, NEW r \in Requests, BeginTransition(r)
  PROVE  Sound(r)
<1>1. PICK t \in Transitions, note, override \in BOOLEAN : Asked(r, t, note, override)
  BY Asking
<1> DEFINE q == AskedRequest(t, note, override)
<1>2. q \in Request /\ Begin(r, q)
  BY <1>1, AskedTyped DEF Asked, Base
<1>3. req'[r] = q
  BY <1>2, Beginning
<1>4. /\ q.step = IF t \in RequiresReceipt \cup RequiresQuote THEN "gate" ELSE "write"
      /\ q.t = t /\ q.note = note /\ q.override = override /\ q.auto = AutoNoFault(t)
      /\ q.quote = (IF t[2] = "pay" THEN row.quote ELSE 0)
      /\ q.amount = (IF t[2] = "pay" THEN row.amount ELSE 0)
  BY DEF AskedRequest, Idle
<1>5. UNCHANGED <<row, docs, uploads, edited>> /\ row \in Row
  BY <1>1, State DEF Asked, ghosts, Base
<1>6. /\ t[1] = row.status /\ Attributed(t, note)
      /\ override => t[2] \in {"quotes", "parts"} /\ ~row.equipment
  BY <1>1 DEF Asked, MayOverride
<1> HIDE DEF q
<1>7. Fits(q, docs, uploads)
  <2>1. t[2] = "pay" => t \notin RequiresReceipt \cup RequiresQuote
    BY Paying
  <2> QED
    BY <1>4, <1>6, <2>1 DEF Fits, Attributed, Pending
<1>8. Fresh(q, row, docs)
  BY <1>4, <1>6 DEF Fresh, AutoNoFault
<1>9. Priced(q.quote, q.amount, docs, edited)
  BY <1>4 DEF Base, PriceInv, Priced
<1> QED
  BY <1>3, <1>5, <1>7, <1>8, <1>9 DEF Sound

\* So do the cause, the uploads, the deletions and the edits.
LEMMA BeginOtherSound ==
  ASSUME Base, NEW r \in Requests, Typed(r),
         BeginCause(r) \/ BeginUpload(r) \/ BeginDelete(r) \/ BeginEdit(r)
  PROVE  Sound(r)
<1>0. /\ row \in Row /\ docs' = docs /\ DOMAIN docs = 1..Len(docs) /\ DOMAIN docs \subseteq DocIds
      /\ req'[r] \in Request /\ MaxDocs \in Nat
  BY State, Quiet, BoundsAssumption DEF Base, Begins, Typed
<1>1. CASE BeginCause(r)
  <2>1. PICK c \in Causes : Begin(r, [Idle EXCEPT !.step = "cause", !.cause = c])
    BY <1>1 DEF BeginCause
  <2>2. req'[r] = [Idle EXCEPT !.step = "cause", !.cause = c]
    <3>1. [Idle EXCEPT !.step = "cause", !.cause = c] \in Request
      BY IdleTyped DEF Idle, Request, Steps
    <3> QED
      BY <2>1, <3>1, Beginning
  <2>3. req'[r].step = "cause" /\ req'[r].quote = 0
    BY <2>2 DEF Idle
  <2> QED
    BY <2>3, CarelessStep
<1>2. CASE BeginUpload(r)
  <2>1. PICK kind \in Kinds :
          /\ uploads < MaxDocs /\ uploads' = uploads + 1
          /\ Begin(r, [Idle EXCEPT !.step = "put", !.kind = kind,
                                   !.number = NextNumber(kind), !.doc = uploads'])
    BY <1>2 DEF BeginUpload
  <2>2. /\ Cardinality(Live(kind)) \in Nat /\ Cardinality(Live(kind)) <= uploads
        /\ uploads \in Nat
    BY LiveCount, State DEF Base
  <2>3. NextNumber(kind) \in DocIds /\ NextNumber(kind) \in Nat /\ uploads' \in DocIds
    BY <2>1, <2>2, <1>0 DEF NextNumber, DocIds
  <2>4. req'[r] = [Idle EXCEPT !.step = "put", !.kind = kind,
                               !.number = NextNumber(kind), !.doc = uploads']
    <3>1. [Idle EXCEPT !.step = "put", !.kind = kind,
                       !.number = NextNumber(kind), !.doc = uploads'] \in Request
      BY <2>3, IdleTyped DEF Idle, Request, Steps
    <3> QED
      BY <2>1, <3>1, Beginning
  <2>5. /\ req'[r].step = "put" /\ req'[r].number \in DocIds /\ req'[r].quote = 0
        /\ req'[r].doc \in 1..uploads'
    BY <2>1, <2>2, <2>3, <2>4 DEF Idle
  <2> QED
    BY <2>5 DEF Sound, Fits, Fresh, Priced, Pending
<1>3. CASE BeginDelete(r)
  <2>1. PICK d \in DOMAIN docs :
          /\ Deletable(d) /\ Begin(r, [Idle EXCEPT !.step = "delete", !.doc = d])
          /\ row' = row
    BY <1>3 DEF BeginDelete
  <2>2. req'[r] = [Idle EXCEPT !.step = "delete", !.doc = d]
    <3>1. [Idle EXCEPT !.step = "delete", !.doc = d] \in Request
      BY <1>0, IdleTyped DEF Idle, Request, Steps
    <3> QED
      BY <2>1, <3>1, Beginning
  <2>3. req'[r].step = "delete" /\ req'[r].doc = d /\ req'[r].quote = 0
    BY <2>2 DEF Idle
  <2>4. row.quote # d
    <3>1. row.quote = d => docs[d].kind = "Quote"
      BY <1>0 DEF Base, PriceInv, Priced
    <3> QED
      BY <2>1, <3>1 DEF Deletable
  <2> QED
    BY <1>0, <2>1, <2>3, <2>4 DEF Sound, Fits, Fresh, Priced, Pending
<1>4. CASE BeginEdit(r)
  <2>1. PICK d \in Live("Quote"), amount \in Amounts :
          Begin(r, [Idle EXCEPT !.step = "edit", !.doc = d, !.amount = amount])
    BY <1>4 DEF BeginEdit
  <2>2. req'[r] = [Idle EXCEPT !.step = "edit", !.doc = d, !.amount = amount]
    <3>1. [Idle EXCEPT !.step = "edit", !.doc = d, !.amount = amount] \in Request
      BY <1>0, IdleTyped DEF Idle, Request, Steps, Live, Money
    <3> QED
      BY <2>1, <3>1, Beginning
  <2>3. /\ req'[r].step = "edit" /\ req'[r].doc = d /\ req'[r].quote = 0
        /\ req'[r].amount = amount
    BY <2>2 DEF Idle
  <2>4. d \in DOMAIN docs /\ docs[d].kind = "Quote" /\ amount # 0
    BY AmountsAssumption DEF Live
  <2> QED
    BY <1>0, <2>3, <2>4 DEF Sound, Fits, Fresh, Priced, Pending
<1> QED
  BY <1>1, <1>2, <1>3, <1>4

\* The gate finds the receipt, or the quote whose approval will be written.
LEMMA PassGateSound ==
  ASSUME Base, NEW r \in Requests, PassGate(r)
  PROVE  Sound(r)
<1> DEFINE q == req[r]
<1>0. /\ UNCHANGED <<row, docs, uploads, edited>> /\ q.step = "gate"
      /\ req \in [Requests -> Request]
  BY State DEF PassGate, bounds, ghosts, Base
<1>1. Fits(q, docs, uploads) /\ Fresh(q, row, docs) /\ Priced(q.quote, q.amount, docs, edited)
      /\ q \in Request
  BY Mine
<1>2. q.t \in Transitions /\ (q.override => q.t[2] \in {"quotes", "parts"})
  BY <1>0, <1>1 DEF Fits
<1>3. CASE q.t \in RequiresReceipt /\ ReceiptOnFile /\ req' = [req EXCEPT ![r].step = "write"]
  <2>1. /\ req'[r].step = "write" /\ req'[r].t = q.t /\ req'[r].override = q.override
        /\ req'[r].auto = q.auto /\ req'[r].quote = q.quote /\ req'[r].amount = q.amount
        /\ req'[r].stale = q.stale
    BY <1>0, <1>1, <1>3 DEF Request
  <2>2. q.t[2] = "paid" /\ q.t \notin RequiresQuote
    BY <1>3, Clearing DEF RequiresReceipt, RequiresQuote
  <2>3. \E d \in DOMAIN docs : docs[d].kind = "Receipt" /\ docs[d].live
    BY <1>3 DEF ReceiptOnFile, Live
  <2> QED
    BY <1>0, <1>1, <1>2, <2>1, <2>2, <2>3 DEF Sound, Fits, Fresh, Pending
<1>4. CASE q.t \in RequiresQuote /\ \E d \in Live("Quote") :
             req' = [req EXCEPT ![r] = [@ EXCEPT !.step = "write", !.quote = d,
                                                 !.amount = docs[d].amount]]
  <2>1. PICK d \in Live("Quote") :
          req'[r] = [q EXCEPT !.step = "write", !.quote = d, !.amount = docs[d].amount]
    BY <1>0, <1>4
  <2>2. /\ req'[r].step = "write" /\ req'[r].t = q.t /\ req'[r].override = q.override
        /\ req'[r].auto = q.auto /\ req'[r].quote = d /\ req'[r].amount = docs[d].amount
        /\ req'[r].stale = q.stale
    BY <1>1, <2>1 DEF Request
  <2>3. q.t[2] = "check" /\ q.t \notin RequiresReceipt
    BY <1>4, Clearing DEF RequiresReceipt, RequiresQuote
  <2>4. /\ d \in DOMAIN docs /\ docs[d].kind = "Quote" /\ docs[d].live
        /\ d # 0 /\ docs[d].amount # 0
    BY State, BoundsAssumption DEF Live, Base, DocInv, DocIds
  <2> QED
    BY <1>0, <1>1, <1>2, <1>4, <2>2, <2>3, <2>4 DEF Sound, Fits, Fresh, Priced, Pending
<1> QED
  BY <1>3, <1>4 DEF PassGate

\* The steps after which nothing is relied on any more.
LEMMA EndingSound ==
  ASSUME Base, NEW r \in Requests, Typed(r),
         \/ ReReadClaim(r) \/ PostWorkOrder(r) \/ LinkWorkOrder(r) \/ PackageForAP(r)
         \/ GiveUp(r) \/ SetCause(r) \/ InsertDoc(r) \/ SoftDelete(r) \/ EditDoc(r)
  PROVE  Sound(r)
<1>1. \/ req'[r] = Idle \/ req'[r] = [Idle EXCEPT !.step = "post"]
      \/ req'[r] = [Idle EXCEPT !.step = "link", !.number = orders']
  <2>1. req \in [Requests -> Request] /\ (Go(r, Idle) => req'[r] = Idle)
    BY State, IdleTyped, GoStep DEF Base
  <2>2. CASE ReReadClaim(r)
    BY <2>1, <2>2 DEF ReReadClaim
  <2>3. CASE PostWorkOrder(r)
    BY <2>1, <2>3 DEF PostWorkOrder
  <2>4. CASE LinkWorkOrder(r) \/ PackageForAP(r) \/ GiveUp(r)
    BY <2>1, <2>4 DEF LinkWorkOrder, PackageForAP, GiveUp
  <2>5. CASE SetCause(r) \/ InsertDoc(r) \/ SoftDelete(r) \/ EditDoc(r)
    BY <2>1, <2>5 DEF SetCause, InsertDoc, SoftDelete, EditDoc
  <2> QED
    BY <2>2, <2>3, <2>4, <2>5
<1>2. req'[r].step \in {"idle", "post", "link"} /\ req'[r].quote = 0
  <2>1. \A n : [Idle EXCEPT !.step = "link", !.number = n].step = "link"
               /\ [Idle EXCEPT !.step = "link", !.number = n].quote = 0
    BY DEF Idle
  <2>2. [Idle EXCEPT !.step = "post"].step = "post" /\ [Idle EXCEPT !.step = "post"].quote = 0
    BY DEF Idle
  <2>3. Idle.step = "idle" /\ Idle.quote = 0
    BY DEF Idle
  <2> QED
    BY <1>1, <2>1, <2>2, <2>3
<1> QED
  BY <1>2, CarelessStep

\* What is written leaves the AP package with the approval that was read.
LEMMA WriteTransitionSound ==
  ASSUME Base, NEW r \in Requests, Typed(r), WriteTransition(r)
  PROVE  Sound(r)
<1> DEFINE q == req[r]
<1>1. q \in Request /\ Fits(q, docs, uploads) /\ Priced(q.quote, q.amount, docs, edited)
  BY Mine
<1>2. /\ q.step = "write" /\ Go(r, After(q)) /\ UNCHANGED <<docs, uploads, edited>>
      /\ q.override => q.t[2] \in {"quotes", "parts"}
  BY <1>1 DEF WriteTransition, bounds, Fits
<1>3. req'[r] = After(q)
  BY <1>1, <1>2, AfterTyped, GoStep, State DEF Base
<1>4. CASE After(q).step # "package"
  BY <1>1, <1>2, <1>3, <1>4, AfterTyped, CarelessStep
<1>5. CASE After(q).step = "package"
  <2>1. /\ q.t[2] = "pay" /\ req'[r].quote = q.quote
        /\ req'[r].amount = q.amount /\ req'[r].note = q.note /\ req'[r].step = "package"
    BY <1>1, <1>2, <1>3, <1>5, AfterTyped
  <2> QED
    BY <1>1, <1>2, <2>1 DEF Sound, Fits, Fresh, Pending
<1> QED
  BY <1>4, <1>5

\* The upload goes on to be recorded.
LEMMA PutFileSound ==
  ASSUME Base, NEW r \in Requests, Typed(r), PutFile(r)
  PROVE  Sound(r)
<1> DEFINE q == req[r]
<1>1. q \in Request /\ Fits(q, docs, uploads) /\ Priced(q.quote, q.amount, docs, edited)
  BY Mine
<1>2. /\ q.step = "put" /\ Go(r, [q EXCEPT !.step = "insert"])
      /\ UNCHANGED <<docs, uploads, edited>>
  BY DEF PutFile, bounds, ghosts
<1>3. req'[r] = [q EXCEPT !.step = "insert"]
  <2>1. [q EXCEPT !.step = "insert"] \in Request
    BY <1>1 DEF Request, Steps
  <2> QED
    BY <1>2, <2>1, GoStep, State DEF Base
<1>4. /\ req'[r].step = "insert" /\ req'[r].doc = q.doc /\ req'[r].number = q.number
      /\ req'[r].quote = q.quote /\ req'[r].amount = q.amount
  BY <1>1, <1>3 DEF Request
<1> QED
  BY <1>1, <1>2, <1>4 DEF Sound, Fits, Fresh, Pending

\* Every step leaves its own request sound.
LEMMA StepSound ==
  ASSUME Base, NEW r \in Requests, Step(r)
  PROVE  Sound(r)
<1>1. Typed(r)
  BY StepTyped
<1> QED
  BY <1>1, BeginTransitionSound, BeginOtherSound, PassGateSound, EndingSound,
     WriteTransitionSound, PutFileSound
  DEF Step, Begins, Owns, Lands

-----------------------------------------------------------------------------
(* What a step leaves the others, and the claim. *)

\* Nothing takes away what a request carries.
LEMMA NoteStep ==
  ASSUME Base, NEW r \in Requests, Step(r)
  PROVE  NoteInv'
<1>1. Typed(r) /\ Sound(r)
  BY StepTyped, StepSound
<1>2. Kept(docs, docs') /\ uploads \in Nat /\ uploads' \in Nat /\ uploads <= uploads'
  BY Growing
<1>3. ASSUME NEW x \in Requests, x # r
      PROVE  Fits(req'[x], docs', uploads')
  <2>1. req[x] \in Request /\ req'[x] \in Request /\ Alike(req[x], req'[x])
    BY <1>1, <1>3 DEF Typed, Others, TypeOK, Base
  <2>2. Fits(req[x], docs, uploads)
    BY DEF Base, NoteInv
  <2> QED
    BY <1>2, <2>1, <2>2, FitsStays
<1> QED
  BY <1>1, <1>3 DEF NoteInv, Sound

\* An approval keeps its price while the documents it does not select change.
LEMMA PricedStays ==
  ASSUME NEW ds, NEW es, Kept(ds, es), NEW ed, NEW fd, ed \subseteq fd,
         NEW quote, NEW amount,
         quote \in DOMAIN ds => es[quote].amount = ds[quote].amount \/ quote \in fd,
         Priced(quote, amount, ds, ed)
  PROVE  Priced(quote, amount, es, fd)
BY DEF Priced, Kept

\* An approval, written or only read, keeps its price until it counts as edited.
LEMMA PriceStep ==
  ASSUME Base, NEW r \in Requests, Step(r)
  PROVE  PriceInv'
<1>1. Typed(r) /\ Sound(r)
  BY StepTyped, StepSound
<1>2. Kept(docs, docs')
  BY Growing
<1>3. edited \subseteq edited'
  BY Quiet, Loud DEF Step, EditDoc
<1>4. ASSUME NEW quote \in DOMAIN docs, quote \in Selected
      PROVE  docs'[quote].amount = docs[quote].amount \/ quote \in edited'
  <2>0. \A d \in DOMAIN docs : docs[d] \in Doc
    BY State DEF Base
  <2>1. CASE InsertDoc(r)
    BY <2>1, DocSteps
  <2>2. CASE SoftDelete(r)
    <3>1. docs' = [docs EXCEPT ![req[r].doc].live = FALSE]
      BY <2>2, DocSteps
    <3> QED
      BY <3>1, <2>0 DEF Doc
  <2>3. CASE EditDoc(r)
    <3>1. docs' = [docs EXCEPT ![req[r].doc].amount = req[r].amount]
      BY <2>3, DocSteps
    <3>2. req[r].doc \in Selected => req[r].doc \in edited'
      BY <2>3 DEF EditDoc
    <3> QED
      BY <3>1, <3>2, <1>4, <2>0 DEF Doc
  <2>4. CASE docs' = docs
    BY <2>4
  <2> QED
    BY <2>1, <2>2, <2>3, <2>4, Quiet, Loud DEF Step
<1>5. ASSUME NEW x \in Requests, x # r
      PROVE  Priced(req'[x].quote, req'[x].amount, docs', edited')
  <2>1. req'[x].quote = req[x].quote /\ req'[x].amount = req[x].amount
    BY <1>1, <1>5 DEF Typed, Others, Alike
  <2>2. req[x].quote \in Selected /\ Priced(req[x].quote, req[x].amount, docs, edited)
    BY DEF Selected, Base, PriceInv
  <2>3. Priced(req[x].quote, req[x].amount, docs', edited')
    BY <1>2, <1>3, <1>4, <2>2, PricedStays
  <2> QED
    BY <2>1, <2>3
<1>6. Priced(row.quote, row.amount, docs', edited')
  <2>1. row.quote \in Selected /\ Priced(row.quote, row.amount, docs, edited)
    BY DEF Selected, Base, PriceInv
  <2> QED
    BY <1>2, <1>3, <1>4, <2>1, PricedStays
<1>7. Priced(row'.quote, row'.amount, docs', edited')
  <2>1. CASE row'.quote = row.quote /\ row'.amount = row.amount
    BY <1>6, <2>1
  <2>2. CASE WriteTransition(r)
    <3> DEFINE q == req[r]
    <3>1. q \in Request /\ q.t \in Transitions /\ row' = Updated(q)
          /\ Priced(q.quote, q.amount, docs, edited) /\ docs' = docs /\ edited' = edited
      BY <2>2, Mine DEF WriteTransition, Fits
    <3>2. row'.quote = Approval(q).quote /\ row'.amount = Approval(q).amount
      BY <3>1, UpdatedTyped DEF Base
    <3>3. \/ Approval(q) = [amount |-> 0, quote |-> 0]
          \/ Approval(q) = [amount |-> q.amount, quote |-> q.quote]
          \/ Approval(q) = [amount |-> row.amount, quote |-> row.quote]
      BY DEF Approval
    <3> QED
      BY <3>1, <3>2, <3>3, <1>6 DEF Priced
  <2>3. CASE SetCause(r)
    BY <2>3, <1>6, State DEF SetCause, Base, Row
  <2> QED
    BY <2>1, <2>2, <2>3, Quiet, Loud DEF Step, SameClaim
<1> QED
  BY <1>1, <1>5, <1>7 DEF PriceInv, Sound

\* What a request has read is as it was, until something lands.
LEMMA FreshStep ==
  ASSUME Base, NEW r \in Requests, Step(r)
  PROVE  FreshInv'
<1>1. Typed(r) /\ Sound(r)
  BY StepTyped, StepSound
<1>2. ASSUME NEW x \in Requests, x # r
      PROVE  Fresh(req'[x], row', docs')
  <2>1. Alike(req[x], req'[x]) /\ Fresh(req[x], row, docs)
    BY <1>1, <1>2 DEF Typed, Others, Base, FreshInv
  <2>2. CASE Begins(r) \/ Owns(r)
    BY <2>1, <2>2, Quiet DEF Fresh, Alike, SameClaim
  <2>3. CASE Lands(r)
    <3>1. req[x].step \in Reading => req'[x].stale
      BY <1>2, <2>3, Loud
    <3> QED
      BY <2>1, <3>1 DEF Fresh, Alike, Reading
  <2> QED
    BY <2>2, <2>3 DEF Step
<1> QED
  BY <1>1, <1>2 DEF FreshInv, Sound

-----------------------------------------------------------------------------
(* Uploads. *)

\* Where each step leaves its request.
LEMMA StepAfter ==
  ASSUME Base, NEW r \in Requests
  PROVE  /\ BeginTransition(r) => req'[r].step \in {"gate", "write"}
         /\ BeginCause(r) => req'[r].step = "cause"
         /\ BeginDelete(r) => req'[r].step = "delete"
         /\ BeginEdit(r) => req'[r].step = "edit"
         /\ PassGate(r) => req'[r].step = "write"
         /\ ReReadClaim(r) => req'[r].step \in {"idle", "post"}
         /\ PostWorkOrder(r) => req'[r].step \in {"idle", "link"}
         /\ LinkWorkOrder(r) \/ PackageForAP(r) \/ GiveUp(r) => req'[r].step = "idle"
         /\ WriteTransition(r) =>
              /\ req'[r].step \in {"idle", "reread", "package"}
              /\ req'[r].step = "reread" => req[r].override
         /\ SetCause(r) \/ InsertDoc(r) \/ SoftDelete(r) \/ EditDoc(r) => req'[r].step = "idle"
         /\ PutFile(r) => /\ req[r].step = "put" /\ req'[r].step = "insert"
                          /\ req'[r].doc = req[r].doc /\ req'[r].number = req[r].number
                          /\ req'[r].kind = req[r].kind
<1> USE DEF Base
<1>0. req[r] \in Request /\ req \in [Requests -> Request]
  BY State
<1>1. BeginTransition(r) => req'[r].step \in {"gate", "write"}
  <2> SUFFICES ASSUME BeginTransition(r) PROVE req'[r].step \in {"gate", "write"}
    OBVIOUS
  <2>1. PICK t \in Transitions, note, override \in BOOLEAN : Asked(r, t, note, override)
    BY Asking
  <2>2. req'[r] = AskedRequest(t, note, override)
    BY <2>1, AskedTyped, Beginning DEF Asked
  <2> QED
    BY <2>2 DEF AskedRequest, Idle
<1>2. BeginCause(r) => req'[r].step = "cause"
  BY <1>0 DEF BeginCause, Begin, Idle
<1>3. BeginDelete(r) => req'[r].step = "delete"
  BY <1>0 DEF BeginDelete, Begin, Idle
<1>4. BeginEdit(r) => req'[r].step = "edit"
  BY <1>0 DEF BeginEdit, Begin, Idle
<1>5. PassGate(r) => req'[r].step = "write"
  BY <1>0 DEF PassGate, Request
<1>6. ReReadClaim(r) => req'[r].step \in {"idle", "post"}
  BY <1>0 DEF ReReadClaim, Idle
<1>6a. PostWorkOrder(r) => req'[r].step \in {"idle", "link"}
  <2> SUFFICES ASSUME PostWorkOrder(r) PROVE req'[r].step \in {"idle", "link"}
    OBVIOUS
  <2>1. req' = [req EXCEPT ![r] = Idle]
        \/ req' = [req EXCEPT ![r] = [Idle EXCEPT !.step = "link", !.number = orders']]
    BY DEF PostWorkOrder
  <2>2. \A n : [Idle EXCEPT !.step = "link", !.number = n].step = "link"
    BY DEF Idle
  <2>3. req'[r] = Idle
        \/ req'[r] = [Idle EXCEPT !.step = "link", !.number = orders']
    BY <1>0, <2>1
  <2>4. Idle.step = "idle"
    BY DEF Idle
  <2> QED
    BY <2>2, <2>3, <2>4
<1>7. LinkWorkOrder(r) \/ PackageForAP(r) \/ GiveUp(r) => req'[r].step = "idle"
  BY <1>0 DEF LinkWorkOrder, PackageForAP, GiveUp, Idle
<1>8. WriteTransition(r) => /\ req'[r].step \in {"idle", "reread", "package"}
                            /\ req'[r].step = "reread" => req[r].override
  <2> SUFFICES ASSUME WriteTransition(r)
               PROVE  /\ req'[r].step \in {"idle", "reread", "package"}
                      /\ req'[r].step = "reread" => req[r].override
    OBVIOUS
  <2>1. req[r].override => req[r].t[2] \in {"quotes", "parts"}
    BY Mine DEF WriteTransition, Fits
  <2>2. req'[r] = After(req[r])
    BY <1>0, <2>1, AfterTyped, GoStep DEF WriteTransition
  <2> QED
    BY <1>0, <2>1, <2>2, AfterTyped
<1>9. SetCause(r) \/ InsertDoc(r) \/ SoftDelete(r) \/ EditDoc(r) => req'[r].step = "idle"
  BY <1>0, IdleTyped, GoStep DEF SetCause, InsertDoc, SoftDelete, EditDoc, Idle
<1>10. PutFile(r) => /\ req[r].step = "put" /\ req'[r].step = "insert"
                     /\ req'[r].doc = req[r].doc /\ req'[r].number = req[r].number
                     /\ req'[r].kind = req[r].kind
  <2> SUFFICES ASSUME PutFile(r)
               PROVE  /\ req[r].step = "put" /\ req'[r].step = "insert"
                      /\ req'[r].doc = req[r].doc /\ req'[r].number = req[r].number
                      /\ req'[r].kind = req[r].kind
    OBVIOUS
  <2>1. [req[r] EXCEPT !.step = "insert"] \in Request
    BY <1>0 DEF Request, Steps
  <2>2. req'[r] = [req[r] EXCEPT !.step = "insert"]
    BY <1>0, <2>1, GoStep DEF PutFile
  <2> QED
    BY <1>0, <2>2 DEF PutFile, Request
<1> QED
  BY <1>1, <1>2, <1>3, <1>4, <1>5, <1>6, <1>6a, <1>7, <1>8, <1>9, <1>10

\* A request has an upload on its way from BeginUpload on, until it is recorded.
LEMMA Uploading ==
  ASSUME Base, NEW r \in Requests, Step(r), Pending(req'[r])
  PROVE  \/ BeginUpload(r)
         \/ /\ PutFile(r) /\ req[r].step = "put" /\ req'[r].step = "insert"
            /\ req'[r].doc = req[r].doc /\ req'[r].number = req[r].number
            /\ req'[r].kind = req[r].kind
BY StepAfter DEF Step, Begins, Owns, Lands, Pending

\* What an upload begins with.
LEMMA Numbering ==
  ASSUME Base, NEW r \in Requests, BeginUpload(r)
  PROVE  \E kind \in Kinds :
           /\ uploads' = uploads + 1 /\ req[r] = Idle
           /\ req'[r].step = "put" /\ req'[r].kind = kind /\ req'[r].doc = uploads'
           /\ req'[r].number = Cardinality(Live(kind)) + 1
           /\ (\E x \in Requests : Pending(req[x]) /\ req[x].kind = kind) => "file" \in raced'
           /\ UNCHANGED <<docs, files>>
<1>1. PICK kind \in Kinds :
        /\ uploads' = uploads + 1
        /\ Begin(r, [Idle EXCEPT !.step = "put", !.kind = kind,
                                 !.number = NextNumber(kind), !.doc = uploads'])
        /\ raced' = IF \E x \in Requests : req[x].step \in {"put", "insert"} /\ req[x].kind = kind
                    THEN raced \cup {"file"} ELSE raced
        /\ UNCHANGED <<docs, files>>
  BY Zenon DEF BeginUpload
<1>2. req[r] = Idle /\ req' = [req EXCEPT ![r] =
        [Idle EXCEPT !.step = "put", !.kind = kind, !.number = NextNumber(kind), !.doc = uploads']]
  BY <1>1 DEF Begin
<1>3. req'[r] = [Idle EXCEPT !.step = "put", !.kind = kind,
                             !.number = NextNumber(kind), !.doc = uploads']
  BY <1>2, State DEF Base
<1>4. /\ req'[r].step = "put" /\ req'[r].kind = kind /\ req'[r].doc = uploads'
      /\ req'[r].number = Cardinality(Live(kind)) + 1
  BY <1>3 DEF Idle, NextNumber
<1>5. (\E x \in Requests : Pending(req[x]) /\ req[x].kind = kind) => "file" \in raced'
  BY <1>1 DEF Pending
<1> QED
  BY <1>1, <1>2, <1>4, <1>5

\* The document InsertDoc appends.
LEMMA Inserted ==
  ASSUME Base, NEW r \in Requests, InsertDoc(r)
  PROVE  /\ Len(docs') = Len(docs) + 1 /\ \A d \in DOMAIN docs : docs'[d] = docs[d]
         /\ DOMAIN docs' = DOMAIN docs \cup {Len(docs')}
         /\ \E amount \in Money :
              /\ req[r].kind = "Quote" => amount # 0
              /\ Len(docs') = Len(docs) + 1 /\ \A d \in DOMAIN docs : docs'[d] = docs[d]
              /\ docs'[Len(docs')].kind = req[r].kind /\ docs'[Len(docs')].amount = amount
              /\ docs'[Len(docs')].upload = req[r].doc
         /\ docs'[Len(docs')].kind = req[r].kind /\ docs'[Len(docs')].live
         /\ docs'[Len(docs')].key = <<req[r].kind, req[r].number>>
         /\ docs'[Len(docs')].upload = req[r].doc
<1> DEFINE new(amount) == [kind |-> req[r].kind, amount |-> amount, live |-> TRUE,
                 key |-> <<req[r].kind, req[r].number>>, upload |-> req[r].doc]
<1>1. docs' \in Seq(Doc) /\ \E amount \in Money :
        /\ req[r].kind = "Quote" => amount # 0
        /\ Len(docs') = Len(docs) + 1 /\ \A d \in DOMAIN docs : docs'[d] = docs[d]
        /\ docs'[Len(docs')] = new(amount)
  BY DocSteps, Zenon
<1>2. PICK amount \in Money :
        /\ req[r].kind = "Quote" => amount # 0
        /\ Len(docs') = Len(docs) + 1 /\ \A d \in DOMAIN docs : docs'[d] = docs[d]
        /\ docs'[Len(docs')] = new(amount)
  BY <1>1
<1>3. /\ new(amount).kind = req[r].kind /\ new(amount).amount = amount
      /\ new(amount).upload = req[r].doc /\ new(amount).live
      /\ new(amount).key = <<req[r].kind, req[r].number>>
  OBVIOUS
<1>4. DOMAIN docs' = DOMAIN docs \cup {Len(docs')}
  BY <1>1, <1>2, State DEF Base
<1> HIDE DEF new
<1> QED
  BY <1>2, <1>3, <1>4

\* A quote on file has an amount, and every document its upload.
LEMMA DocStep ==
  ASSUME Base, NEW r \in Requests, Step(r)
  PROVE  DocInv'
<1> USE DEF Base
<1>0. /\ \A d \in DOMAIN docs : docs[d] \in Doc
      /\ DOMAIN docs = 1..Len(docs) /\ Len(docs) \in Nat
      /\ uploads \in Nat /\ uploads' \in Nat /\ uploads <= uploads'
  BY State, Growing
<1>1. CASE docs' = docs
  BY <1>0, <1>1 DEF DocInv
<1>2. CASE InsertDoc(r)
  <2>1. /\ Fits(req[r], docs, uploads) /\ req[r].step = "insert" /\ uploads' = uploads
    BY <1>2, Mine DEF InsertDoc, bounds
  <2>2. req[r].doc \in 1..uploads
    BY <2>1 DEF Fits, Pending
  <2>3. PICK amount \in Money :
          /\ req[r].kind = "Quote" => amount # 0
          /\ Len(docs') = Len(docs) + 1 /\ \A d \in DOMAIN docs : docs'[d] = docs[d]
          /\ docs'[Len(docs')].kind = req[r].kind /\ docs'[Len(docs')].amount = amount
          /\ docs'[Len(docs')].upload = req[r].doc
    BY <1>2, Inserted
  <2>4. docs' \in Seq(Doc)
    BY <1>2, DocSteps
  <2>5. DOMAIN docs' = DOMAIN docs \cup {Len(docs')}
    BY <1>0, <2>3, <2>4
  <2> QED
    BY <2>1, <2>2, <2>3, <2>5 DEF DocInv
<1>3. CASE SoftDelete(r)
  <2>1. docs' = [docs EXCEPT ![req[r].doc].live = FALSE] /\ DOMAIN docs' = DOMAIN docs
        /\ uploads' = uploads
    BY <1>3, DocSteps DEF SoftDelete, bounds
  <2> QED
    BY <1>0, <2>1 DEF DocInv, Doc
<1>4. CASE EditDoc(r)
  <2>1. docs' = [docs EXCEPT ![req[r].doc].amount = req[r].amount] /\ DOMAIN docs' = DOMAIN docs
        /\ uploads' = uploads
    BY <1>4, DocSteps DEF EditDoc, bounds
  <2>2. req[r].amount # 0
    BY <1>4, Mine DEF EditDoc, Fits
  <2> QED
    BY <1>0, <2>1, <2>2 DEF DocInv, Doc
<1> QED
  BY <1>1, <1>2, <1>3, <1>4, Quiet, Loud DEF Step

\* No two documents, recorded or on their way, are of one upload.
LEMMA DistinctStep ==
  ASSUME Base, NEW r \in Requests, Step(r)
  PROVE  Distinct'
<1> USE DEF Base
<1>0. /\ docs' \in Seq(Doc) /\ DOMAIN docs = 1..Len(docs) /\ Len(docs) \in Nat
      /\ uploads \in Nat /\ uploads' \in Nat
      /\ Kept(docs, docs')
  BY State, StepTyped, Growing DEF Typed, TypeOK
<1>1. \A x \in Requests \ {r} : /\ Pending(req'[x]) <=> Pending(req[x])
                                /\ req'[x].doc = req[x].doc
  BY StepTyped DEF Typed, Others, Alike, Pending
<1>2. \A x \in Requests : Pending(req[x]) => req[x].doc \in 1..uploads
  BY DEF NoteInv, Fits
<1>3. CASE InsertDoc(r)
  <2>1. Pending(req[r]) /\ ~Pending(req'[r])
    <3>1. ~BeginUpload(r) /\ ~PutFile(r)
      <4>1. BeginUpload(r) => req[r].step = "idle"
        BY Numbering DEF Idle
      <4> QED
        BY <1>3, <4>1 DEF InsertDoc, PutFile
    <3> QED
      BY <1>3, <3>1, Uploading DEF InsertDoc, Pending
  <2>2. /\ Len(docs') = Len(docs) + 1 /\ \A d \in DOMAIN docs : docs'[d] = docs[d]
        /\ docs'[Len(docs')].upload = req[r].doc
    BY <1>3, Inserted
  <2>3. DOMAIN docs' = DOMAIN docs \cup {Len(docs')}
    BY <1>0, <2>2
  <2>4. \A d, e \in DOMAIN docs' : docs'[d].upload = docs'[e].upload => d = e
    BY <2>1, <2>2, <2>3 DEF Distinct
  <2>5. ASSUME NEW x \in Requests, Pending(req'[x])
        PROVE  /\ \A d \in DOMAIN docs' : docs'[d].upload # req'[x].doc
               /\ \A s \in Requests : Pending(req'[s]) /\ req'[x].doc = req'[s].doc => x = s
    <3>1. x # r /\ Pending(req[x]) /\ req'[x].doc = req[x].doc
      BY <1>1, <2>1, <2>5
    <3> QED
      BY <1>1, <2>1, <2>2, <2>3, <3>1 DEF Distinct
  <2> QED
    BY <2>4, <2>5 DEF Distinct
<1>4. CASE ~InsertDoc(r)
  <2>1. DOMAIN docs' = DOMAIN docs /\ \A d \in DOMAIN docs : docs'[d].upload = docs[d].upload
    <3>1. DOMAIN docs' = DOMAIN docs
      BY <1>4, DocSteps, Quiet, Loud DEF Step
    <3> QED
      BY <1>0, <3>1 DEF Kept
  <2>2. CASE BeginUpload(r)
    <3>1. req'[r].doc = uploads + 1 /\ ~Pending(req[r])
      BY <2>2, Numbering DEF Pending, Idle
    <3>2. \A d \in DOMAIN docs : docs[d].upload \in 1..uploads
      BY DEF DocInv
    <3>3. ASSUME NEW x \in Requests, Pending(req'[x])
          PROVE  /\ \A d \in DOMAIN docs' : docs'[d].upload # req'[x].doc
                 /\ \A s \in Requests : Pending(req'[s]) /\ req'[x].doc = req'[s].doc => x = s
      <4>1. CASE x = r
        BY <1>0, <1>1, <1>2, <2>1, <3>1, <3>2, <3>3, <4>1
      <4>2. CASE x # r
        BY <1>0, <1>1, <1>2, <2>1, <3>1, <3>2, <3>3, <4>2 DEF Distinct
      <4> QED
        BY <4>1, <4>2
    <3> QED
      BY <2>1, <3>3 DEF Distinct
  <2>3. CASE ~BeginUpload(r)
    <3>1. Pending(req'[r]) => Pending(req[r]) /\ req'[r].doc = req[r].doc
      BY <2>3, Uploading DEF Pending
    <3>2. \A x \in Requests : Pending(req'[x]) => Pending(req[x]) /\ req'[x].doc = req[x].doc
      BY <1>1, <3>1
    <3> QED
      BY <2>1, <3>2 DEF Distinct
  <2> QED
    BY <2>2, <2>3
<1> QED
  BY <1>3, <1>4

\* The part of the invariant that the requests rely on is inductive by itself.
LEMMA BaseStep ==
  ASSUME Base, NEW r \in Requests, Step(r)
  PROVE  Base'
BY StepTyped, NoteStep, DocStep, PriceStep, FreshStep, DistinctStep DEF Typed, Base

\* It holds when the claim is filed.
LEMMA BaseInit == Init => Base
<1> SUFFICES ASSUME Init PROVE Base
  OBVIOUS
<1>1. row \in Row /\ row.quote = 0
  BY DEF Init, Row, Statuses, Money, Causes
<1>2. docs = <<>> /\ req = [r \in Requests |-> Idle]
  BY DEF Init
<1>3. docs \in Seq(Doc) /\ Len(docs) = 0 /\ DOMAIN docs = {} /\ MaxDocs \in Nat
  BY <1>2, BoundsAssumption
<1>4. TypeOK
  <2>1. files \in [Keys -> 0..MaxDocs] /\ req \in [Requests -> Request]
    BY <1>2, <1>3, IdleTyped DEF Init
  <2>2. /\ orders \in Nat
        /\ uploads \in 0..MaxDocs /\ extras \in 0..MaxExtras
        /\ overlaps \in 0..MaxOverlaps /\ faults \in 0..MaxFaults
    BY BoundsAssumption DEF Init
  <2>3. sent = {} /\ reopened = FALSE /\ edited = {} /\ raced = {}
    BY DEF Init
  <2>4. sent \subseteq Sent /\ reopened \in BOOLEAN /\ edited \subseteq DocIds
        /\ raced \subseteq {"override", "quote", "file", "approval"}
    BY <2>3, Zenon
  <2> QED
    BY <1>1, <1>3, <2>1, <2>2, <2>4 DEF TypeOK
<1>5. \A r \in Requests :
        /\ Fits(req[r], docs, uploads) /\ Fresh(req[r], row, docs)
        /\ Priced(req[r].quote, req[r].amount, docs, edited) /\ ~Pending(req[r])
  BY <1>2 DEF Fits, Fresh, Priced, Pending, Idle
<1> QED
  BY <1>1, <1>3, <1>4, <1>5
  DEF Base, NoteInv, DocInv, PriceInv, FreshInv, Distinct, Priced

-----------------------------------------------------------------------------
(* Approvals and check requests. *)

\* What was broken stays on record.
LEMMA RacedGrows ==
  ASSUME Base, NEW r \in Requests, Step(r)
  PROVE  raced \subseteq raced'
<1>1. BeginUpload(r) => raced \subseteq raced'
  BY Zenon DEF BeginUpload
<1>2. WriteTransition(r) => raced \subseteq raced'
  BY DEF WriteTransition
<1>3. SoftDelete(r) => raced \subseteq raced'
  BY DEF SoftDelete
<1> QED
  BY <1>1, <1>2, <1>3, Quiet, Loud DEF Step

\* What WriteTransition writes, and what it breaks when it was judged on an old read.
LEMMA Written ==
  ASSUME Base, NEW r \in Requests, WriteTransition(r)
  PROVE  /\ req[r] \in Request /\ req[r].t \in Transitions /\ row.equipment \in BOOLEAN
         /\ req[r].override \in BOOLEAN
         /\ row'.status = req[r].t[2]
         /\ row'.equipment = (row.equipment \/ req[r].override)
         /\ row'.cause = IF req[r].auto THEN "noFault" ELSE row.cause
         /\ req[r].t \in Clears => row'.quote = 0 /\ row'.amount = 0 /\ ~reopened'
         /\ req[r].t \in RequiresQuote =>
              /\ row'.quote = req[r].quote /\ row'.amount = req[r].amount
              /\ req[r].quote # 0 /\ req[r].amount # 0
              /\ docs[req[r].quote].live \/ "quote" \in raced'
         /\ req[r].t \notin Clears \cup RequiresQuote =>
              /\ row'.quote = row.quote /\ row'.amount = row.amount
              /\ reopened' = (reopened \/ req[r].t = <<"noanswer", "check">>)
         /\ req[r].t[1] = row.status \/ "approval" \in raced'
         /\ req[r].override => ~row.equipment \/ "override" \in raced'
         /\ docs' = docs
<1> DEFINE q == req[r]
<1>1. /\ q \in Request /\ q.step = "write" /\ q.t \in Transitions
      /\ Fits(q, docs, uploads) /\ Fresh(q, row, docs) /\ row \in Row
  BY Mine, State DEF WriteTransition, Fits, Base
<1>2. row' = Updated(q) /\ docs' = docs
      /\ reopened' = (IF q.t \in Clears \cup RequiresQuote THEN FALSE
                      ELSE reopened \/ q.t = <<"noanswer", "check">>)
      /\ raced' = (IF q.stale THEN raced \cup Broken(q) ELSE raced)
  BY DEF WriteTransition
<1>3. /\ row'.status = q.t[2] /\ row'.equipment = (row.equipment \/ q.override)
      /\ row'.cause = (IF q.auto THEN "noFault" ELSE row.cause)
      /\ row'.amount = Approval(q).amount /\ row'.quote = Approval(q).quote
  BY <1>1, <1>2, UpdatedTyped DEF Base
<1>4. ASSUME q.t \in Clears PROVE row'.quote = 0 /\ row'.amount = 0 /\ ~reopened'
  <2>1. Approval(q) = [amount |-> 0, quote |-> 0]
    BY <1>4, Clearing DEF Approval
  <2> QED
    BY <1>2, <1>3, <1>4, <2>1
<1>5. ASSUME q.t \in RequiresQuote
      PROVE  /\ row'.quote = q.quote /\ row'.amount = q.amount
             /\ q.quote # 0 /\ q.amount # 0
  <2>1. Approval(q) = [amount |-> q.amount, quote |-> q.quote]
    BY <1>5, Clearing DEF Approval
  <2>2. q.quote # 0 /\ q.amount # 0
    BY <1>1, <1>5 DEF Fits
  <2> QED
    BY <1>3, <2>1, <2>2
<1>6. ASSUME q.t \notin Clears \cup RequiresQuote
      PROVE  /\ row'.quote = row.quote /\ row'.amount = row.amount
             /\ reopened' = (reopened \/ q.t = <<"noanswer", "check">>)
  <2>1. Approval(q) = [amount |-> row.amount, quote |-> row.quote]
    BY <1>6 DEF Approval
  <2> QED
    BY <1>2, <1>3, <1>6, <2>1
<1>7. /\ q.t \in RequiresQuote => docs[q.quote].live \/ "quote" \in raced'
      /\ q.t[1] = row.status \/ "approval" \in raced'
      /\ q.override => ~row.equipment \/ "override" \in raced'
  <2>1. CASE q.stale
    BY <1>2, <2>1 DEF Broken
  <2>2. CASE ~q.stale
    BY <1>1, <2>2 DEF Fresh
  <2> QED
    BY <2>1, <2>2
<1>8. row.equipment \in BOOLEAN /\ q.override \in BOOLEAN
  BY <1>1 DEF Row, Request
<1> QED
  BY <1>1, <1>2, <1>3, <1>4, <1>5, <1>6, <1>7, <1>8

\* Only a deletion or an approval, judged on an old read, loses the approved quote.
LEMMA QuoteStep ==
  ASSUME Base, ApprovedQuoteStays, NEW r \in Requests, Step(r)
  PROVE  ApprovedQuoteStays'
<1>0. /\ raced \subseteq raced' /\ row \in Row /\ \A d \in DOMAIN docs : docs[d] \in Doc
      /\ row.quote # 0 => row.quote \in DOMAIN docs
  BY RacedGrows, State DEF Base, PriceInv, Priced
<1>1. CASE row'.quote = row.quote /\ docs' = docs
  BY <1>0, <1>1 DEF ApprovedQuoteStays
<1>2. CASE WriteTransition(r)
  BY <1>0, <1>2, Written DEF ApprovedQuoteStays
<1>3. CASE InsertDoc(r)
  <2>1. row' = row /\ \A d \in DOMAIN docs : docs'[d] = docs[d]
    BY <1>3, Inserted DEF InsertDoc
  <2> QED
    BY <1>0, <2>1 DEF ApprovedQuoteStays
<1>4. CASE SoftDelete(r)
  <2>1. /\ row' = row /\ docs' = [docs EXCEPT ![req[r].doc].live = FALSE]
        /\ raced' = IF req[r].stale /\ row.quote = req[r].doc THEN raced \cup {"quote"} ELSE raced
    BY <1>4, DocSteps DEF SoftDelete
  <2>2. row.quote = req[r].doc => req[r].stale
    BY <1>4, Mine DEF SoftDelete, Fresh
  <2>3. CASE row.quote = req[r].doc
    BY <2>1, <2>2, <2>3 DEF ApprovedQuoteStays
  <2>4. CASE row.quote # req[r].doc
    BY <1>0, <2>1, <2>4 DEF ApprovedQuoteStays
  <2> QED
    BY <2>3, <2>4
<1>5. CASE EditDoc(r)
  <2>1. row' = row /\ docs' = [docs EXCEPT ![req[r].doc].amount = req[r].amount]
    BY <1>5, DocSteps DEF EditDoc
  <2> QED
    BY <1>0, <2>1 DEF ApprovedQuoteStays, Doc
<1>6. SetCause(r) => row'.quote = row.quote
  BY <1>0 DEF SetCause, Row
<1> QED
  BY <1>1, <1>2, <1>3, <1>4, <1>5, <1>6, Quiet, Loud DEF Step, SameClaim

\* Only a transition judged on an old status splits an approval from its status.
LEMMA PaymentStep ==
  ASSUME Base, PaymentIsApproved, NEW r \in Requests, Step(r)
  PROVE  PaymentIsApproved'
<1>0. raced \subseteq raced' /\ row \in Row
  BY RacedGrows, State DEF Base
<1>1. CASE WriteTransition(r)
  <2> DEFINE t == req[r].t
  <2>1. CASE "approval" \in raced'
    BY <2>1 DEF PaymentIsApproved
  <2>2. CASE "approval" \notin raced'
    <3>1. /\ t \in Transitions /\ t[1] = row.status /\ row'.status = t[2]
      BY <1>1, <2>2, Written
    <3>2. CASE t \in Clears
      BY <1>1, <3>1, <3>2, Written, Clearing DEF PaymentIsApproved
    <3>3. CASE t \in RequiresQuote
      BY <1>1, <3>1, <3>3, Written, Clearing DEF PaymentIsApproved, Chain
    <3>4. CASE t \notin Clears \cup RequiresQuote
      <4>1. /\ row'.quote = row.quote /\ row'.amount = row.amount
            /\ reopened' = (reopened \/ t = <<"noanswer", "check">>)
        BY <1>1, <3>4, Written
      <4>2. /\ row'.status \in Chain => row.status \in Chain \/ t = <<"noanswer", "check">>
            /\ row.status \in Chain \cup {"paid"} => row'.status \in Chain \cup {"paid"}
        BY <3>1, <3>4, Keeping
      <4> QED
        BY <1>0, <2>2, <4>1, <4>2 DEF PaymentIsApproved
    <3> QED
      BY <3>2, <3>3, <3>4
  <2> QED
    BY <2>1, <2>2
<1>2. CASE ~WriteTransition(r)
  <2>1. SetCause(r) => /\ row'.status = row.status /\ row'.quote = row.quote
                       /\ row'.amount = row.amount
    BY <1>0 DEF SetCause, Row
  <2>2. /\ row'.status = row.status /\ row'.quote = row.quote /\ row'.amount = row.amount
        /\ reopened' = reopened
    BY <1>2, <2>1, Quiet, Loud DEF Step, SameClaim
  <2> QED
    BY <1>0, <2>2 DEF PaymentIsApproved
<1> QED
  BY <1>1, <1>2

\* Only an edit or a deletion splits the check request from its approval.
LEMMA CheckStep ==
  ASSUME Base, ChecksAreApproved, NEW r \in Requests, Step(r)
  PROVE  ChecksAreApproved'
<1>1. CASE PackageForAP(r)
  <2> DEFINE q == req[r]
             form(first) == [amount |-> docs[first].amount, approved |-> q.amount,
                             note |-> q.note, edited |-> first \in edited,
                             substitute |-> first # q.quote]
  <2>1. sent' = {} \/ \E first \in DOMAIN docs : sent' = {form(first)}
    BY <1>1 DEF PackageForAP, Live
  <2>2. ASSUME NEW first \in DOMAIN docs, sent' = {form(first)}
        PROVE  ChecksAreApproved'
    <3>1. /\ q.step = "package" /\ Fits(q, docs, uploads)
          /\ Priced(q.quote, q.amount, docs, edited) /\ q.amount \in Money
      BY <1>1, Mine DEF PackageForAP
    <3>2. q.amount >= Threshold => q.note
      BY <3>1 DEF Fits
    <3>3. first = q.quote => first \in edited \/ docs[first].amount = q.amount
      <4>1. first \in DocIds
        BY State DEF Base
      <4> QED
        BY <3>1, <4>1, BoundsAssumption DEF Priced, DocIds
    <3>4. /\ form(first).amount = docs[first].amount /\ form(first).approved = q.amount
          /\ form(first).note = q.note /\ form(first).edited = (first \in edited)
          /\ form(first).substitute = (first # q.quote)
      OBVIOUS
    <3> HIDE DEF form
    <3> QED
      BY <2>2, <3>2, <3>3, <3>4 DEF ChecksAreApproved
  <2>3. CASE sent' = {}
    BY <2>3 DEF ChecksAreApproved
  <2> QED
    BY <2>1, <2>2, <2>3
<1>2. CASE WriteTransition(r)
  BY <1>2 DEF WriteTransition, ChecksAreApproved
<1>3. CASE sent' = sent
  BY <1>3 DEF ChecksAreApproved
<1> QED
  BY <1>1, <1>2, <1>3, Quiet, Loud DEF Step

-----------------------------------------------------------------------------
(* Work orders. *)

\* A request is opening a work order from its override on.
LEMMA OpeningAfter ==
  ASSUME Base, NEW r \in Requests, Step(r), req'[r].step \in Opening \cup {"link"}
  PROVE  \/ /\ WriteTransition(r) /\ req[r].override /\ req'[r].step = "reread"
         \/ /\ ReReadClaim(r) /\ req[r].step = "reread" /\ req'[r].step = "post"
         \/ /\ PostWorkOrder(r) /\ req[r].step = "post" /\ req'[r].step = "link"
<1>1. BeginUpload(r) => req'[r].step = "put"
  BY Numbering
<1>2. ReReadClaim(r) => req[r].step = "reread"
  BY DEF ReReadClaim
<1>3. PostWorkOrder(r) => req[r].step = "post"
  BY DEF PostWorkOrder
<1> QED
  BY <1>1, <1>2, <1>3, StepAfter DEF Step, Begins, Owns, Lands, Opening

\* Only an override judged on an old flag opens a second work order.
LEMMA OneStep ==
  ASSUME Base, OneInv, NEW r \in Requests, Step(r)
  PROVE  OneInv'
<1> SUFFICES ASSUME "override" \notin raced'
             PROVE  /\ orders' <= 1
                    /\ orders' # 0 => row'.equipment
                    /\ \A x \in Requests : req'[x].step \in Opening \cup {"link"} => row'.equipment
                    /\ \A x \in Requests : req'[x].step \in Opening => orders' = 0
                    /\ \A x, y \in Requests :
                         req'[x].step \in Opening /\ req'[y].step \in Opening => x = y
  BY DEF OneInv
<1>0. /\ orders \in Nat /\ "override" \notin raced /\ row \in Row
      /\ \A x \in Requests \ {r} : req'[x].step = req[x].step
  BY State, RacedGrows, StepTyped DEF Base, Typed, Others, Alike
<1>1. /\ orders <= 1
      /\ orders # 0 => row.equipment
      /\ \A x \in Requests : req[x].step \in Opening \cup {"link"} => row.equipment
      /\ \A x \in Requests : req[x].step \in Opening => orders = 0
      /\ \A x, y \in Requests : req[x].step \in Opening /\ req[y].step \in Opening => x = y
  BY <1>0 DEF OneInv
<1>2. CASE WriteTransition(r)
  <2>1. /\ row'.equipment = (row.equipment \/ req[r].override) /\ orders' = orders
        /\ req[r].override => ~row.equipment
    BY <1>2, Written DEF WriteTransition
  <2>2. CASE req[r].override
    <3>1. \A x \in Requests : req[x].step \notin Opening \cup {"link"}
      BY <1>1, <2>1, <2>2
    <3>2. orders = 0 /\ row'.equipment
      BY <1>1, <2>1, <2>2
    <3> QED
      BY <1>0, <2>1, <3>1, <3>2
  <2>3. CASE ~req[r].override
    <3>1. req'[r].step \notin Opening \cup {"link"}
      BY <1>2, <2>3, StepAfter DEF Opening
    <3> QED
      BY <1>0, <1>1, <2>1, <3>1
  <2> QED
    BY <2>2, <2>3
<1>3. CASE PostWorkOrder(r)
  <2>1. /\ req[r].step \in Opening /\ req'[r].step \in {"idle", "link"}
        /\ row'.equipment = row.equipment
    BY <1>3, StepAfter DEF PostWorkOrder, Opening
  <2>2. orders' \in {orders, orders + 1}
    BY <1>3 DEF PostWorkOrder
  <2>3. orders = 0 /\ row.equipment /\ \A x \in Requests \ {r} : req[x].step \notin Opening
    BY <1>1, <2>1
  <2> QED
    BY <1>0, <2>1, <2>2, <2>3 DEF Opening
<1>4. CASE ~WriteTransition(r) /\ ~PostWorkOrder(r)
  <2>1. orders' = orders /\ row'.equipment = row.equipment
    <3>1. SetCause(r) => row'.equipment = row.equipment
      BY <1>0 DEF SetCause, Row
    <3> QED
      BY <1>4, <3>1, Quiet, Loud DEF Step, SameClaim
  <2>2. req'[r].step \in Opening \cup {"link"} =>
          req[r].step \in Opening /\ req'[r].step \in Opening
    BY <1>4, OpeningAfter DEF Opening
  <2>3. \A x \in Requests : /\ req'[x].step \in Opening => req[x].step \in Opening
                            /\ req'[x].step \in Opening \cup {"link"} =>
                                 req[x].step \in Opening \cup {"link"}
    BY <1>0, <2>2
  <2> QED
    BY <1>1, <2>1, <2>3
<1> QED
  BY <1>2, <1>3, <1>4

-----------------------------------------------------------------------------
(* Files. *)

\* The documents on file of a kind, and their keys, after a step.
LEMMA NumberedStays ==
  ASSUME Base, NEW kind \in Kinds, Numbered(kind),
         Live(kind)' = Live(kind), Kept(docs, docs'),
         \A d \in Live(kind) : files'[docs[d].key] = files[docs[d].key],
         \A x \in Requests : Pending(req'[x]) /\ req'[x].kind = kind =>
           /\ Pending(req[x]) /\ req[x].kind = kind /\ req'[x].number = req[x].number
           /\ req'[x].step = "insert" => files'[<<kind, req'[x].number>>] = req'[x].doc
  PROVE  Numbered(kind)'
<1>1. \A d \in Live(kind)' : d \in Live(kind) /\ docs'[d].key = docs[d].key
                             /\ docs'[d].upload = docs[d].upload
  BY DEF Live, Kept
<1>2. Cardinality(Live(kind))' = Cardinality(Live(kind))
  OBVIOUS
<1>3. \A d \in Live(kind)' :
        /\ docs'[d].key[1] = kind /\ docs'[d].key[2] <= Cardinality(Live(kind))'
        /\ files'[docs'[d].key] = docs'[d].upload
  BY <1>1, <1>2 DEF Numbered
<1>4. \A x \in Requests : Pending(req'[x]) /\ req'[x].kind = kind =>
        /\ req'[x].number = Cardinality(Live(kind))' + 1
        /\ req'[x].step = "insert" => files'[<<kind, req'[x].number>>] = req'[x].doc
        /\ \A s \in Requests : Pending(req'[s]) /\ req'[s].kind = kind => x = s
  BY <1>2 DEF Numbered
<1> QED
  BY <1>3, <1>4 DEF Numbered

\* An upload that begins takes the number after the documents on file.
LEMMA BeginUploadNumbered ==
  ASSUME Base, NEW r \in Requests, BeginUpload(r), "file" \notin raced',
         NEW kind \in Kinds, Numbered(kind), \A x \in Requests \ {r} : Alike(req[x], req'[x])
  PROVE  Numbered(kind)'
<1>1. PICK k \in Kinds :
        /\ req[r] = Idle /\ req'[r].step = "put" /\ req'[r].kind = k
        /\ req'[r].number = Cardinality(Live(k)) + 1
        /\ \A x \in Requests : ~(Pending(req[x]) /\ req[x].kind = k)
        /\ docs' = docs /\ files' = files
  BY Numbering
<1>2. Live(kind)' = Live(kind) /\ Cardinality(Live(kind))' = Cardinality(Live(kind))
  BY <1>1 DEF Live
<1>3. \A x \in Requests \ {r} :
        /\ Pending(req'[x]) <=> Pending(req[x])
        /\ req'[x].kind = req[x].kind /\ req'[x].number = req[x].number
        /\ req'[x].doc = req[x].doc /\ req'[x].step = req[x].step
  BY DEF Alike, Pending
<1>4. CASE k = kind
  <2>1. \A x \in Requests : Pending(req'[x]) /\ req'[x].kind = kind => x = r
    BY <1>1, <1>3, <1>4
  <2> QED
    BY <1>1, <1>2, <1>4, <2>1 DEF Numbered
<1>5. CASE k # kind
  <2>1. \A x \in Requests : Pending(req'[x]) /\ req'[x].kind = kind => x # r
    BY <1>1, <1>5
  <2> QED
    BY <1>1, <1>2, <1>3, <2>1 DEF Numbered
<1> QED
  BY <1>4, <1>5

\* Its file goes where no document on file of its kind has one.
LEMMA PutFileNumbered ==
  ASSUME Base, NEW r \in Requests, PutFile(r), Typed(r), NEW kind \in Kinds, Numbered(kind)
  PROVE  Numbered(kind)'
<1> DEFINE q == req[r]
<1>1. /\ q.step = "put" /\ q \in Request /\ q.kind \in Kinds /\ q.number \in DocIds
      /\ files \in [Keys -> 0..MaxDocs]
      /\ files' = [files EXCEPT ![<<q.kind, q.number>>] = q.doc]
      /\ docs' = docs
  BY Mine DEF PutFile, Fits, Pending, Request, Base, TypeOK, ghosts
<1>2. /\ req'[r].step = "insert" /\ req'[r].doc = q.doc /\ req'[r].number = q.number
      /\ req'[r].kind = q.kind
  BY StepAfter
<1>3. \A x \in Requests \ {r} : Alike(req[x], req'[x])
  BY DEF Typed, Others
<1>4. Live(kind)' = Live(kind) /\ Kept(docs, docs')
  BY <1>1 DEF Live, Kept
<1>5. ASSUME NEW d \in Live(kind)
      PROVE  files'[docs[d].key] = files[docs[d].key]
  <2>1. d \in DOMAIN docs /\ docs[d].key \in Keys
    BY State DEF Live, Base
  <2>2. docs[d].key # <<q.kind, q.number>>
    <3>1. docs[d].key[1] = kind /\ docs[d].key[2] <= Cardinality(Live(kind))
      BY DEF Numbered
    <3>2. q.kind = kind => q.number = Cardinality(Live(kind)) + 1
      BY <1>1 DEF Numbered, Pending
    <3>3. Cardinality(Live(kind)) \in Nat
      BY LiveCount DEF Base
    <3> QED
      BY <3>1, <3>2, <3>3
  <2> QED
    BY <1>1, <2>1, <2>2
<1>6. ASSUME NEW x \in Requests, Pending(req'[x]), req'[x].kind = kind
      PROVE  /\ Pending(req[x]) /\ req[x].kind = kind /\ req'[x].number = req[x].number
             /\ req'[x].step = "insert" => files'[<<kind, req'[x].number>>] = req'[x].doc
  <2>1. CASE x = r
    BY <1>1, <1>2, <1>6, <2>1 DEF Pending, Keys
  <2>2. CASE x # r
    <3>1. /\ Pending(req[x]) /\ req[x].kind = kind /\ req'[x].number = req[x].number
          /\ req'[x].step = req[x].step /\ req'[x].doc = req[x].doc
      BY <1>3, <1>6, <2>2 DEF Alike, Pending
    <3>2. q.kind # kind
      BY <1>1, <2>2, <3>1 DEF Numbered, Pending
    <3>3. <<kind, req[x].number>> \in Keys
      BY <3>1, Mine DEF Fits, Keys
    <3>4. files'[<<kind, req[x].number>>] = files[<<kind, req[x].number>>]
      BY <1>1, <3>2, <3>3
    <3> QED
      BY <3>1, <3>4 DEF Numbered
  <2> QED
    BY <2>1, <2>2
<1> QED
  BY <1>4, <1>5, <1>6, NumberedStays

\* And its document is recorded under that number.
LEMMA InsertDocNumbered ==
  ASSUME Base, NEW r \in Requests, InsertDoc(r), Typed(r), NEW kind \in Kinds, Numbered(kind)
  PROVE  Numbered(kind)'
<1> DEFINE q == req[r]
           n == Len(docs')
<1>1. q.step = "insert" /\ Pending(q) /\ files' = files /\ req'[r].step = "idle"
  BY StepAfter DEF InsertDoc, Pending
<1>2. /\ \A d \in DOMAIN docs : docs'[d] = docs[d]
      /\ DOMAIN docs' = DOMAIN docs \cup {n} /\ n \notin DOMAIN docs
      /\ docs'[n].kind = q.kind /\ docs'[n].live
      /\ docs'[n].key = <<q.kind, q.number>> /\ docs'[n].upload = q.doc
  <2>1. n = Len(docs) + 1 /\ DOMAIN docs = 1..Len(docs) /\ Len(docs) \in Nat
    BY Inserted, State DEF Base
  <2> QED
    BY <2>1, Inserted
<1> HIDE DEF n
<1>3. \A x \in Requests \ {r} : Alike(req[x], req'[x])
  BY DEF Typed, Others
<1>4. ASSUME NEW x \in Requests, Pending(req'[x]), req'[x].kind = kind
      PROVE  /\ x # r /\ Pending(req[x]) /\ req[x].kind = kind /\ req'[x].number = req[x].number
             /\ req'[x].step = req[x].step /\ req'[x].doc = req[x].doc
  BY <1>1, <1>3, <1>4 DEF Alike, Pending
<1>5. CASE q.kind # kind
  <2>1. Live(kind)' = Live(kind)
    BY <1>2, <1>5 DEF Live
  <2>2. Kept(docs, docs')
    BY <1>2 DEF Kept
  <2>3. ASSUME NEW x \in Requests, Pending(req'[x]), req'[x].kind = kind
        PROVE  /\ Pending(req[x]) /\ req[x].kind = kind /\ req'[x].number = req[x].number
               /\ req'[x].step = "insert" => files'[<<kind, req'[x].number>>] = req'[x].doc
    BY <1>1, <1>4, <2>3 DEF Numbered
  <2> QED
    BY <1>1, <2>1, <2>2, <2>3, NumberedStays
<1>6. CASE q.kind = kind
  <2>1. Live(kind)' = Live(kind) \cup {n} /\ n \notin Live(kind)
    BY <1>2, <1>6 DEF Live
  <2>2. /\ IsFiniteSet(Live(kind)) /\ Cardinality(Live(kind)) \in Nat
    BY LiveCount DEF Base
  <2>3. Cardinality(Live(kind))' = Cardinality(Live(kind)) + 1
    BY <2>1, <2>2, FS_AddElement
  <2>4. \A x \in Requests : ~(Pending(req'[x]) /\ req'[x].kind = kind)
    BY <1>1, <1>4, <1>6 DEF Numbered
  <2>5. /\ q.number = Cardinality(Live(kind)) + 1
        /\ files[<<kind, q.number>>] = q.doc
    BY <1>1, <1>6 DEF Numbered
  <2>6. \A d \in Live(kind)' :
          /\ docs'[d].key[1] = kind /\ docs'[d].key[2] <= Cardinality(Live(kind))'
          /\ files'[docs'[d].key] = docs'[d].upload
    <3>1. ASSUME NEW d \in Live(kind)
          PROVE  /\ docs'[d].key[1] = kind /\ docs'[d].key[2] <= Cardinality(Live(kind))'
                 /\ files'[docs'[d].key] = docs'[d].upload
      <4>1. /\ docs'[d] = docs[d] /\ docs[d].key[1] = kind
            /\ docs[d].key[2] <= Cardinality(Live(kind))
            /\ files[docs[d].key] = docs[d].upload /\ docs[d].key[2] \in Nat
        <5>1. d \in DOMAIN docs /\ docs[d].key \in Keys
          BY State DEF Live, Base
        <5>2. docs[d].key[2] \in Nat
          BY <5>1, BoundsAssumption DEF Keys, DocIds
        <5> QED
          BY <1>2, <5>1, <5>2 DEF Numbered
      <4> QED
        BY <1>1, <2>2, <2>3, <4>1
    <3>2. /\ docs'[n].key[1] = kind /\ docs'[n].key[2] <= Cardinality(Live(kind))'
          /\ files'[docs'[n].key] = docs'[n].upload
      BY <1>1, <1>2, <1>6, <2>2, <2>3, <2>5
    <3> QED
      BY <2>1, <3>1, <3>2
  <2> QED
    BY <2>4, <2>6 DEF Numbered
<1> QED
  BY <1>5, <1>6

\* Only a deletion, or two uploads at once, put a file where another is.
LEMMA FileStep ==
  ASSUME Base, FileInv, NEW r \in Requests, Step(r)
  PROVE  FileInv'
<1> SUFFICES ASSUME "file" \notin raced', NEW kind \in Kinds, ~Gone(kind)'
             PROVE  Numbered(kind)'
  BY DEF FileInv
<1>0. /\ Typed(r) /\ Kept(docs, docs') /\ \A d \in DOMAIN docs : docs[d] \in Doc
      /\ \A x \in Requests \ {r} : Alike(req[x], req'[x])
  BY StepTyped, Growing, State DEF Typed, Others, Base
<1>1. \A d \in DOMAIN docs : docs'[d].live => docs[d].live
  <2>1. CASE InsertDoc(r)
    BY <2>1, Inserted
  <2>2. CASE SoftDelete(r)
    <3>1. docs' = [docs EXCEPT ![req[r].doc].live = FALSE]
      BY <2>2, DocSteps
    <3> QED
      BY <1>0, <3>1 DEF Doc
  <2>3. CASE EditDoc(r)
    <3>1. docs' = [docs EXCEPT ![req[r].doc].amount = req[r].amount]
      BY <2>3, DocSteps
    <3> QED
      BY <1>0, <3>1 DEF Doc
  <2> QED
    BY <2>1, <2>2, <2>3, Quiet, Loud DEF Step
<1>2. Numbered(kind)
  <2>1. "file" \notin raced
    BY RacedGrows
  <2>2. ~Gone(kind)
    BY <1>0, <1>1 DEF Gone, Kept
  <2> QED
    BY <2>1, <2>2 DEF FileInv
<1>3. CASE BeginUpload(r)
  BY <1>0, <1>2, <1>3, BeginUploadNumbered
<1>4. CASE PutFile(r)
  BY <1>0, <1>2, <1>4, PutFileNumbered
<1>5. CASE InsertDoc(r)
  BY <1>0, <1>2, <1>5, InsertDocNumbered
<1>6. CASE ~BeginUpload(r) /\ ~PutFile(r) /\ ~InsertDoc(r)
  <2>1. files' = files
    BY <1>6, Quiet, Loud DEF Step
  <2>2. DOMAIN docs' = DOMAIN docs
    BY <1>6, DocSteps, Quiet, Loud DEF Step
  <2>3. Live(kind)' = Live(kind)
    BY <1>0, <1>1, <2>2 DEF Live, Gone, Kept
  <2>4. ASSUME NEW x \in Requests, Pending(req'[x]), req'[x].kind = kind
        PROVE  /\ Pending(req[x]) /\ req[x].kind = kind /\ req'[x].number = req[x].number
               /\ req'[x].step = "insert" => files'[<<kind, req'[x].number>>] = req'[x].doc
    <3>1. x # r
      BY <1>6, <2>4, Uploading
    <3>2. /\ Pending(req[x]) /\ req[x].kind = kind /\ req'[x].number = req[x].number
          /\ req'[x].step = req[x].step /\ req'[x].doc = req[x].doc
      BY <1>0, <2>4, <3>1 DEF Alike, Pending
    <3> QED
      BY <1>2, <2>1, <3>2 DEF Numbered
  <2> QED
    BY <1>0, <1>2, <2>1, <2>3, <2>4, NumberedStays
<1> QED
  BY <1>3, <1>4, <1>5, <1>6

\* A file is kept while its key is numbered: what FileInv is for.
LEMMA KeptFiles ==
  ASSUME Base, FileInv
  PROVE  FilesAreKept
<1> SUFFICES ASSUME NEW d \in DOMAIN docs, "file" \notin raced, ~Gone(docs[d].kind)
             PROVE  files[docs[d].key] = docs[d].upload
  BY DEF FilesAreKept, Gone
<1>1. docs[d].kind \in Kinds
  BY State DEF Base
<1>2. d \in Live(docs[d].kind)
  BY DEF Live, Gone
<1> QED
  BY <1>1, <1>2 DEF FileInv, Numbered

-----------------------------------------------------------------------------
(* The theorems. *)

\* The inductive invariant holds when the claim is filed,
LEMMA Initially == Init => IInv
<1> SUFFICES ASSUME Init PROVE IInv
  OBVIOUS
<1>1. Base
  BY BaseInit
<1>2. OneInv
  BY DEF Init, OneInv, Opening, Idle
<1>3. \A kind \in Kinds : Live(kind) = {}
  BY DEF Init, Live
<1>4. FileInv
  BY <1>3 DEF Init, FileInv, Numbered, Pending, Idle
<1>5. ApprovedQuoteStays /\ PaymentIsApproved /\ ChecksAreApproved /\ OneWorkOrder
  BY DEF Init, ApprovedQuoteStays, PaymentIsApproved, ChecksAreApproved, OneWorkOrder, Chain
<1>6. FilesAreKept
  BY <1>1, <1>4, KeptFiles
<1> QED
  BY <1>1, <1>2, <1>4, <1>5, <1>6 DEF IInv, Goals

\* and every step keeps it.
LEMMA Inductive ==
  ASSUME IInv, [Next]_vars
  PROVE  IInv'
<1>1. CASE Next
  <2>1. PICK r \in Requests : Step(r)
    BY <1>1, NextIsAStep
  <2>2. Base' /\ OneInv' /\ FileInv'
    BY <2>1, BaseStep, OneStep, FileStep DEF IInv
  <2>3. ApprovedQuoteStays' /\ PaymentIsApproved' /\ ChecksAreApproved'
    BY <2>1, QuoteStep, PaymentStep, CheckStep DEF IInv, Goals
  <2>4. OneWorkOrder'
    <3>1. orders' \in Nat
      BY <2>2 DEF Base, TypeOK
    <3> QED
      BY <2>2, <3>1 DEF OneInv, OneWorkOrder
  <2>5. FilesAreKept'
    BY <2>2, KeptFiles, PTL
  <2> QED
    BY <2>2, <2>3, <2>4, <2>5 DEF IInv, Goals
<1>2. CASE UNCHANGED vars
  <2>1. /\ row' = row /\ docs' = docs /\ files' = files /\ req' = req /\ orders' = orders
        /\ uploads' = uploads /\ extras' = extras /\ overlaps' = overlaps /\ faults' = faults
        /\ sent' = sent /\ reopened' = reopened /\ edited' = edited /\ raced' = raced
    BY <1>2 DEF vars, bounds, ghosts
  <2>2. \A kind : Live(kind)' = Live(kind) /\ Gone(kind)' = Gone(kind)
    BY <2>1 DEF Live, Gone
  <2>3. Base'
    BY <2>1 DEF IInv, Base, TypeOK, NoteInv, DocInv, PriceInv, FreshInv, Distinct
  <2>4. OneInv'
    BY <2>1 DEF IInv, OneInv
  <2>5. FileInv'
    BY <2>1, <2>2 DEF IInv, FileInv, Numbered
  <2>6. Goals'
    BY <2>1 DEF IInv, Goals, ApprovedQuoteStays, PaymentIsApproved, ChecksAreApproved,
                OneWorkOrder, FilesAreKept
  <2> QED
    BY <2>3, <2>4, <2>5, <2>6 DEF IInv
<1> QED
  BY <1>1, <1>2

\* The inductive invariant holds in every reachable state.
THEOREM Invariance == Spec => []IInv
<1>1. Init => IInv
  BY Initially
<1>2. IInv /\ [Next]_vars => IInv'
  BY Inductive
<1> QED
  BY <1>1, <1>2, PTL DEF Spec

\* Every variable keeps its type; there are never more documents than uploads.
THEOREM TypeCorrect == Spec => []TypeOK
<1>1. IInv => TypeOK
  BY DEF IInv, Base
<1> QED
  BY <1>1, Invariance, PTL

\* handleDocumentDelete: an approved quote stays on file, unless its deletion and
\* its approval each read before the other's write.
THEOREM QuoteStays == Spec => []ApprovedQuoteStays
<1>1. IInv => ApprovedQuoteStays
  BY DEF IInv, Goals
<1> QED
  BY <1>1, Invariance, PTL

\* handleStatusTransition: an approval is there in the payment chain and only
\* there, unless two transitions that were both allowed have both been written.
THEOREM PaymentApproved == Spec => []PaymentIsApproved
<1>1. IInv => PaymentIsApproved
  BY DEF IInv, Goals
<1> QED
  BY <1>1, Invariance, PTL

\* The AP package: the amount that was approved, with the approver's note from the
\* threshold on, unless the quote was edited or replaced since.
THEOREM ChecksApproved == Spec => []ChecksAreApproved
<1>1. IInv => ChecksAreApproved
  BY DEF IInv, Goals
<1> QED
  BY <1>1, Invariance, PTL

\* updateMaintainXWorkOrderId, "at most one WO per claim": but when two overrides
\* both found the flag unset.
THEOREM AtMostOneOrder == Spec => []OneWorkOrder
<1>1. IInv => OneWorkOrder
  BY DEF IInv, Goals
<1> QED
  BY <1>1, Invariance, PTL

\* handleDocumentUpload: a document's key holds its own file, unless one of its kind
\* was deleted or two uploads of the kind overlapped.
THEOREM FilesKept == Spec => []FilesAreKept
<1>1. IInv => FilesAreKept
  BY DEF IInv, Goals
<1> QED
  BY <1>1, Invariance, PTL

\* handleStatusTransition: a transition written before anything landed since its read
\* follows the table, leaves an operator's cause alone, and closes a claim whose parts
\* were ordered only with a receipt on file.
THEOREM Transitioning == Spec => TransitionsAreSound
<1>1. IInv /\ [Next]_vars => [TransitionStep]_vars
  <2> SUFFICES ASSUME IInv, Next, NEW x \in Requests, Writes(x), ~req[x].stale
               PROVE  FollowsTable /\ KeepsCause /\ SpendsWithReceipt
    BY DEF TransitionStep
  <2>1. PICK r \in Requests : Step(r)
    BY NextIsAStep
  <2>2. x = r
    <3>1. \A y \in Requests \ {r} : Alike(req[y], req'[y])
      BY <2>1, StepTyped DEF IInv, Typed, Others
    <3> QED
      BY <3>1 DEF Writes, Alike
  <2>3. WriteTransition(r) \/ GiveUp(r)
    <3>1. req[r].step = "write"
      BY <2>2 DEF Writes
    <3>2. ~Begins(r)
      <4>1. Idle.step # "write"
        BY DEF Idle
      <4>2. BeginTransition(r) => req[r] = Idle
        BY Asking, Zenon DEF Asked, Begin
      <4> QED
        BY <3>1, <4>1, <4>2, Zenon
        DEF Begins, BeginCause, BeginUpload, BeginDelete, BeginEdit, Begin
    <3> QED
      BY <2>1, <3>1, <3>2
      DEF Step, Owns, Lands, PassGate, ReReadClaim, PostWorkOrder, LinkWorkOrder, PackageForAP,
          SetCause, PutFile, InsertDoc, SoftDelete, EditDoc
  <2>4. CASE GiveUp(r)
    <3>1. row' = row
      BY <2>4 DEF GiveUp
    <3> QED
      BY <3>1 DEF FollowsTable, KeepsCause, SpendsWithReceipt, Closed
  <2>5. CASE WriteTransition(r)
    <3> DEFINE q == req[r]
    <3>1. /\ q.step = "write" /\ q.t \in Transitions /\ row'.status = q.t[2]
          /\ row'.cause = (IF q.auto THEN "noFault" ELSE row.cause)
      BY <2>5, Written DEF WriteTransition, IInv
    <3>2. /\ q.t[1] = row.status /\ (q.auto => row.cause = "undetermined")
          /\ q.t \in RequiresReceipt => \E d \in DOMAIN docs : docs[d].kind = "Receipt" /\ docs[d].live
      BY <2>2, <3>1, Mine DEF Fresh, IInv
    <3>3. q.t = <<row.status, row'.status>>
      BY <3>1, <3>2, Pairing
    <3>4. row.status = "parts" /\ row'.status \in Closed => q.t \in RequiresReceipt
      BY <3>1, <3>2, Closing
    <3> QED
      BY <3>1, <3>2, <3>3, <3>4
      DEF FollowsTable, KeepsCause, SpendsWithReceipt, ReceiptOnFile, Live
  <2> QED
    BY <2>3, <2>4, <2>5
<1> QED
  BY <1>1, Invariance, PTL DEF Spec, TransitionsAreSound

-----------------------------------------------------------------------------
(* Intake: the inductive invariant. *)

\* What a try carries is complete, and was sent under its id.
Complete(b) == b.content # 0 /\ b.key # 0 /\ b.photo # 0 /\ b.content \in posted[b.key]

\* A try the worker has in hand.
TryGood(s) ==
  tries[s] # Free =>
    /\ tries[s].step # "free"
    /\ Complete(tries[s].body)
    /\ tries[s].filed => tries[s].step \in FollowUps \cup {"ok", "failed"}
    /\ tries[s].step = "ok" => Filed(tries[s].body.key)
    /\ tries[s].step = "insert" =>
         photos[tries[s].body.photo].there \/ tries[s].body.key \in swept
    /\ tries[s].filed => Filed(tries[s].body.key)
TryInv == \A s \in Slots : TryGood(s)

\* Who hears an answer.
HearGood(s) ==
  /\ tries[s].step \in Answered => tries[s].waits # "none"
  /\ tries[s].waits = "submit" => page.step = "submitting"
  /\ tries[s].waits = "watchdog" => page.step = "watchdog"
  /\ tries[s].waits # "none" => tries[s].body = page.body
HearInv ==
  /\ \A s \in Slots : HearGood(s)
  /\ \A s, t \in Slots : tries[s].waits = "submit" /\ tries[t].waits = "submit" => s = t

PageInv ==
  /\ page.view = "closed" => page = ClosedPage
  /\ page.step # "idle" => page.view = "form" /\ Complete(page.body)
  /\ page.step \in {"submitting", "backoff"} => page.form = page.body
  /\ page.step = "submitting" => page.tried <= Tries
  /\ page.step = "backoff" => page.tried < Tries
  /\ page.step = "watchdog" =>
       /\ page.tried <= Watches
       /\ page.form.key \in {page.body.key, 0} \/ posted[page.form.key] = {}
  /\ page.view # "closed" => draft = Blank \/ draft.key = page.form.key
  /\ draft # Blank => draft.key # 0

ClaimInv ==
  /\ \A k \in Ids : Filed(k) => claims[k].content \in posted[k] /\ claims[k].photo # 0
  /\ \A x \in shown : Filed(x.key)

\* Nothing is sent before it is typed.
TypedInv ==
  /\ page.form.content <= typed /\ page.banner.content <= typed /\ draft.content <= typed
  /\ \A k \in Ids : \A c \in posted[k] : c <= typed

\* One content goes under one id.
OneId ==
  ~rekeyed =>
    /\ \A j, k \in Ids : \A c \in posted[j] : c \in posted[k] => j = k
    /\ \A k \in Ids :
         /\ draft.content \in posted[k] => draft.key = k
         /\ page.view = "form" /\ page.form.content \in posted[k] => page.form.key = k
         /\ page.view = "form" /\ page.banner.content \in posted[k] => page.form.key = k

\* An id that nothing was sent under and nothing carries any more.
Lost(k) == posted[k] = {} /\ page.form.key # k /\ draft.key # k

\* A photo goes with the id it was uploaded under, or with none that matters.
Own(p, k) ==
  p # 0 => /\ photos[p].key # 0
           /\ photos[p].key = k \/ Filed(photos[p].key) \/ Lost(photos[p].key)
OwnInv ==
  /\ Own(draft.photo, draft.key)
  /\ Own(page.form.photo, page.form.key)
  /\ page.view = "form" => Own(page.banner.photo, page.form.key)
  /\ page.step # "idle" => Own(page.body.photo, page.body.key)
  /\ \A s \in Slots : Own(tries[s].body.photo, tries[s].body.key)
  /\ \A k \in Ids : Own(claims[k].photo, k)
StayInv ==
  \A k \in Ids : Filed(k) =>
    /\ photos[claims[k].photo].there \/ k \in swept \/ Lost(photos[claims[k].photo].key)
    /\ claims[k].photo \in sweep => k \in swept \/ Lost(photos[claims[k].photo].key)

\* The tries under an id that may yet file it, and those bound to mail for nothing.
Pend(k) == {s \in Slots : tries[s].body.key = k /\ tries[s].step \in {"lookup", "head", "insert"}}
Charged(k) ==
  {s \in Slots : /\ tries[s].body.key = k
                 /\ \/ tries[s].step \in {"head", "insert"}
                    \/ tries[s].step = "lookup" /\ ~Filed(k)
                    \/ tries[s].step \in FollowUps /\ ~tries[s].filed}
CountInv ==
  \A k \in Ids : told[k] + Cardinality(Charged(k))
     <= mishaps + crowded[k] + (IF ~Filed(k) /\ Pend(k) # {} THEN 1 ELSE 0)

IntakeBase == IntakeTypeOK /\ TryInv /\ HearInv /\ PageInv
IntakeInv ==
  IntakeBase /\ ClaimInv /\ TypedInv /\ OneId /\ OwnInv /\ StayInv /\ CountInv /\ FiledIsFollowedUp

-----------------------------------------------------------------------------
(* Intake: the operators. *)

\* The bounds are numbers.
LEMMA IntakeBounds ==
  /\ MaxIds \in Nat /\ MaxContents \in Nat /\ MaxPhotos \in Nat
  /\ MaxVisits \in Nat /\ MaxSubmits \in Nat /\ MaxMishaps \in Nat
  /\ Tries \in Nat /\ Tries >= 1 /\ Watches \in Nat
BY IntakeAssumption, CodeAssumption

\* An id in use is the form's own; a new one is used by nothing yet.
LEMMA FreshId ==
  ASSUME IntakeTypeOK, NEW f \in Forms, KeyInUse(f) \in Ids
  PROVE  /\ KeyInUse(f) # 0
         /\ f.key # 0 => KeyInUse(f) = f.key
         /\ f.key = 0 => KeyInUse(f) \notin UsedIds
<1>1. KeyInUse(f) # 0
  BY IntakeBounds DEF Ids
<1>2. f.key # 0 => KeyInUse(f) = f.key
  BY DEF KeyInUse
<1>3. ASSUME f.key = 0 PROVE KeyInUse(f) \notin UsedIds
  <2> DEFINE S == {k \in 1..(MaxIds + 1) : k \notin UsedIds}
             New(k) == k \notin UsedIds /\ \A j \in Ids : j < k => j \in UsedIds
  <2>1. UsedIds \subseteq Ids \cup {0}
    BY DEF UsedIds, IntakeTypeOK, Pages, Forms
  <2>2. MaxIds + 1 \in S
    BY <2>1, IntakeBounds DEF Ids
  <2>3. S \in SUBSET Nat /\ S # {}
    BY <2>2, IntakeBounds
  <2>4. PICK x \in S : \A y \in S : <<y, x>> \notin OpToRel(<, Nat)
    BY <2>3, NatLessThanWellFounded, WFMin, Zenon
  <2>5. ASSUME NEW y \in S PROVE ~(y < x)
    <3>1. <<y, x>> \in Nat \X Nat
      BY <2>3
    <3> QED BY <2>4, <3>1, Zenon DEF OpToRel
  <2>6. New(x)
    <3>1. x \notin UsedIds /\ x \in 1..(MaxIds + 1)
      BY <2>4
    <3>2. ASSUME NEW j \in Ids, j < x, j \notin UsedIds PROVE FALSE
      <4>1. j \in S
        BY <3>2, IntakeBounds DEF Ids
      <4> QED BY <4>1, <3>2, <2>5
    <3> QED BY <3>1, <3>2
  <2>7. x \in Ids \cup {MaxIds + 1}
    <3>1. x \in 1..(MaxIds + 1)
      BY <2>4
    <3>2. x \in Int /\ 1 <= x /\ x <= MaxIds + 1
      BY <3>1, IntakeBounds
    <3> HIDE DEF S
    <3> QED BY <3>2, IntakeBounds DEF Ids
  <2>8. New(CHOOSE k \in Ids \cup {MaxIds + 1} : New(k))
    <3> HIDE DEF New
    <3>1. \E k : k \in Ids \cup {MaxIds + 1} /\ New(k)
      BY <2>6, <2>7
    <3> QED BY <3>1, Zenon
  <2>9. KeyInUse(f) = CHOOSE k \in Ids \cup {MaxIds + 1} : New(k)
    BY <1>3 DEF KeyInUse
  <2> QED BY <2>8, <2>9
<1> QED BY <1>1, <1>2, <1>3

\* What is new to everything.
LEMMA Unused ==
  ASSUME IntakeTypeOK, NEW k \in Ids, k \notin UsedIds
  PROVE  /\ page.form.key # k /\ draft.key # k /\ posted[k] = {}
         /\ \A p \in Photos : photos[p].key # k
BY DEF UsedIds

\* A free slot carries nothing.
LEMMA FreeSlot ==
  /\ Free \in Try /\ Free.step = "free" /\ Free.waits = "none" /\ Free.filed = FALSE
  /\ Free.body = Blank /\ Blank \in Forms
  /\ Blank.content = 0 /\ Blank.key = 0 /\ Blank.photo = 0
BY IntakeBounds DEF Free, Try, FollowUps, Blank, Forms

\* What deafness makes of the tries.
LEMMA Deafened ==
  ASSUME IntakeTypeOK
  PROVE  /\ Deaf \in [Slots -> Try]
         /\ \A s \in Slots :
              /\ Deaf[s].waits = "none"
              /\ tries[s].step \in Answered => Deaf[s] = Free
              /\ tries[s].step \notin Answered =>
                   /\ Deaf[s].step = tries[s].step /\ Deaf[s].body = tries[s].body
                   /\ Deaf[s].filed = tries[s].filed
              /\ tries[s] = Free => Deaf[s] = Free
<1>1. ASSUME NEW s \in Slots
      PROVE  /\ Deaf[s] \in Try /\ Deaf[s].waits = "none"
             /\ tries[s].step \in Answered => Deaf[s] = Free
             /\ tries[s].step \notin Answered =>
                  /\ Deaf[s].step = tries[s].step /\ Deaf[s].body = tries[s].body
                  /\ Deaf[s].filed = tries[s].filed
             /\ tries[s] = Free => Deaf[s] = Free
  <2>1. tries[s] \in Try
    BY DEF IntakeTypeOK
  <2>2. Deaf[s] = IF tries[s].step \in Answered THEN Free ELSE [tries[s] EXCEPT !.waits = "none"]
    BY DEF Deaf
  <2> QED BY <2>1, <2>2, FreeSlot DEF Try, Free, Answered
<1>2. Deaf = [s \in Slots |-> Deaf[s]]
  BY DEF Deaf
<1> QED BY <1>1, <1>2

\* A step of the worker on one try.
Moved(s, step) ==
  /\ tries' \in [Slots -> Try]
  /\ \A t \in Slots : t # s => tries'[t] = tries[t]
  /\ \/ tries'[s] = Free /\ step \in Answered /\ tries[s].waits = "none"
     \/ /\ tries'[s].step = step /\ tries'[s].body = tries[s].body
        /\ tries'[s].waits = tries[s].waits /\ tries'[s].filed = tries[s].filed
        /\ step \in Answered => tries[s].waits # "none"

LEMMA ToMoves ==
  ASSUME IntakeTypeOK, NEW s \in Slots,
         NEW step \in {"head", "insert", "ok", "failed", "missing"} \cup FollowUps, To(s, step)
  PROVE  Moved(s, step)
<1>1. tries \in [Slots -> Try] /\ tries[s] \in Try
  BY DEF IntakeTypeOK
<1>2. tries' = [tries EXCEPT ![s] =
                  IF step \in Answered /\ tries[s].waits = "none" THEN Free
                  ELSE [tries[s] EXCEPT !.step = step]]
  BY DEF To
<1>3. [tries[s] EXCEPT !.step = step] \in Try
  BY <1>1 DEF Try
<1>4. tries' \in [Slots -> Try]
  BY <1>1, <1>2, <1>3, FreeSlot
<1> QED BY <1>1, <1>2, <1>4, FreeSlot DEF Try, Moved

-----------------------------------------------------------------------------
(* Intake: the types, and what a step of the page changes of it. *)

\* A page whose form, step and draft are replaced is a page.
LEMMA BlankPage == ClosedPage \in Pages /\ Blank \in Forms
BY FreeSlot, IntakeBounds DEF ClosedPage, Pages

Filing == <<tries, claims, photos, sweep>>
Told == <<posted, shown, told, crowded, followed, missed, swept>>

OpenDoes ==
  /\ page.view = "closed" /\ UNCHANGED <<Filing, Told, rekeyed, typed, submits, mishaps>>
  /\ page'.view = "form" /\ page'.step = "idle"
  /\ \/ /\ page'.banner = draft /\ draft' = draft
        /\ page'.form.key = draft.key /\ page'.form.content = 0 /\ page'.form.photo = 0
     \/ page'.banner = Blank /\ draft' = Blank /\ page'.form = Blank
LEMMA OpenTyped == ASSUME IntakeBase, Open PROVE IntakeTypeOK' /\ OpenDoes
<1> DEFINE opened == [ClosedPage EXCEPT !.view = "form", !.banner = draft,
                                        !.form = [Blank EXCEPT !.key = IdFromDraft]]
           blank == [ClosedPage EXCEPT !.view = "form"]
<1>1. draft \in Forms /\ draft.key \in Ids \cup {0}
  BY DEF IntakeBase, IntakeTypeOK, Forms
<1>2. [Blank EXCEPT !.key = IdFromDraft] \in Forms
  BY <1>1, BlankPage DEF Forms, IdFromDraft
<1>3. opened \in Pages /\ blank \in Pages
  BY <1>1, <1>2, BlankPage DEF Pages
<1>4. /\ opened.view = "form" /\ opened.step = "idle" /\ opened.banner = draft
      /\ opened.form.key = draft.key /\ opened.form.content = 0 /\ opened.form.photo = 0
      /\ blank.view = "form" /\ blank.step = "idle" /\ blank.banner = Blank /\ blank.form = Blank
  BY DEF ClosedPage, Blank, IdFromDraft
<1>5. (page' = opened /\ draft' = draft) \/ (page' = blank /\ draft' = Blank)
  BY DEF Open
<1>6. page' \in Pages /\ draft' \in Forms
  BY <1>1, <1>3, <1>5, BlankPage
<1>7. OpenDoes
  BY <1>4, <1>5 DEF Open, OpenDoes, Filing, Told, worker, traces
<1>8. visits' \in 0..MaxVisits
  BY IntakeBounds DEF Open, IntakeBase, IntakeTypeOK
<1> QED
  BY <1>6, <1>7, <1>8 DEF IntakeBase, IntakeTypeOK, OpenDoes, Filing, Told

CloseDoes ==
  /\ page' = ClosedPage /\ tries' = Deaf
  /\ UNCHANGED <<draft, claims, photos, sweep, Told, rekeyed, typed, mishaps>>
LEMMA CloseTyped == ASSUME IntakeBase, Close PROVE IntakeTypeOK' /\ CloseDoes
<1>1. CloseDoes /\ UNCHANGED counts
  BY DEF Close, CloseDoes, Told, traces, counts
<1> QED
  BY <1>1, BlankPage, Deafened DEF IntakeBase, IntakeTypeOK, CloseDoes, Told, counts

\* The form is replaced, and nothing else of what the steps go by.
FormKept ==
  /\ page'.view = page.view /\ page'.step = page.step /\ page'.body = page.body
  /\ page'.tried = page.tried

TypeDoes ==
  /\ FormKept /\ page.view = "form" /\ page.step \in {"idle", "watchdog"}
  /\ typed' = typed + 1 /\ page'.form.content = typed'
  /\ page'.form.key = page.form.key /\ page'.form.photo = page.form.photo
  /\ page'.banner = page.banner
  /\ UNCHANGED <<draft, Filing, Told, rekeyed, mishaps>>
LEMMA TypeTyped == ASSUME IntakeBase, Type PROVE IntakeTypeOK' /\ TypeDoes
<1> DEFINE new == [page EXCEPT !.form.content = typed', !.timer = TRUE]
           form == [page.form EXCEPT !.content = typed']
<1>1. page \in Pages /\ page.form \in Forms /\ typed' \in 0..MaxContents /\ typed' = typed + 1
  BY IntakeBounds DEF Type, IntakeBase, IntakeTypeOK, Pages
<1>2. typed' \in Contents
  BY <1>1, IntakeBounds DEF Contents, Type, IntakeBase, IntakeTypeOK
<1>3. form \in Forms
  BY <1>1, <1>2 DEF Forms
<1>4. new = [page EXCEPT !.form = form, !.timer = TRUE]
  BY <1>1 DEF Pages
<1>5. /\ new \in Pages /\ new.form = form /\ new.banner = page.banner
      /\ new.view = page.view /\ new.step = page.step /\ new.body = page.body
      /\ new.tried = page.tried
  BY <1>1, <1>3, <1>4 DEF Pages
<1>6. form.content = typed' /\ form.key = page.form.key /\ form.photo = page.form.photo
  BY <1>1 DEF Forms
<1>7. TypeDoes
  BY <1>1, <1>5, <1>6 DEF Type, TypeDoes, FormKept, Editable, Filing, Told, worker, traces
<1> QED
  BY <1>1, <1>5, <1>7 DEF Type, IntakeBase, IntakeTypeOK, TypeDoes, Filing, Told

\* The form's id is in use, or a new one.
Keyed(k) ==
  /\ k \in Ids /\ k # 0
  /\ page.form.key # 0 => k = page.form.key
  /\ page.form.key = 0 => k \notin UsedIds
LEMMA KeyedForm ==
  ASSUME IntakeTypeOK, KeyInUse(page.form) \in Ids
  PROVE  Keyed(KeyInUse(page.form))
BY FreshId DEF Keyed, IntakeTypeOK, Pages

UploadBy(p, k) ==
  /\ FormKept /\ page.view = "form" /\ page.step \in {"idle", "watchdog"} /\ Keyed(k)
  /\ photos[p].key = 0 /\ p # 0
  /\ photos'[p].key = k
  /\ \A q \in Photos \ {p} : photos'[q] = photos[q]
  /\ page'.form.content = page.form.content /\ page'.form.key = k /\ page'.form.photo = p
  /\ page'.banner = page.banner /\ page.form.photo = 0
  /\ photos[p].there = FALSE
  /\ UNCHANGED <<draft, tries, claims, sweep, Told, rekeyed, typed, mishaps>>
UploadDoes == \E p \in Photos, k \in Ids : UploadBy(p, k)
LEMMA UploadTyped == ASSUME IntakeBase, Upload PROVE IntakeTypeOK' /\ UploadDoes
<1> DEFINE k == KeyInUse(page.form)
<1>1. k \in Ids /\ page.form.photo = 0 /\ Editable
  BY DEF Upload
<1>2. PICK p \in Photos :
        /\ photos[p] = NoPhoto
        /\ photos' = [photos EXCEPT ![p] = [key |-> k, there |-> TRUE]]
        /\ page' = [page EXCEPT !.form.key = k, !.form.photo = p, !.timer = TRUE]
  BY DEF Upload
<1>3. Keyed(k)
  BY <1>1, KeyedForm DEF IntakeBase
<1> HIDE DEF k
<1> DEFINE form == [page.form EXCEPT !.key = k, !.photo = p]
           new == [page EXCEPT !.form = form, !.timer = TRUE]
<1>4. /\ page \in Pages /\ page.form \in Forms
      /\ photos \in [Photos -> [key : Ids \cup {0}, there : BOOLEAN]]
  BY DEF IntakeBase, IntakeTypeOK, Pages
<1>5. form \in Forms /\ form.content = page.form.content /\ form.key = k /\ form.photo = p
  BY <1>1, <1>4 DEF Forms
<1>6. page' = new
  BY <1>2, <1>4 DEF Pages
<1>7. /\ new \in Pages /\ new.form = form /\ new.banner = page.banner
      /\ new.view = page.view /\ new.step = page.step /\ new.body = page.body
      /\ new.tried = page.tried
  BY <1>4, <1>5 DEF Pages
<1>8. p # 0 /\ photos[p].key = 0 /\ photos[p].there = FALSE
  BY <1>2, IntakeBounds DEF Photos, NoPhoto
<1>9. /\ photos' \in [Photos -> [key : Ids \cup {0}, there : BOOLEAN]]
      /\ photos'[p].key = k /\ \A q \in Photos \ {p} : photos'[q] = photos[q]
  BY <1>1, <1>2, <1>4
<1>10. UNCHANGED <<draft, tries, claims, sweep, Told, rekeyed, counts>>
  BY DEF Upload, traces, Told
<1>11. UploadBy(p, k)
  BY <1>1, <1>3, <1>5, <1>6, <1>7, <1>8, <1>9, <1>10 DEF UploadBy, FormKept, Editable, counts
<1>12. UploadDoes
  BY <1>1, <1>11 DEF UploadDoes
<1> QED
  BY <1>6, <1>7, <1>9, <1>10, <1>12 DEF IntakeBase, IntakeTypeOK, Told, counts

SaveBy(k) ==
  /\ FormKept /\ Keyed(k) /\ page.view # "closed"
  /\ page'.form.content = page.form.content /\ page'.form.key = k
  /\ page'.form.photo = page.form.photo /\ page'.banner = page.banner
  /\ draft' = page'.form
  /\ rekeyed' = (rekeyed \/ page.view = "outcome")
  /\ UNCHANGED <<Filing, Told, typed, mishaps>>
SaveDoes == \E k \in Ids : SaveBy(k)
LEMMA SaveTyped == ASSUME IntakeBase, SaveDraft PROVE IntakeTypeOK' /\ SaveDoes
<1> DEFINE k == KeyInUse(page.form)
<1>1. /\ k \in Ids /\ page.timer
      /\ page' = [page EXCEPT !.form.key = k, !.timer = FALSE]
      /\ draft' = page'.form
      /\ rekeyed' = (rekeyed \/ page.view = "outcome")
  BY DEF SaveDraft
<1>2. Keyed(k)
  BY <1>1, KeyedForm DEF IntakeBase
<1> HIDE DEF k
<1> DEFINE form == [page.form EXCEPT !.key = k]
           new == [page EXCEPT !.form = form, !.timer = FALSE]
<1>3. page \in Pages /\ page.form \in Forms
  BY DEF IntakeBase, IntakeTypeOK, Pages
<1>4. /\ form \in Forms /\ form.content = page.form.content /\ form.key = k
      /\ form.photo = page.form.photo
  BY <1>1, <1>3 DEF Forms
<1>5. page' = new
  BY <1>1, <1>3 DEF Pages
<1>6. /\ new \in Pages /\ new.form = form /\ new.banner = page.banner
      /\ new.view = page.view /\ new.step = page.step /\ new.body = page.body
      /\ new.tried = page.tried
  BY <1>3, <1>4 DEF Pages
<1>7. UNCHANGED <<Filing, Told, counts>>
  BY DEF SaveDraft, worker, Filing, Told
<1>8. page.view # "closed"
  BY <1>1 DEF IntakeBase, PageInv, ClosedPage
<1>9. SaveDoes
  <2>1. SaveBy(k)
    BY <1>1, <1>2, <1>4, <1>5, <1>6, <1>7, <1>8 DEF SaveBy, FormKept, counts
  <2> QED BY <1>1, <2>1 DEF SaveDoes
<1>10. rekeyed' \in BOOLEAN
  BY <1>1 DEF IntakeBase, IntakeTypeOK
<1> QED
  BY <1>1, <1>4, <1>5, <1>6, <1>7, <1>9, <1>10 DEF IntakeBase, IntakeTypeOK, Filing, Told, counts

ResumeDoes ==
  /\ FormKept /\ page.view = "form" /\ page.step \in {"idle", "watchdog"}
  /\ page'.form.content = page.banner.content /\ page'.form.key = page.form.key
  /\ page'.form.photo = page.banner.photo /\ page'.banner = Blank
  /\ UNCHANGED <<draft, Filing, Told, rekeyed, typed, mishaps>>
LEMMA ResumeTyped == ASSUME IntakeBase, Resume PROVE IntakeTypeOK' /\ ResumeDoes
<1> DEFINE form == [page.form EXCEPT !.content = page.banner.content,
                                     !.photo = page.banner.photo]
           new == [page EXCEPT !.form = form, !.banner = Blank, !.timer = TRUE]
<1>1. page \in Pages /\ page.form \in Forms /\ page.banner \in Forms
  BY DEF IntakeBase, IntakeTypeOK, Pages
<1>2. /\ form \in Forms /\ form.content = page.banner.content
      /\ form.key = page.form.key /\ form.photo = page.banner.photo
  BY <1>1 DEF Forms
<1>3. page' = new
  BY <1>1 DEF Resume, Pages
<1>4. /\ new \in Pages /\ new.form = form /\ new.banner = Blank
      /\ new.view = page.view /\ new.step = page.step /\ new.body = page.body
      /\ new.tried = page.tried
  BY <1>1, <1>2, BlankPage DEF Pages
<1>5. UNCHANGED <<draft, Filing, Told, rekeyed, counts>>
  BY DEF Resume, worker, Filing, Told, traces
<1>6. ResumeDoes
  BY <1>2, <1>3, <1>4, <1>5 DEF ResumeDoes, Resume, FormKept, Editable, counts
<1> QED
  BY <1>3, <1>4, <1>5, <1>6 DEF IntakeBase, IntakeTypeOK, Filing, Told, counts

StartDoes ==
  /\ FormKept /\ page.view = "form" /\ page.step \in {"idle", "watchdog"}
  /\ page'.form.content = page.form.content /\ page'.form.key = 0 /\ page'.form.photo = 0
  /\ page'.banner = Blank /\ draft' = Blank
  /\ rekeyed' = (rekeyed \/ \E k \in Ids : page.form.content \in posted[k])
  /\ UNCHANGED <<Filing, Told, typed, mishaps>>
LEMMA StartTyped == ASSUME IntakeBase, StartOver PROVE IntakeTypeOK' /\ StartDoes
<1> DEFINE form == [page.form EXCEPT !.key = 0, !.photo = 0]
           new == [page EXCEPT !.form = form, !.banner = Blank]
<1>1. page \in Pages /\ page.form \in Forms
  BY DEF IntakeBase, IntakeTypeOK, Pages
<1>2. form \in Forms /\ form.content = page.form.content /\ form.key = 0 /\ form.photo = 0
  BY <1>1 DEF Forms
<1>3. page' = new
  BY <1>1 DEF StartOver, Pages
<1>4. /\ new \in Pages /\ new.form = form /\ new.banner = Blank
      /\ new.view = page.view /\ new.step = page.step /\ new.body = page.body
      /\ new.tried = page.tried
  BY <1>1, <1>2, BlankPage DEF Pages
<1>5. UNCHANGED <<Filing, Told, counts>>
  BY DEF StartOver, worker, Filing, Told
<1>6. StartDoes
  BY <1>2, <1>3, <1>4, <1>5 DEF StartDoes, StartOver, FormKept, Editable, counts
<1>7. rekeyed' \in BOOLEAN
  BY DEF StartOver, IntakeBase, IntakeTypeOK
<1> QED
  BY <1>3, <1>4, <1>5, <1>6, <1>7, BlankPage
     DEF IntakeBase, IntakeTypeOK, StartDoes, Filing, Told, counts

\* A body goes out from slot s, while the others hear what hears says.
SentBy(s, body, who, hears) ==
  /\ tries[s] = Free
  /\ tries' \in [Slots -> Try] /\ \A t \in Slots \ {s} : tries'[t] = hears[t]
  /\ tries'[s].step = "lookup" /\ tries'[s].body = body
  /\ tries'[s].waits = who /\ tries'[s].filed = FALSE
  /\ \A k \in Ids \ {body.key} : posted'[k] = posted[k] /\ crowded'[k] = crowded[k]
  /\ posted'[body.key] = posted[body.key] \cup {body.content}
  /\ crowded'[body.key] =
       IF \E t \in Slots : tries[t] # Free /\ tries[t].body.key = body.key
       THEN crowded[body.key] + 1 ELSE crowded[body.key]
LEMMA SendTyped ==
  ASSUME IntakeTypeOK, NEW hears \in [Slots -> Try], NEW body \in Forms,
         body.key \in Ids, body.content # 0, NEW who \in {"submit", "watchdog"},
         Send(body, who, hears)
  PROVE  /\ \E s \in Slots : SentBy(s, body, who, hears)
         /\ tries' \in [Slots -> Try] /\ posted' \in [Ids -> SUBSET Contents]
         /\ crowded' \in [Ids -> Nat]
<1> DEFINE fresh == [step |-> "lookup", body |-> body, waits |-> who, filed |-> FALSE]
           more == IF \E t \in Slots : tries[t] # Free /\ tries[t].body.key = body.key
                   THEN crowded[body.key] + 1 ELSE crowded[body.key]
<1>1. PICK s \in Slots :
        /\ tries[s] = Free
        /\ tries' = [hears EXCEPT ![s] = fresh]
        /\ posted' = [posted EXCEPT ![body.key] = @ \cup {body.content}]
        /\ crowded' = [crowded EXCEPT ![body.key] = more]
  BY DEF Send, FirstFree
<1>2. posted \in [Ids -> SUBSET Contents] /\ crowded \in [Ids -> Nat]
  BY DEF IntakeTypeOK
<1>3. more \in Nat
  BY <1>2
<1>4. body.content \in Contents
  BY DEF Forms
<1>5. fresh \in Try /\ fresh.step = "lookup" /\ fresh.body = body /\ fresh.waits = who
      /\ fresh.filed = FALSE
  BY DEF Try
<1> HIDE DEF fresh
<1>6. /\ tries' \in [Slots -> Try] /\ tries'[s] = fresh
      /\ \A t \in Slots \ {s} : tries'[t] = hears[t]
  BY <1>1, <1>5
<1>7. /\ posted' \in [Ids -> SUBSET Contents]
      /\ posted'[body.key] = posted[body.key] \cup {body.content}
      /\ \A k \in Ids \ {body.key} : posted'[k] = posted[k]
  BY <1>1, <1>2, <1>4
<1>8. /\ crowded' \in [Ids -> Nat] /\ crowded'[body.key] = more
      /\ \A k \in Ids \ {body.key} : crowded'[k] = crowded[k]
  BY <1>1, <1>2, <1>3
<1>9. SentBy(s, body, who, hears)
  BY <1>1, <1>5, <1>6, <1>7, <1>8 DEF SentBy
<1> QED BY <1>6, <1>7, <1>8, <1>9

SubmitBy(b, s) ==
  /\ page.view = "form" /\ page.step \in {"idle", "watchdog"}
  /\ Keyed(b.key) /\ b.content = page.form.content /\ b.photo = page.form.photo
  /\ b.content # 0 /\ b.photo # 0
  /\ page'.view = "form" /\ page'.step = "submitting" /\ page'.tried = 1
  /\ page'.body = b /\ page'.form = b /\ page'.banner = page.banner
  /\ SentBy(s, b, "submit", Deaf)
  /\ UNCHANGED <<draft, claims, photos, sweep, typed, mishaps,
                 shown, told, followed, missed, swept, rekeyed>>
SubmitDoes == \E b \in Forms, s \in Slots : SubmitBy(b, s)
LEMMA SubmitTyped == ASSUME IntakeBase, Submit PROVE IntakeTypeOK' /\ SubmitDoes
<1> DEFINE k == KeyInUse(page.form)
<1>1. /\ k \in Ids /\ Editable /\ page.form.content # 0 /\ page.form.photo # 0
      /\ page' = [page EXCEPT !.step = "submitting", !.tried = 1,
                              !.body = [page.form EXCEPT !.key = k],
                              !.form = [page.form EXCEPT !.key = k]]
      /\ Send([page.form EXCEPT !.key = k], "submit", Deaf)
      /\ submits' = submits + 1 /\ submits < MaxSubmits
      /\ UNCHANGED <<draft, claims, photos, sweep, typed, visits, mishaps,
                     shown, told, followed, missed, swept, rekeyed>>
  <2>1. page \in Pages /\ page.form \in Forms
    BY DEF IntakeBase, IntakeTypeOK, Pages
  <2>2. [page.form EXCEPT !.key = k].key = k
    BY <2>1 DEF Forms
  <2> QED BY <2>2 DEF Submit
<1>2. Keyed(k)
  BY <1>1, KeyedForm DEF IntakeBase
<1> HIDE DEF k
<1> DEFINE b == [page.form EXCEPT !.key = k]
           new == [page EXCEPT !.step = "submitting", !.tried = 1, !.body = b, !.form = b]
<1>3. page \in Pages /\ page.form \in Forms
  BY DEF IntakeBase, IntakeTypeOK, Pages
<1>4. /\ b \in Forms /\ b.content = page.form.content /\ b.key = k
      /\ b.photo = page.form.photo
  BY <1>1, <1>3 DEF Forms
<1>5. page' = new /\ Send(b, "submit", Deaf)
  BY <1>1
<1> HIDE DEF b
<1>6. /\ new \in Pages /\ new.form = b /\ new.body = b /\ new.banner = page.banner
      /\ new.view = page.view /\ new.step = "submitting" /\ new.tried = 1
  <2>1. 1 \in 0..(IF Tries > Watches THEN Tries ELSE Watches)
    BY IntakeBounds
  <2> QED BY <1>3, <1>4, <2>1 DEF Pages
<1>7. Deaf \in [Slots -> Try] /\ IntakeTypeOK
  BY Deafened DEF IntakeBase
<1>8. PICK s \in Slots : SentBy(s, b, "submit", Deaf)
  BY <1>1, <1>4, <1>5, <1>7, SendTyped
<1>9. /\ tries' \in [Slots -> Try] /\ posted' \in [Ids -> SUBSET Contents]
      /\ crowded' \in [Ids -> Nat]
  BY <1>1, <1>4, <1>5, <1>7, SendTyped
<1>10. SubmitBy(b, s)
  BY <1>1, <1>2, <1>4, <1>5, <1>6, <1>8 DEF SubmitBy, Editable
<1>11. submits' \in 0..MaxSubmits
  BY <1>1, <1>7, IntakeBounds DEF IntakeTypeOK
<1> QED
  BY <1>1, <1>4, <1>5, <1>6, <1>7, <1>9, <1>10, <1>11 DEF IntakeTypeOK, SubmitDoes

\* The page sends its body once more.
AgainBy(s, who) ==
  /\ page'.view = page.view /\ page'.form = page.form /\ page'.banner = page.banner
  /\ page'.body = page.body /\ page'.tried = page.tried + 1
  /\ SentBy(s, page.body, who, tries)
  /\ UNCHANGED <<draft, claims, photos, sweep, typed, mishaps,
                 shown, told, followed, missed, swept, rekeyed>>
LEMMA AgainTyped ==
  ASSUME IntakeBase, NEW new \in Pages, NEW who \in {"submit", "watchdog"},
         new.view = page.view, new.form = page.form, new.banner = page.banner,
         new.body = page.body, new.tried = page.tried + 1, page.step # "idle",
         page' = new, Send(page.body, who, tries),
         UNCHANGED <<draft, claims, photos, sweep, counts,
                     shown, told, followed, missed, swept, rekeyed>>
  PROVE  IntakeTypeOK' /\ \E s \in Slots : AgainBy(s, who)
<1>1. /\ page.body \in Forms /\ page.body.key \in Ids /\ page.body.content # 0
      /\ tries \in [Slots -> Try] /\ IntakeTypeOK
  BY DEF IntakeBase, IntakeTypeOK, Pages, PageInv, Complete, Forms
<1>2. PICK s \in Slots : SentBy(s, page.body, who, tries)
  BY <1>1, SendTyped
<1>3. /\ tries' \in [Slots -> Try] /\ posted' \in [Ids -> SUBSET Contents]
      /\ crowded' \in [Ids -> Nat]
  BY <1>1, SendTyped
<1>4. AgainBy(s, who)
  BY <1>2 DEF AgainBy, counts
<1> QED
  BY <1>1, <1>3, <1>4 DEF IntakeTypeOK, counts

RetryDoes ==
  /\ page.step = "backoff" /\ page'.step = "submitting"
  /\ \E s \in Slots : AgainBy(s, "submit")
LEMMA RetryTyped == ASSUME IntakeBase, TryAgain PROVE IntakeTypeOK' /\ RetryDoes
<1> DEFINE new == [page EXCEPT !.step = "submitting", !.tried = @ + 1]
<1>1. page \in Pages /\ page.step = "backoff" /\ page.tried < Tries
  BY DEF IntakeBase, IntakeTypeOK, TryAgain, PageInv
<1>2. page.tried + 1 \in 0..(IF Tries > Watches THEN Tries ELSE Watches)
  BY <1>1, IntakeBounds DEF Pages
<1>3. /\ new \in Pages /\ new.form = page.form /\ new.body = page.body
      /\ new.banner = page.banner /\ new.view = page.view /\ new.step = "submitting"
      /\ new.tried = page.tried + 1
  BY <1>1, <1>2 DEF Pages
<1>4. page' = new
  BY DEF TryAgain
<1> HIDE DEF new
<1> QED
  BY <1>1, <1>3, <1>4, AgainTyped DEF TryAgain, RetryDoes

WatchDoes ==
  /\ page.step = "watchdog" /\ page'.step = "watchdog" /\ page.tried < Watches
  /\ \E s \in Slots : AgainBy(s, "watchdog")
LEMMA WatchTyped == ASSUME IntakeBase, Watch PROVE IntakeTypeOK' /\ WatchDoes
<1> DEFINE new == [page EXCEPT !.tried = @ + 1]
<1>1. page \in Pages /\ page.step = "watchdog" /\ page.tried < Watches
  BY DEF IntakeBase, IntakeTypeOK, Watch, PageInv
<1>2. page.tried + 1 \in 0..(IF Tries > Watches THEN Tries ELSE Watches)
  BY <1>1, IntakeBounds DEF Pages
<1>3. /\ new \in Pages /\ new.form = page.form /\ new.body = page.body
      /\ new.banner = page.banner /\ new.view = page.view /\ new.step = page.step
      /\ new.tried = page.tried + 1
  BY <1>1, <1>2 DEF Pages
<1>4. page' = new
  BY DEF Watch
<1> HIDE DEF new
<1> QED
  BY <1>1, <1>3, <1>4, AgainTyped DEF Watch, WatchDoes

StopDoes ==
  /\ page.step = "watchdog" /\ page'.step = "idle" /\ tries' = Deaf
  /\ page'.view = page.view /\ page'.form = page.form /\ page'.banner = page.banner
  /\ UNCHANGED <<draft, claims, photos, sweep, Told, rekeyed, typed, mishaps>>
LEMMA StopTyped == ASSUME IntakeBase, StopWatching PROVE IntakeTypeOK' /\ StopDoes
<1> DEFINE new == [page EXCEPT !.step = "idle"]
<1>1. page \in Pages
  BY DEF IntakeBase, IntakeTypeOK
<1>2. /\ new \in Pages /\ new.form = page.form /\ new.banner = page.banner
      /\ new.view = page.view /\ new.step = "idle"
  BY <1>1 DEF Pages
<1>3. page' = new /\ tries' = Deaf /\ page.step = "watchdog"
      /\ UNCHANGED <<draft, claims, photos, sweep, Told, rekeyed, counts>>
  BY DEF StopWatching, Told, traces
<1>4. StopDoes
  BY <1>2, <1>3 DEF StopDoes, counts
<1> QED
  BY <1>2, <1>3, <1>4, Deafened DEF IntakeBase, IntakeTypeOK, Told, counts

\* A failed try of a submit: it is tried again, or the watchdog takes over.
Unanswering ==
  /\ page'.view = page.view /\ page'.form = page.form /\ page'.banner = page.banner
  /\ page'.body = page.body
  /\ \/ page'.step = "backoff" /\ page'.tried = page.tried /\ page.tried < Tries
     \/ page'.step = "watchdog" /\ page'.tried = 0
LEMMA UnansweredPage ==
  ASSUME IntakeTypeOK
  PROVE  /\ Unanswered \in Pages
         /\ page' = Unanswered => Unanswering
<1>1. page \in Pages
  BY DEF IntakeTypeOK
<1>2. CASE page.tried < Tries
  BY <1>1, <1>2 DEF Unanswered, Unanswering, Pages
<1>3. CASE ~(page.tried < Tries)
  <2>1. 0 \in 0..(IF Tries > Watches THEN Tries ELSE Watches)
    BY IntakeBounds
  <2> QED BY <1>1, <1>3, <2>1 DEF Unanswered, Unanswering, Pages
<1> QED BY <1>2, <1>3

\* Try s is over, or deaf, and its submit goes on as if it had failed.
Quitting(s) ==
  \/ tries[s].waits = "submit" /\ Unanswering
  \/ tries[s].waits # "submit" /\ page' = page

HearOk(s) ==
  /\ tries[s].step = "ok" /\ tries' = Deaf /\ draft' = Blank
  /\ page'.view = "outcome" /\ page'.step = "idle" /\ page'.form.key = 0
  /\ page'.form.content = page.form.content /\ page'.form.photo = page.form.photo
  /\ page'.banner = page.banner
  /\ shown' = shown \cup {[key |-> tries[s].body.key, content |-> page.form.content]}
  /\ UNCHANGED <<claims, photos, sweep, typed, mishaps,
                 posted, told, crowded, followed, missed, swept, rekeyed>>
LEMMA HearOkTyped ==
  ASSUME IntakeBase, NEW s \in Slots, Hear(s), tries[s].step = "ok"
  PROVE  IntakeTypeOK' /\ HearOk(s)
<1> DEFINE form == [page.form EXCEPT !.key = 0]
           new == [page EXCEPT !.view = "outcome", !.step = "idle", !.form = form]
           x == [key |-> tries[s].body.key, content |-> page.form.content]
<1>1. /\ page' = ShowOutcome /\ draft' = Blank
      /\ tries' = [Deaf EXCEPT ![s] = Free] /\ shown' = shown \cup {x}
      /\ UNCHANGED <<claims, photos, sweep, counts,
                     posted, told, crowded, followed, missed, swept, rekeyed>>
  BY Zenon DEF Hear
<1>2. page \in Pages /\ page.form \in Forms /\ tries[s] \in Try /\ IntakeTypeOK
  BY DEF IntakeBase, IntakeTypeOK, Pages
<1>3. /\ form \in Forms /\ form.content = page.form.content /\ form.key = 0
      /\ form.photo = page.form.photo
  BY <1>2 DEF Forms
<1>4. page' = new
  BY <1>1, <1>2 DEF ShowOutcome, Pages
<1>5. /\ new \in Pages /\ new.view = "outcome" /\ new.step = "idle" /\ new.form = form
      /\ new.banner = page.banner
  BY <1>2, <1>3 DEF Pages
<1>6. tries' = Deaf
  <2>1. Deaf[s] = Free /\ Deaf \in [Slots -> Try]
    BY <1>2, Deafened DEF Answered
  <2> QED BY <1>1, <2>1
<1>7. HearOk(s)
  BY <1>1, <1>3, <1>4, <1>5, <1>6 DEF HearOk, counts
<1>8. x.key \in Ids
  <2>1. tries[s] # Free
    BY FreeSlot
  <2>2. tries[s].body.key # 0
    BY <2>1 DEF IntakeBase, TryInv, TryGood, Complete
  <2> QED BY <1>2, <2>2 DEF Try, Forms
<1>9. x \in [key : Ids, content : Contents \cup {0}]
  BY <1>2, <1>8 DEF Forms
<1>10. shown' \subseteq [key : Ids, content : Contents \cup {0}]
  BY <1>1, <1>2, <1>9 DEF IntakeTypeOK
<1> QED
  BY <1>1, <1>2, <1>4, <1>5, <1>6, <1>7, <1>10, Deafened, BlankPage DEF IntakeTypeOK, counts

HearNo(s) ==
  /\ tries[s].step \in {"failed", "missing"} /\ tries[s].waits # "none"
  /\ tries' \in [Slots -> Try] /\ tries'[s] = Free
  /\ \A t \in Slots \ {s} : tries'[t] = tries[t]
  /\ \/ page' = page /\ tries[s].waits = "watchdog"
     \/ tries[s].waits = "submit" /\ Unanswering
     \/ /\ tries[s].waits = "submit" /\ page'.step = "idle"
        /\ page'.view = page.view /\ page'.form = page.form /\ page'.banner = page.banner
  /\ UNCHANGED <<draft, claims, photos, sweep, Told, rekeyed, typed, mishaps>>
LEMMA HearNoTyped ==
  ASSUME IntakeBase, NEW s \in Slots, Hear(s), tries[s].step # "ok"
  PROVE  IntakeTypeOK' /\ HearNo(s)
<1> DEFINE idle == [page EXCEPT !.step = "idle"]
<1>1. /\ page' = IF tries[s].waits = "watchdog" THEN page
                 ELSE IF tries[s].step = "failed" THEN Unanswered ELSE idle
      /\ tries' = [tries EXCEPT ![s] = Free] /\ tries[s].step \in Answered
      /\ UNCHANGED <<draft, claims, photos, sweep, Told, rekeyed, counts>>
  BY Zenon DEF Hear, Told
<1>2. page \in Pages /\ tries \in [Slots -> Try] /\ tries[s] \in Try /\ IntakeTypeOK
  BY DEF IntakeBase, IntakeTypeOK
<1>3. /\ idle \in Pages /\ idle.step = "idle" /\ idle.view = page.view
      /\ idle.form = page.form /\ idle.banner = page.banner
  BY <1>2 DEF Pages
<1>4. tries[s].waits \in {"submit", "watchdog"}
  BY <1>1, <1>2 DEF IntakeBase, HearInv, HearGood, Try
<1>5. /\ tries' \in [Slots -> Try] /\ tries'[s] = Free
      /\ \A t \in Slots \ {s} : tries'[t] = tries[t]
  BY <1>1, <1>2, FreeSlot
<1>6. page' \in Pages
  BY <1>1, <1>2, <1>3, UnansweredPage
<1> HIDE DEF idle
<1>7. HearNo(s)
  BY <1>1, <1>2, <1>3, <1>4, <1>5, UnansweredPage DEF HearNo, Answered, counts
<1> QED
  BY <1>1, <1>2, <1>5, <1>6, <1>7 DEF IntakeTypeOK, Told, counts

AbortDoes(s) ==
  /\ tries[s].waits # "none" /\ Quitting(s)
  /\ tries' \in [Slots -> Try] /\ tries'[s] = Deaf[s]
  /\ \A t \in Slots \ {s} : tries'[t] = tries[t]
  /\ mishaps' = mishaps + 1
  /\ UNCHANGED <<draft, claims, photos, sweep, Told, rekeyed, typed>>
LEMMA AbortTyped ==
  ASSUME IntakeBase, NEW s \in Slots, Abort(s)
  PROVE  IntakeTypeOK' /\ AbortDoes(s)
<1>1. /\ tries[s].waits # "none"
      /\ mishaps < MaxMishaps /\ mishaps' = mishaps + 1
      /\ page' = IF tries[s].waits = "submit" THEN Unanswered ELSE page
      /\ tries' = [tries EXCEPT ![s] = Deaf[s]]
      /\ UNCHANGED <<draft, claims, photos, sweep, Told, rekeyed, typed, visits, submits>>
  BY DEF Abort, Mishap, Told, traces
<1>2. tries \in [Slots -> Try] /\ IntakeTypeOK /\ page \in Pages
  BY DEF IntakeBase, IntakeTypeOK
<1>3. /\ tries' \in [Slots -> Try] /\ tries'[s] = Deaf[s]
      /\ \A t \in Slots \ {s} : tries'[t] = tries[t]
  BY <1>1, <1>2, Deafened
<1>4. page' \in Pages /\ Quitting(s)
  BY <1>1, <1>2, UnansweredPage DEF Quitting
<1>5. mishaps' \in 0..MaxMishaps
  BY <1>1, <1>2, IntakeBounds DEF IntakeTypeOK
<1>6. AbortDoes(s)
  BY <1>1, <1>3, <1>4 DEF AbortDoes
<1> QED
  BY <1>1, <1>2, <1>3, <1>4, <1>5, <1>6 DEF IntakeTypeOK, Told

\* What was carried out or missed stays so.
Recorded ==
  \A k \in Ids : followed[k] \subseteq followed'[k] /\ missed[k] \subseteq missed'[k]

\* Follow-ups that try s passes over are missed by the claim it filed.
LEMMA Missing ==
  ASSUME IntakeBase, NEW s \in Slots, tries[s] # Free,
         NEW lost \in SUBSET FollowUps, MissedBy(tries[s], lost)
  PROVE  /\ missed' \in [Ids -> SUBSET FollowUps]
         /\ \A k \in Ids : missed[k] \subseteq missed'[k]
         /\ tries[s].filed => lost \subseteq missed'[tries[s].body.key]
<1> DEFINE k == tries[s].body.key
<1>1. k \in Ids /\ missed \in [Ids -> SUBSET FollowUps]
  BY DEF IntakeBase, IntakeTypeOK, TryInv, TryGood, Complete, Try, Forms
<1>2. missed' = IF tries[s].filed THEN [missed EXCEPT ![k] = @ \cup lost] ELSE missed
  BY DEF MissedBy
<1> HIDE DEF k
<1>3. /\ missed' \in [Ids -> SUBSET FollowUps]
      /\ \A j \in Ids : missed[j] \subseteq missed'[j]
      /\ tries[s].filed => lost \subseteq missed'[k]
  BY <1>1, <1>2
<1> QED BY <1>3 DEF k

EvictDoes(s) ==
  /\ tries[s] # Free /\ Quitting(s)
  /\ tries' \in [Slots -> Try] /\ tries'[s] = Free
  /\ \A t \in Slots \ {s} : tries'[t] = tries[t]
  /\ mishaps' = mishaps + 1
  /\ Recorded /\ Ahead(tries[s]) \subseteq missed'[tries[s].body.key]
  /\ UNCHANGED <<draft, claims, photos, sweep, typed,
                 posted, shown, told, crowded, followed, swept, rekeyed>>
LEMMA EvictTyped ==
  ASSUME IntakeBase, NEW s \in Slots, Evict(s)
  PROVE  IntakeTypeOK' /\ EvictDoes(s)
<1>1. /\ tries[s] # Free
      /\ mishaps < MaxMishaps /\ mishaps' = mishaps + 1
      /\ page' = IF tries[s].waits = "submit" THEN Unanswered ELSE page
      /\ tries' = [tries EXCEPT ![s] = Free]
      /\ MissedBy(tries[s], Ahead(tries[s]))
      /\ UNCHANGED <<draft, claims, photos, sweep, typed, visits, submits,
                     posted, shown, told, crowded, followed, swept, rekeyed>>
  BY DEF Evict, Mishap
<1>2. tries \in [Slots -> Try] /\ IntakeTypeOK /\ page \in Pages
  BY DEF IntakeBase, IntakeTypeOK
<1>3. /\ tries' \in [Slots -> Try] /\ tries'[s] = Free
      /\ \A t \in Slots \ {s} : tries'[t] = tries[t]
  BY <1>1, <1>2, FreeSlot
<1>4. page' \in Pages /\ Quitting(s)
  BY <1>1, <1>2, UnansweredPage DEF Quitting
<1>5. mishaps' \in 0..MaxMishaps
  BY <1>1, <1>2, IntakeBounds DEF IntakeTypeOK
<1>6. Ahead(tries[s]) \in SUBSET FollowUps /\ (Ahead(tries[s]) # {} => tries[s].filed)
  BY DEF Ahead
<1>7. /\ missed' \in [Ids -> SUBSET FollowUps] /\ Recorded
      /\ Ahead(tries[s]) \subseteq missed'[tries[s].body.key]
  BY <1>1, <1>6, Missing DEF Recorded
<1>8. EvictDoes(s)
  BY <1>1, <1>3, <1>4, <1>7 DEF EvictDoes
<1> QED
  BY <1>1, <1>2, <1>3, <1>4, <1>5, <1>7, <1>8 DEF IntakeTypeOK

\* The worker's steps leave the page, its draft and the photos alone.
Inside == UNCHANGED <<page, draft, photos, sweep, typed, posted, shown, crowded, rekeyed>>

LookupDoes(s) ==
  /\ tries[s].step = "lookup" /\ Inside
  /\ \/ Filed(tries[s].body.key) /\ Moved(s, "ok") /\ UNCHANGED mishaps
     \/ ~Filed(tries[s].body.key) /\ Moved(s, "head") /\ UNCHANGED mishaps
     \/ Moved(s, "head") /\ mishaps' = mishaps + 1
  /\ UNCHANGED <<claims, told, followed, missed, swept>>
LEMMA LookupTyped ==
  ASSUME IntakeBase, NEW s \in Slots, Lookup(s)
  PROVE  IntakeTypeOK' /\ LookupDoes(s)
<1> DEFINE k == tries[s].body.key
<1>1. /\ tries[s].step = "lookup"
      /\ \/ To(s, IF Filed(k) THEN "ok" ELSE "head") /\ UNCHANGED mishaps
         \/ mishaps < MaxMishaps /\ mishaps' = mishaps + 1 /\ To(s, "head")
      /\ UNCHANGED <<page, draft, claims, photos, sweep, typed, visits, submits, Told, rekeyed>>
  BY DEF Lookup, Known, Mishap, Told, traces
<1>2. IntakeTypeOK
  BY DEF IntakeBase
<1>3. LookupDoes(s) /\ tries' \in [Slots -> Try]
  <2>1. CASE To(s, "head")
    BY <1>1, <1>2, <2>1, ToMoves DEF LookupDoes, Inside, Told, Moved, To
  <2>2. CASE Filed(k) /\ To(s, "ok") /\ UNCHANGED mishaps
    BY <1>1, <1>2, <2>2, ToMoves DEF LookupDoes, Inside, Told, Moved
  <2> QED BY <1>1, <2>1, <2>2
<1>4. mishaps' \in 0..MaxMishaps
  BY <1>1, <1>2, IntakeBounds DEF IntakeTypeOK
<1> QED BY <1>1, <1>2, <1>3, <1>4 DEF IntakeTypeOK, Told

\* The photos are there, or the try ends before it could file anything: for want of
\* a photo, or of R2, which could not look for it or could not save the submission.
HeadDoes(s) ==
  /\ Inside /\ mishaps' \in {mishaps, mishaps + 1}
  /\ \/ /\ tries[s].step = "head" /\ photos[tries[s].body.photo].there
        /\ Moved(s, "insert") /\ UNCHANGED mishaps
     \/ tries[s].step \in {"head", "insert"} /\ (Moved(s, "missing") \/ Moved(s, "failed"))
  /\ UNCHANGED <<claims, told, followed, missed, swept>>
LEMMA HeadTyped ==
  ASSUME IntakeBase, NEW s \in Slots, HeadPhotos(s)
  PROVE  IntakeTypeOK' /\ HeadDoes(s)
<1> DEFINE there == photos[tries[s].body.photo].there
<1>1. /\ tries[s].step = "head"
      /\ \/ To(s, IF there THEN "insert" ELSE "missing") /\ UNCHANGED mishaps
         \/ mishaps < MaxMishaps /\ mishaps' = mishaps + 1 /\ To(s, "missing")
      /\ UNCHANGED <<page, draft, claims, photos, sweep, typed, visits, submits, Told, rekeyed>>
  BY DEF HeadPhotos, Mishap, Told, traces
<1>2. IntakeTypeOK
  BY DEF IntakeBase
<1>3. HeadDoes(s) /\ tries' \in [Slots -> Try]
  <2>1. CASE there /\ To(s, "insert") /\ UNCHANGED mishaps
    BY <1>1, <1>2, <2>1, ToMoves DEF HeadDoes, Inside, Told, Moved
  <2>2. CASE To(s, "missing")
    BY <1>1, <1>2, <2>2, ToMoves DEF HeadDoes, Inside, Told, Moved
  <2> QED BY <1>1, <2>1, <2>2
<1>4. mishaps' \in 0..MaxMishaps
  BY <1>1, <1>2, IntakeBounds DEF IntakeTypeOK
<1> QED BY <1>1, <1>2, <1>3, <1>4 DEF IntakeTypeOK, Told

\* The claim is written under the try's id.
Files(b) ==
  /\ claims'[b.key].content = b.content /\ claims'[b.key].photo = b.photo
  /\ \A k \in Ids \ {b.key} : claims'[k] = claims[k]
  /\ b.photo \in sweep => b.key \in swept'
InsertBy(s, b) ==
  /\ b = tries[s].body /\ tries[s].step = "insert" /\ Inside
  /\ tries' \in [Slots -> Try] /\ \A t \in Slots \ {s} : tries'[t] = tries[t]
  /\ tries'[s].step \in FollowUps /\ tries'[s].body = b /\ tries'[s].waits = tries[s].waits
  /\ swept' \in {swept, swept \cup {b.key}}
  /\ \/ /\ ~Filed(b.key) /\ Files(b) /\ UNCHANGED mishaps
        /\ tries'[s].step = "order" /\ tries'[s].filed
     \/ /\ ~Filed(b.key) /\ Files(b) /\ tries'[s].filed = tries[s].filed
        /\ mishaps' = mishaps + 1 /\ FollowUps \subseteq missed'[b.key]
     \/ /\ UNCHANGED claims /\ tries'[s].filed = tries[s].filed
        /\ \/ Filed(b.key) /\ UNCHANGED mishaps
           \/ mishaps' = mishaps + 1
  /\ Recorded /\ UNCHANGED <<told, followed>>
InsertDoes(s) == InsertBy(s, tries[s].body)
LEMMA InsertTyped ==
  ASSUME IntakeBase, NEW s \in Slots, Insert(s)
  PROVE  IntakeTypeOK' /\ (InsertDoes(s) \/ HeadDoes(s))
<1> DEFINE b == tries[s].body
           claim == [content |-> b.content, photo |-> b.photo]
           rows == [claims EXCEPT ![b.key] = claim]
<1>1. /\ tries[s].step = "insert"
      /\ \/ /\ ~Filed(b.key) /\ claims' = rows
            /\ tries' = [tries EXCEPT ![s].step = "order", ![s].filed = TRUE]
            /\ UNCHANGED <<mishaps, missed>>
         \/ /\ Filed(b.key) /\ To(s, "flow")
            /\ UNCHANGED <<claims, mishaps, missed>>
         \/ /\ ~Filed(b.key) /\ claims' = rows /\ To(s, "flow")
            /\ mishaps < MaxMishaps /\ mishaps' = mishaps + 1
            /\ missed' = [missed EXCEPT ![b.key] = FollowUps]
         \/ /\ mishaps < MaxMishaps /\ mishaps' = mishaps + 1
            /\ To(s, "flow") \/ To(s, "failed")
            /\ UNCHANGED <<claims, missed>>
      /\ swept' = (IF claims' # claims /\ b.photo \in sweep
                   THEN swept \cup {b.key} ELSE swept)
      /\ UNCHANGED <<page, draft, photos, sweep, typed, visits, submits,
                     posted, shown, told, crowded, followed, rekeyed>>
  BY DEF Insert, Mishap
<1>2. /\ IntakeTypeOK /\ tries \in [Slots -> Try] /\ tries[s] \in Try /\ b \in Forms
      /\ claims \in [Ids -> [content : Contents \cup {0}, photo : Photos \cup {0}]]
  BY DEF IntakeBase, IntakeTypeOK, Try
<1>3. b.key \in Ids /\ b.content # 0
  <2>1. tries[s] # Free
    BY <1>1, FreeSlot
  <2> QED BY <1>2, <2>1 DEF IntakeBase, TryInv, TryGood, Complete, Forms
<1>4. claim \in [content : Contents \cup {0}, photo : Photos \cup {0}]
  BY <1>2 DEF Forms
<1>5. /\ rows \in [Ids -> [content : Contents \cup {0}, photo : Photos \cup {0}]]
      /\ rows[b.key] = claim /\ \A k \in Ids \ {b.key} : rows[k] = claims[k]
  BY <1>2, <1>3, <1>4
<1>6. ~Filed(b.key) => rows # claims
  BY <1>3, <1>5 DEF Filed, NoClaim
<1>7. claims' = rows /\ ~Filed(b.key) => Files(b)
  BY <1>1, <1>5, <1>6 DEF Files
<1> HIDE DEF rows
<1>8. claims' \in [Ids -> [content : Contents \cup {0}, photo : Photos \cup {0}]]
  BY <1>1, <1>2, <1>5
<1>9. /\ swept' \in {swept, swept \cup {b.key}} /\ swept' \subseteq Ids
      /\ missed' \in [Ids -> SUBSET FollowUps] /\ Recorded /\ mishaps' \in 0..MaxMishaps
      /\ missed' = [missed EXCEPT ![b.key] = FollowUps] => FollowUps \subseteq missed'[b.key]
  <2>1. swept' \in {swept, swept \cup {b.key}} /\ swept' \subseteq Ids
    BY <1>1, <1>2, <1>3 DEF IntakeTypeOK
  <2>2. missed \in [Ids -> SUBSET FollowUps]
    BY <1>2 DEF IntakeTypeOK
  <2>3. missed' = missed \/ missed' = [missed EXCEPT ![b.key] = FollowUps]
    BY <1>1
  <2>4. /\ missed' \in [Ids -> SUBSET FollowUps] /\ Recorded
        /\ missed' = [missed EXCEPT ![b.key] = FollowUps] => FollowUps \subseteq missed'[b.key]
    BY <1>1, <1>3, <2>2, <2>3 DEF Recorded
  <2>5. mishaps' \in 0..MaxMishaps
    BY <1>1, <1>2, IntakeBounds DEF IntakeTypeOK
  <2> QED BY <2>1, <2>4, <2>5
<1>10. CASE /\ ~Filed(b.key) /\ claims' = rows
            /\ tries' = [tries EXCEPT ![s].step = "order", ![s].filed = TRUE]
            /\ UNCHANGED <<mishaps, missed>>
  <2> DEFINE done == [tries[s] EXCEPT !.step = "order", !.filed = TRUE]
  <2>1. /\ done \in Try /\ done.step = "order" /\ done.step \in FollowUps /\ done.body = b
        /\ done.waits = tries[s].waits /\ done.filed
    BY <1>2 DEF Try, FollowUps
  <2>2. tries' = [tries EXCEPT ![s] = done]
    BY <1>10, <1>2
  <2> HIDE DEF done
  <2>3. /\ tries' \in [Slots -> Try] /\ \A t \in Slots \ {s} : tries'[t] = tries[t]
        /\ tries'[s] = done
    BY <1>2, <2>1, <2>2
  <2>4. InsertDoes(s)
    BY <1>1, <1>7, <1>9, <1>10, <2>1, <2>3 DEF InsertDoes, InsertBy, Inside
  <2> QED
    BY <1>1, <1>2, <1>8, <1>9, <1>10, <2>3, <2>4 DEF IntakeTypeOK
<1>11. CASE To(s, "flow")
  <2>1. /\ tries' \in [Slots -> Try] /\ \A t \in Slots \ {s} : tries'[t] = tries[t]
        /\ tries'[s].step \in FollowUps /\ tries'[s].body = b
        /\ tries'[s].waits = tries[s].waits /\ tries'[s].filed = tries[s].filed
    BY <1>2, <1>11, ToMoves DEF Moved, Answered, FollowUps
  <2>2. \/ /\ ~Filed(b.key) /\ claims' = rows /\ mishaps' = mishaps + 1
           /\ missed' = [missed EXCEPT ![b.key] = FollowUps]
        \/ UNCHANGED claims /\ Filed(b.key) /\ UNCHANGED mishaps
        \/ UNCHANGED claims /\ mishaps' = mishaps + 1
        \/ /\ ~Filed(b.key) /\ claims' = rows /\ UNCHANGED <<mishaps, missed>>
           /\ tries' = [tries EXCEPT ![s].step = "order", ![s].filed = TRUE]
    BY <1>1
  <2>3. CASE tries' # [tries EXCEPT ![s].step = "order", ![s].filed = TRUE]
    <3>1. InsertDoes(s)
      BY <1>1, <1>7, <1>9, <2>1, <2>2, <2>3 DEF InsertDoes, InsertBy, Inside
    <3> QED
      BY <1>1, <1>2, <1>8, <1>9, <2>1, <3>1 DEF IntakeTypeOK
  <2>4. CASE tries' = [tries EXCEPT ![s].step = "order", ![s].filed = TRUE]
    <3>1. [tries[s] EXCEPT !.step = "order", !.filed = TRUE].step = "order"
      BY <1>2 DEF Try
    <3>2. tries'[s].step = "order"
      BY <1>2, <2>4, <3>1
    <3>3. tries'[s].step = "flow"
      BY <1>2, <1>11, ToMoves DEF Moved, Answered, FollowUps
    <3> QED BY <3>2, <3>3
  <2> QED BY <2>3, <2>4
<1>12. CASE To(s, "failed") /\ UNCHANGED <<claims, missed>> /\ mishaps' = mishaps + 1
  <2>1. Moved(s, "failed") /\ tries' \in [Slots -> Try]
    BY <1>2, <1>12, ToMoves DEF Moved
  <2>2. HeadDoes(s)
    BY <1>1, <1>12, <2>1 DEF HeadDoes, Inside
  <2> QED
    BY <1>1, <1>2, <1>8, <1>9, <2>1, <2>2 DEF IntakeTypeOK
<1> QED BY <1>1, <1>10, <1>11, <1>12

\* What try s owed its claim was carried out or missed, or is still ahead of it.
Pays(s) ==
  \A f \in Ahead(tries[s]) :
    \/ f \in followed'[tries[s].body.key] \cup missed'[tries[s].body.key]
    \/ f \in Ahead(tries'[s]) /\ tries'[s].body = tries[s].body
FollowDoes(s) ==
  /\ tries[s].step \in FollowUps /\ Inside /\ mishaps' \in {mishaps, mishaps + 1}
  /\ \/ (Moved(s, "flow") \/ Moved(s, "mail")) /\ UNCHANGED told
     \/ tries[s].filed /\ Moved(s, "ok") /\ UNCHANGED told
     \/ Moved(s, "failed") /\ mishaps' = mishaps + 1 /\ UNCHANGED told
     \/ /\ ~tries[s].filed /\ Moved(s, "failed") /\ UNCHANGED mishaps
        /\ told'[tries[s].body.key] = told[tries[s].body.key] + 1
        /\ \A k \in Ids \ {tries[s].body.key} : told'[k] = told[k]
  /\ Recorded /\ Pays(s) /\ UNCHANGED <<claims, swept>>

\* One follow-up's call, carried out or missed.
LEMMA Calling ==
  ASSUME IntakeBase, NEW s \in Slots, tries[s] # Free, NEW f \in FollowUps, Calls(s, f)
  PROVE  /\ followed' \in [Ids -> SUBSET FollowUps] /\ missed' \in [Ids -> SUBSET FollowUps]
         /\ mishaps' \in 0..MaxMishaps /\ mishaps' \in {mishaps, mishaps + 1} /\ Recorded
         /\ tries[s].filed => f \in followed'[tries[s].body.key] \cup missed'[tries[s].body.key]
<1> DEFINE k == tries[s].body.key
<1>1. /\ k \in Ids /\ mishaps \in 0..MaxMishaps
      /\ followed \in [Ids -> SUBSET FollowUps] /\ missed \in [Ids -> SUBSET FollowUps]
  BY DEF IntakeBase, IntakeTypeOK, TryInv, TryGood, Complete, Try, Forms
<1>2. CASE /\ followed' = IF tries[s].filed THEN [followed EXCEPT ![k] = @ \cup {f}] ELSE followed
           /\ UNCHANGED <<mishaps, missed>>
  <2> HIDE DEF k
  <2>1. /\ followed' \in [Ids -> SUBSET FollowUps]
        /\ \A j \in Ids : followed[j] \subseteq followed'[j]
        /\ tries[s].filed => f \in followed'[k]
    BY <1>1, <1>2
  <2> QED BY <1>1, <1>2, <2>1 DEF Recorded, k
<1>3. CASE /\ mishaps < MaxMishaps /\ mishaps' = mishaps + 1
           /\ MissedBy(tries[s], {f}) /\ UNCHANGED followed
  <2>1. /\ missed' \in [Ids -> SUBSET FollowUps]
        /\ \A j \in Ids : missed[j] \subseteq missed'[j]
        /\ tries[s].filed => f \in missed'[k]
    BY <1>3, Missing
  <2>2. mishaps' \in 0..MaxMishaps
    BY <1>1, <1>3, IntakeBounds
  <2> QED BY <1>1, <1>3, <2>1, <2>2 DEF Recorded
<1> QED BY <1>2, <1>3 DEF Calls, Owes, Mishap

\* Where try s goes with its follow-ups, and what is left of them.
LEMMA DebtPaid ==
  ASSUME IntakeBase, NEW s \in Slots, NEW f \in FollowUps, tries[s].step = f,
         tries[s].filed => f \in followed'[tries[s].body.key] \cup missed'[tries[s].body.key],
         \/ f = "order" /\ Moved(s, "flow")
         \/ f = "flow" /\ Moved(s, "mail")
         \/ f = "mail"
  PROVE  Pays(s)
<1> SUFFICES ASSUME NEW g \in Ahead(tries[s]), g # f
             PROVE  g \in Ahead(tries'[s]) /\ tries'[s].body = tries[s].body
  BY DEF Pays, Ahead
<1>1. g \in FollowUps /\ tries[s].filed
  BY DEF Ahead
<1>2. CASE f = "order" /\ Moved(s, "flow")
  <2>1. tries'[s].step = "flow" /\ tries'[s].filed /\ tries'[s].body = tries[s].body
    BY <1>1, <1>2 DEF Moved, Answered
  <2> QED BY <1>1, <1>2, <2>1 DEF Ahead
<1>3. CASE f = "flow" /\ Moved(s, "mail")
  <2>1. tries'[s].step = "mail" /\ tries'[s].filed /\ tries'[s].body = tries[s].body
    BY <1>1, <1>3 DEF Moved, Answered
  <2>2. g = "mail"
    BY <1>1, <1>3 DEF Ahead, FollowUps
  <2> QED BY <1>1, <2>1, <2>2 DEF Ahead
<1>4. CASE f = "mail"
  BY <1>1, <1>4 DEF Ahead
<1> QED BY <1>2, <1>3, <1>4

\* The try's slot is in hand and its claim's id is one.
LEMMA Following ==
  ASSUME IntakeBase, NEW s \in Slots, tries[s].step \in FollowUps
  PROVE  IntakeTypeOK /\ tries[s] # Free /\ tries[s].body.key \in Ids
<1>1. tries[s] # Free /\ IntakeTypeOK
  BY FreeSlot DEF FollowUps, IntakeBase
<1> QED BY <1>1 DEF IntakeBase, IntakeTypeOK, TryInv, TryGood, Complete, Try, Forms

LEMMA OrderTyped ==
  ASSUME IntakeBase, NEW s \in Slots, WorkOrder(s)
  PROVE  IntakeTypeOK' /\ FollowDoes(s)
<1>1. /\ tries[s].step = "order" /\ Calls(s, "order") /\ To(s, "flow")
      /\ "order" \in FollowUps /\ "flow" \in FollowUps
      /\ UNCHANGED <<page, draft, claims, photos, sweep, typed, visits, submits,
                     posted, shown, told, crowded, swept, rekeyed>>
  BY DEF WorkOrder, FollowUps
<1>2. IntakeTypeOK /\ tries[s] # Free
  BY <1>1, Following
<1>3. Moved(s, "flow") /\ tries' \in [Slots -> Try]
  BY <1>1, <1>2, ToMoves DEF Moved
<1>4. /\ followed' \in [Ids -> SUBSET FollowUps] /\ missed' \in [Ids -> SUBSET FollowUps]
      /\ mishaps' \in 0..MaxMishaps /\ mishaps' \in {mishaps, mishaps + 1} /\ Recorded
  BY <1>1, <1>2, Calling
<1>5. Pays(s)
  BY <1>1, <1>2, <1>3, Calling, DebtPaid
<1>6. FollowDoes(s)
  BY <1>1, <1>3, <1>4, <1>5 DEF FollowDoes, Inside
<1> QED BY <1>1, <1>2, <1>3, <1>4, <1>6 DEF IntakeTypeOK

LEMMA FlowTyped ==
  ASSUME IntakeBase, NEW s \in Slots, Flow(s)
  PROVE  IntakeTypeOK' /\ FollowDoes(s)
<1>1. /\ tries[s].step = "flow" /\ "flow" \in FollowUps /\ "mail" \in FollowUps
      /\ \/ Calls(s, "flow") /\ To(s, "mail")
         \/ /\ mishaps < MaxMishaps /\ mishaps' = mishaps + 1
            /\ MissedBy(tries[s], {"flow", "mail"}) /\ To(s, "failed") /\ UNCHANGED followed
      /\ UNCHANGED <<page, draft, claims, photos, sweep, typed, visits, submits,
                     posted, shown, told, crowded, swept, rekeyed>>
  BY DEF Flow, FollowUps, Mishap
<1>2. IntakeTypeOK /\ tries[s] # Free
  BY <1>1, Following
<1>3. CASE Calls(s, "flow") /\ To(s, "mail")
  <2>1. Moved(s, "mail") /\ tries' \in [Slots -> Try]
    BY <1>1, <1>2, <1>3, ToMoves DEF Moved
  <2>2. /\ followed' \in [Ids -> SUBSET FollowUps] /\ missed' \in [Ids -> SUBSET FollowUps]
        /\ mishaps' \in 0..MaxMishaps /\ mishaps' \in {mishaps, mishaps + 1} /\ Recorded
    BY <1>1, <1>2, <1>3, Calling
  <2>3. Pays(s)
    BY <1>1, <1>2, <1>3, <2>1, Calling, DebtPaid
  <2>4. FollowDoes(s)
    BY <1>1, <2>1, <2>2, <2>3 DEF FollowDoes, Inside
  <2> QED BY <1>1, <1>2, <2>1, <2>2, <2>4 DEF IntakeTypeOK
<1>4. CASE /\ mishaps < MaxMishaps /\ mishaps' = mishaps + 1
           /\ MissedBy(tries[s], {"flow", "mail"}) /\ To(s, "failed") /\ UNCHANGED followed
  <2>1. Moved(s, "failed") /\ tries' \in [Slots -> Try]
    BY <1>2, <1>4, ToMoves DEF Moved
  <2>2. /\ missed' \in [Ids -> SUBSET FollowUps] /\ Recorded
        /\ tries[s].filed => {"flow", "mail"} \subseteq missed'[tries[s].body.key]
    BY <1>1, <1>2, <1>4, Missing DEF Recorded
  <2>3. Pays(s)
    BY <1>1, <2>2 DEF Pays, Ahead, FollowUps
  <2>4. mishaps' \in 0..MaxMishaps
    BY <1>2, <1>4, IntakeBounds DEF IntakeTypeOK
  <2>5. FollowDoes(s)
    BY <1>1, <1>4, <2>1, <2>2, <2>3 DEF FollowDoes, Inside
  <2> QED BY <1>1, <1>2, <1>4, <2>1, <2>2, <2>4, <2>5 DEF IntakeTypeOK
<1> QED BY <1>1, <1>3, <1>4

LEMMA MailTyped ==
  ASSUME IntakeBase, NEW s \in Slots, Mail(s)
  PROVE  IntakeTypeOK' /\ FollowDoes(s)
<1> DEFINE k == tries[s].body.key
<1>1. /\ tries[s].step = "mail" /\ "mail" \in FollowUps /\ Calls(s, "mail")
      /\ To(s, IF tries[s].filed THEN "ok" ELSE "failed")
      /\ told' = IF tries[s].filed \/ mishaps' # mishaps THEN told
                 ELSE [told EXCEPT ![k] = @ + 1]
      /\ UNCHANGED <<page, draft, claims, photos, sweep, typed, visits, submits,
                     posted, shown, crowded, swept, rekeyed>>
  BY DEF Mail, FollowUps, Says
<1>2. IntakeTypeOK /\ tries[s] # Free /\ k \in Ids
  BY <1>1, Following
<1>3. /\ followed' \in [Ids -> SUBSET FollowUps] /\ missed' \in [Ids -> SUBSET FollowUps]
      /\ mishaps' \in 0..MaxMishaps /\ mishaps' \in {mishaps, mishaps + 1} /\ Recorded
  BY <1>1, <1>2, Calling
<1>4. Pays(s)
  BY <1>1, <1>2, Calling, DebtPaid
<1>5. /\ told' \in [Ids -> Nat]
      /\ ~tries[s].filed /\ mishaps' = mishaps =>
           told'[k] = told[k] + 1 /\ \A j \in Ids \ {k} : told'[j] = told[j]
  BY <1>1, <1>2 DEF IntakeTypeOK
<1>6. FollowDoes(s) /\ tries' \in [Slots -> Try]
  <2>1. CASE tries[s].filed
    <3>1. Moved(s, "ok") /\ tries' \in [Slots -> Try] /\ UNCHANGED told
      BY <1>1, <1>2, <2>1, ToMoves DEF Moved
    <3> QED BY <1>1, <1>3, <1>4, <2>1, <3>1 DEF FollowDoes, Inside
  <2>2. CASE ~tries[s].filed
    <3>1. Moved(s, "failed") /\ tries' \in [Slots -> Try]
      BY <1>1, <1>2, <2>2, ToMoves DEF Moved
    <3>2. CASE mishaps' = mishaps
      BY <1>1, <1>3, <1>4, <1>5, <2>2, <3>1, <3>2 DEF FollowDoes, Inside
    <3>3. CASE mishaps' # mishaps
      BY <1>1, <1>3, <1>4, <3>1, <3>3 DEF FollowDoes, Inside
    <3> QED BY <3>2, <3>3
  <2> QED BY <2>1, <2>2
<1> QED BY <1>1, <1>2, <1>3, <1>5, <1>6 DEF IntakeTypeOK

LookDoes ==
  /\ sweep = {} /\ sweep' \subseteq {p \in Photos : Orphan(p)}
  /\ UNCHANGED <<page, draft, tries, claims, photos, Told, rekeyed, typed, mishaps>>
LEMMA LookTyped == ASSUME IntakeBase, SweepLook PROVE IntakeTypeOK' /\ LookDoes
<1>1. LookDoes /\ UNCHANGED counts
  BY DEF SweepLook, LookDoes, Told, traces, counts
<1> QED BY <1>1 DEF IntakeBase, IntakeTypeOK, LookDoes, Told, counts

DeleteDoes ==
  /\ sweep' = {}
  /\ \A p \in Photos :
       /\ photos'[p].key = photos[p].key
       /\ photos'[p].there = (photos[p].there /\ p \notin sweep)
  /\ swept \subseteq swept'
  /\ \A s \in Slots : tries[s].step = "insert" /\ tries[s].body.photo \in sweep =>
       tries[s].body.key \in swept'
  /\ UNCHANGED <<page, draft, tries, claims, posted, shown, told, crowded, followed,
                 missed, rekeyed, typed, mishaps>>
LEMMA DeleteTyped == ASSUME IntakeBase, SweepDelete PROVE IntakeTypeOK' /\ DeleteDoes
<1> DEFINE gone == {tries[s].body.key : s \in {t \in Slots :
                      tries[t].step = "insert" /\ tries[t].body.photo \in sweep}}
<1>1. /\ photos' = [p \in Photos |-> IF p \in sweep THEN [photos[p] EXCEPT !.there = FALSE]
                                     ELSE photos[p]]
      /\ sweep' = {} /\ swept' = swept \cup gone
      /\ UNCHANGED <<page, draft, tries, claims, counts, posted, shown, told, crowded,
                     followed, missed, rekeyed>>
  BY DEF SweepDelete
<1>2. IntakeTypeOK /\ photos \in [Photos -> [key : Ids \cup {0}, there : BOOLEAN]]
  BY DEF IntakeBase, IntakeTypeOK
<1>3. ASSUME NEW p \in Photos
      PROVE  /\ photos'[p] \in [key : Ids \cup {0}, there : BOOLEAN]
             /\ photos'[p].key = photos[p].key
             /\ photos'[p].there = (photos[p].there /\ p \notin sweep)
  <2>1. photos[p] \in [key : Ids \cup {0}, there : BOOLEAN]
    BY <1>2
  <2>2. CASE p \in sweep
    BY <1>1, <2>1, <2>2
  <2>3. CASE p \notin sweep
    BY <1>1, <2>1, <2>3
  <2> QED BY <2>2, <2>3
<1>4. photos' \in [Photos -> [key : Ids \cup {0}, there : BOOLEAN]]
  BY <1>1, <1>3
<1>5. ASSUME NEW s \in Slots, tries[s].step = "insert"
      PROVE  tries[s].body.key \in Ids
  <2>1. tries[s] # Free /\ tries[s] \in Try
    BY <1>2, <1>5, FreeSlot DEF IntakeTypeOK
  <2> QED BY <2>1 DEF IntakeBase, TryInv, TryGood, Complete, Try, Forms
<1>6. swept' \subseteq Ids
  BY <1>1, <1>2, <1>5 DEF IntakeTypeOK
<1>7. DeleteDoes
  BY <1>1, <1>3 DEF DeleteDoes, counts
<1> QED BY <1>1, <1>2, <1>4, <1>6, <1>7 DEF IntakeTypeOK, counts

-----------------------------------------------------------------------------
(* Intake: the steps. *)

Editing == OpenDoes \/ TypeDoes \/ UploadDoes \/ SaveDoes \/ ResumeDoes \/ StartDoes
Sending == SubmitDoes \/ RetryDoes \/ WatchDoes
Quieting == CloseDoes \/ StopDoes \/ \E s \in Slots : HearOk(s)
Ending(s) == HearNo(s) \/ AbortDoes(s) \/ EvictDoes(s)
Working(s) == LookupDoes(s) \/ HeadDoes(s) \/ InsertDoes(s) \/ FollowDoes(s)
Sweeping == LookDoes \/ DeleteDoes
IntakeMoves ==
  Editing \/ Sending \/ Quieting \/ Sweeping \/ \E s \in Slots : Ending(s) \/ Working(s)

LEMMA Stepping == ASSUME IntakeBase, IntakeNext PROVE IntakeTypeOK' /\ IntakeMoves
<1>1. CASE Open
  BY <1>1, OpenTyped DEF IntakeMoves, Editing
<1>2. CASE Close
  BY <1>2, CloseTyped DEF IntakeMoves, Quieting
<1>3. CASE Type
  BY <1>3, TypeTyped DEF IntakeMoves, Editing
<1>4. CASE Upload
  BY <1>4, UploadTyped DEF IntakeMoves, Editing
<1>5. CASE Resume
  BY <1>5, ResumeTyped DEF IntakeMoves, Editing
<1>6. CASE StartOver
  BY <1>6, StartTyped DEF IntakeMoves, Editing
<1>7. CASE Submit
  BY <1>7, SubmitTyped DEF IntakeMoves, Sending
<1>8. CASE SaveDraft
  BY <1>8, SaveTyped DEF IntakeMoves, Editing
<1>9. CASE TryAgain
  BY <1>9, RetryTyped DEF IntakeMoves, Sending
<1>10. CASE Watch
  BY <1>10, WatchTyped DEF IntakeMoves, Sending
<1>11. CASE StopWatching
  BY <1>11, StopTyped DEF IntakeMoves, Quieting
<1>12. CASE Sweep
  BY <1>12, LookTyped, DeleteTyped DEF IntakeMoves, Sweep, Sweeping
<1>13. ASSUME NEW s \in Slots, Hear(s)
       PROVE  IntakeTypeOK' /\ IntakeMoves
  BY <1>13, HearOkTyped, HearNoTyped DEF IntakeMoves, Quieting, Ending
<1>14. ASSUME NEW s \in Slots, Abort(s) \/ Evict(s)
       PROVE  IntakeTypeOK' /\ IntakeMoves
  BY <1>14, AbortTyped, EvictTyped DEF IntakeMoves, Ending
<1>15. ASSUME NEW s \in Slots, Worker(s)
       PROVE  IntakeTypeOK' /\ IntakeMoves
  BY <1>15, LookupTyped, HeadTyped, InsertTyped, OrderTyped, FlowTyped, MailTyped
     DEF IntakeMoves, Working, Worker
<1> QED
  BY <1>1, <1>2, <1>3, <1>4, <1>5, <1>6, <1>7, <1>8, <1>9, <1>10, <1>11, <1>12, <1>13,
     <1>14, <1>15 DEF IntakeNext, Person, Timers

\* What no step takes back.
Grows ==
  /\ \A k \in Ids : /\ posted[k] \subseteq posted'[k]
                    /\ Filed(k) => claims'[k] = claims[k]
  /\ swept \subseteq swept'
  /\ \A p \in Photos : photos[p].key # 0 => photos'[p].key = photos[p].key
  /\ \A s \in Slots :
       /\ tries[s].step = "insert"
       /\ photos[tries[s].body.photo].there \/ tries[s].body.key \in swept
       => photos'[tries[s].body.photo].there \/ tries[s].body.key \in swept'

LEMMA SentGrows ==
  ASSUME NEW s, NEW b, NEW who, NEW hears, SentBy(s, b, who, hears)
  PROVE  \A k \in Ids : posted[k] \subseteq posted'[k]
<1> TAKE k \in Ids
<1>1. CASE k = b.key
  BY <1>1 DEF SentBy
<1>2. CASE k # b.key
  BY <1>2 DEF SentBy
<1> QED BY <1>1, <1>2

LEMMA IntakeGrowing == ASSUME IntakeBase, IntakeMoves PROVE Grows
<1> DEFINE Same == UNCHANGED <<posted, claims, swept, photos>>
<1>1. Same => Grows
  BY DEF Grows
<1>2. CASE Editing
  <2>1. CASE UploadDoes
    <3>1. PICK p \in Photos, k \in Ids : UploadBy(p, k)
      BY <2>1 DEF UploadDoes
    <3>2. ASSUME NEW s \in Slots, tries[s].step = "insert"
          PROVE  tries[s].body.photo \in Photos
      <4>1. tries[s] # Free /\ tries[s] \in Try
        BY <3>2, FreeSlot DEF IntakeBase, IntakeTypeOK
      <4> QED BY <4>1 DEF IntakeBase, TryInv, TryGood, Complete, Try, Forms
    <3>3. \A q \in Photos : (photos[q].there => photos'[q].there)
      BY <3>1 DEF UploadBy
    <3> QED BY <3>1, <3>2, <3>3 DEF Grows, UploadBy, Told
  <2>2. CASE SaveDoes
    BY <1>1, <2>2 DEF SaveDoes, SaveBy, Filing, Told
  <2> QED
    BY <1>1, <1>2, <2>1, <2>2
       DEF Editing, OpenDoes, TypeDoes, ResumeDoes, StartDoes, Filing, Told
<1>3. CASE Sending
  <2>1. UNCHANGED <<claims, swept, photos>>
    BY <1>3 DEF Sending, SubmitDoes, SubmitBy, RetryDoes, WatchDoes, AgainBy
  <2>2. \A k \in Ids : posted[k] \subseteq posted'[k]
    <3>1. PICK s, b, who, hears : SentBy(s, b, who, hears)
      BY <1>3, Zenon DEF Sending, SubmitDoes, SubmitBy, RetryDoes, WatchDoes, AgainBy
    <3> QED BY <3>1, SentGrows
  <2> QED BY <2>1, <2>2 DEF Grows
<1>4. CASE Quieting
  BY <1>1, <1>4 DEF Quieting, CloseDoes, StopDoes, HearOk, Told
<1>5. CASE LookDoes
  BY <1>1, <1>5 DEF LookDoes, Told
<1>6. CASE DeleteDoes
  <2>1. UNCHANGED <<posted, claims>> /\ swept \subseteq swept'
    BY <1>6 DEF DeleteDoes
  <2>2. \A p \in Photos : photos'[p].key = photos[p].key
    BY <1>6 DEF DeleteDoes
  <2>3. ASSUME NEW s \in Slots, tries[s].step = "insert",
               photos[tries[s].body.photo].there \/ tries[s].body.key \in swept
        PROVE  photos'[tries[s].body.photo].there \/ tries[s].body.key \in swept'
    <3>1. tries[s] # Free /\ tries[s] \in Try
      BY <2>3, FreeSlot DEF IntakeBase, IntakeTypeOK
    <3>2. tries[s].body.photo \in Photos
      BY <3>1 DEF IntakeBase, TryInv, TryGood, Complete, Try, Forms
    <3> QED BY <1>6, <2>1, <2>3, <3>2 DEF DeleteDoes
  <2> QED BY <2>1, <2>2, <2>3 DEF Grows
<1>7. ASSUME NEW s \in Slots, Ending(s)
      PROVE  Grows
  BY <1>1, <1>7 DEF Ending, HearNo, AbortDoes, EvictDoes, Told
<1>8. ASSUME NEW s \in Slots, Working(s), ~InsertDoes(s)
      PROVE  Grows
  BY <1>1, <1>8 DEF Working, LookupDoes, HeadDoes, FollowDoes, Inside
<1>9. ASSUME NEW s \in Slots, InsertDoes(s)
      PROVE  Grows
  <2>1. UNCHANGED <<posted, photos>> /\ swept \subseteq swept'
    BY <1>9 DEF InsertDoes, InsertBy, Inside
  <2>2. \A k \in Ids : Filed(k) => claims'[k] = claims[k]
    BY <1>9 DEF InsertDoes, InsertBy, Files
  <2> QED BY <2>1, <2>2 DEF Grows
<1> QED
  BY <1>2, <1>3, <1>4, <1>5, <1>6, <1>7, <1>8, <1>9 DEF IntakeMoves, Sweeping

\* A try in hand carries ids, contents and photos that there are.
LEMMA InHand ==
  ASSUME IntakeBase, NEW s \in Slots, tries[s] # Free
  PROVE  /\ tries[s] \in Try /\ tries[s].body \in Forms /\ tries[s].body.key \in Ids
         /\ tries[s].body.content \in Contents /\ tries[s].body.photo \in Photos
         /\ TryGood(s) /\ tries[s].step # "free"
BY DEF IntakeBase, IntakeTypeOK, TryInv, TryGood, Complete, Try, Forms

LEMMA StepInHand ==
  ASSUME NEW s, tries[s].step # "free"
  PROVE  tries[s] # Free
BY FreeSlot

\* Try s is over, or as it was but for who listens.
Fades(s) ==
  \/ tries'[s] = Free
  \/ /\ tries'[s].step = tries[s].step /\ tries'[s].body = tries[s].body
     /\ tries'[s].filed = tries[s].filed /\ tries'[s].waits \in {tries[s].waits, "none"}

LEMMA FadesFree ==
  ASSUME IntakeBase, IntakeTypeOK', NEW s \in Slots, Fades(s), tries[s] = Free
  PROVE  tries'[s] = Free
<1>1. CASE tries'[s] # Free
  <2>1. tries'[s] \in Try
    BY DEF IntakeTypeOK
  <2>2. /\ tries'[s].step = "free" /\ tries'[s].body = Blank /\ tries'[s].filed = FALSE
        /\ tries'[s].waits = "none"
    BY <1>1, FreeSlot DEF Fades
  <2> QED BY <2>1, <2>2 DEF Try, Free
<1> QED BY <1>1

LEMMA SoundGrows ==
  ASSUME Grows, NEW b, b.key \in Ids, Complete(b)
  PROVE  Complete(b)'
BY DEF Complete, Grows

LEMMA FiledGrows ==
  ASSUME Grows, NEW k \in Ids, Filed(k)
  PROVE  Filed(k)' /\ claims'[k] = claims[k]
BY DEF Filed, Grows

LEMMA TryFades ==
  ASSUME IntakeBase, IntakeTypeOK', Grows, NEW s \in Slots, Fades(s)
  PROVE  TryGood(s)'
<1>1. CASE tries'[s] = Free
  BY <1>1 DEF TryGood
<1>2. CASE tries'[s] # Free
  <2>1. tries[s] # Free
    BY <1>2, FadesFree
  <2>2. /\ tries'[s].step = tries[s].step /\ tries'[s].body = tries[s].body
        /\ tries'[s].filed = tries[s].filed
    BY <1>2 DEF Fades
  <2>3. Complete(tries[s].body)' /\ (Filed(tries[s].body.key) => Filed(tries[s].body.key)')
    <3> DEFINE b == tries[s].body
               c == tries'[s].body
    <3>1. b.key \in Ids /\ Complete(b) /\ c = b
      BY <2>1, <2>2, InHand DEF TryGood
    <3>2. c.key \in Ids /\ Complete(c)
      BY <3>1
    <3> HIDE DEF b, c
    <3>3. /\ c.content # 0 /\ c.key # 0 /\ c.photo # 0 /\ c.content \in posted'[c.key]
          /\ Filed(c.key) => claims'[c.key] # NoClaim
      BY <3>2, Zenon DEF Complete, Grows, Filed
    <3> USE DEF c
    <3>4. Filed(b.key) => claims'[c.key] # NoClaim
      BY <3>1, <3>3
    <3> QED BY <3>3, <3>4 DEF b, Complete, Filed
  <2>4. tries[s].step = "insert" =>
          photos'[tries'[s].body.photo].there \/ tries'[s].body.key \in swept'
    BY <2>1, <2>2, InHand DEF TryGood, Grows
  <2> QED
    BY <2>1, <2>2, <2>3, <2>4, InHand DEF TryGood
<1> QED BY <1>1, <1>2

\* Only a try that is sent, or that the worker goes on with, is more than it was.
LEMMA Fading ==
  ASSUME IntakeBase, Editing \/ Quieting \/ Sweeping \/ \E s \in Slots : Ending(s)
  PROVE  \A t \in Slots : Fades(t)
<1> TAKE t \in Slots
<1>1. tries' = tries => Fades(t)
  BY DEF Fades
<1>2. tries'[t] = Deaf[t] => Fades(t)
  BY Deafened DEF Fades, IntakeBase
<1>3. CASE Editing
  BY <1>1, <1>3 DEF Editing, OpenDoes, TypeDoes, UploadDoes, UploadBy, SaveDoes, SaveBy,
                    ResumeDoes, StartDoes, Filing
<1>4. CASE Quieting
  BY <1>2, <1>4 DEF Quieting, CloseDoes, StopDoes, HearOk
<1>5. CASE Sweeping
  BY <1>1, <1>5 DEF Sweeping, LookDoes, DeleteDoes
<1>6. ASSUME NEW s \in Slots, Ending(s)
      PROVE  Fades(t)
  <2>1. CASE t = s
    BY <1>2, <1>6, <2>1 DEF Ending, HearNo, AbortDoes, EvictDoes, Fades
  <2>2. CASE t # s
    BY <1>6, <2>2 DEF Ending, HearNo, AbortDoes, EvictDoes, Fades
  <2> QED BY <2>1, <2>2
<1> QED BY <1>3, <1>4, <1>5, <1>6

\* What is sent: a body that is complete, from a slot that was free.
SentOut(s) ==
  \E b \in Forms, who \in {"submit", "watchdog"}, hears \in {tries, Deaf} :
    /\ SentBy(s, b, who, hears) /\ page'.body = b
    /\ b.content # 0 /\ b.key # 0 /\ b.photo # 0
    /\ UNCHANGED <<claims, photos, sweep, told, mishaps, shown, followed, missed, swept>>
LEMMA SendingSends ==
  ASSUME IntakeBase, Sending
  PROVE  \E s \in Slots : SentOut(s)
<1>1. CASE SubmitDoes
  <2>1. PICK b \in Forms, s \in Slots : SubmitBy(b, s)
    BY <1>1 DEF SubmitDoes
  <2> QED BY <2>1 DEF SubmitBy, SentOut, Keyed
<1>2. ASSUME NEW s \in Slots, NEW who \in {"submit", "watchdog"}, AgainBy(s, who),
             page.step # "idle"
      PROVE  SentOut(s)
  <2>1. page.body \in Forms /\ Complete(page.body)
    BY <1>2 DEF IntakeBase, PageInv, IntakeTypeOK, Pages
  <2> QED BY <1>2, <2>1 DEF AgainBy, SentOut, Complete
<1> QED BY <1>1, <1>2 DEF Sending, RetryDoes, WatchDoes

LEMMA SentOthers ==
  ASSUME IntakeBase, NEW s \in Slots, SentOut(s), NEW t \in Slots, t # s
  PROVE  Fades(t)
<1>1. PICK b \in Forms, who \in {"submit", "watchdog"}, hears \in {tries, Deaf} :
        SentBy(s, b, who, hears)
  BY DEF SentOut
<1>2. tries'[t] = hears[t]
  BY <1>1 DEF SentBy
<1> QED BY <1>2, Deafened DEF Fades, IntakeBase

LEMMA TryStep ==
  ASSUME IntakeBase, IntakeTypeOK', IntakeMoves
  PROVE  TryInv'
<1> SUFFICES ASSUME NEW t \in Slots PROVE TryGood(t)'
  BY DEF TryInv
<1>0. Grows
  BY IntakeGrowing
<1>1. Fades(t) => TryGood(t)'
  BY <1>0, TryFades
<1>2. ASSUME Sending PROVE TryGood(t)'
  <2>1. PICK s \in Slots : SentOut(s)
    BY <1>2, SendingSends
  <2>2. CASE t = s
    <3>1. PICK b \in Forms, who \in {"submit", "watchdog"}, hears \in {tries, Deaf} :
            SentBy(s, b, who, hears) /\ b.content # 0 /\ b.key # 0 /\ b.photo # 0
      BY <2>1 DEF SentOut
    <3> QED BY <2>2, <3>1 DEF SentBy, TryGood, Complete
  <2> QED BY <1>1, <2>1, <2>2, SentOthers
<1>3. ASSUME NEW s \in Slots, Working(s) PROVE TryGood(t)'
  <2>1. CASE t # s
    <3>1. tries'[t] = tries[t]
      BY <1>3, <2>1 DEF Working, LookupDoes, HeadDoes, InsertDoes, InsertBy, FollowDoes, Moved
    <3> QED BY <1>1, <3>1 DEF Fades
  <2>2. CASE t = s
    <3>1. tries[s] # Free /\ TryGood(s)
      BY <1>3, StepInHand, InHand
         DEF Working, LookupDoes, HeadDoes, InsertDoes, InsertBy, FollowDoes, FollowUps
    <3>2. Complete(tries[s].body) /\ tries[s].body.key \in Ids
      BY <3>1, InHand DEF TryGood
    <3>3. tries'[s].body = tries[s].body =>
            /\ Complete(tries[s].body)'
            /\ Filed(tries[s].body.key) => Filed(tries[s].body.key)'
      BY <1>0, <3>2 DEF Complete, Filed, Grows
    <3>4. CASE LookupDoes(s)
      BY <2>2, <3>1, <3>3, <3>4 DEF LookupDoes, Moved, TryGood, FollowUps
    <3>5. CASE HeadDoes(s)
      BY <2>2, <3>1, <3>3, <3>5 DEF HeadDoes, Moved, TryGood, Inside, FollowUps
    <3>6. CASE FollowDoes(s)
      BY <2>2, <3>1, <3>3, <3>6 DEF FollowDoes, Moved, TryGood, FollowUps
    <3>7. CASE InsertDoes(s)
      <4>1. ~tries[s].filed
        BY <3>1, <3>7 DEF InsertDoes, InsertBy, TryGood, FollowUps
      <4>2. tries'[s].filed => Filed(tries[s].body.key)'
        <5>1. tries'[s].filed => claims'[tries[s].body.key].content # 0
          BY <3>2, <3>7, <4>1 DEF InsertDoes, InsertBy, Files, Complete
        <5>2. tries'[s].body = tries[s].body
          BY <3>7 DEF InsertDoes, InsertBy
        <5> QED BY <5>1, <5>2 DEF Filed, NoClaim
      <4> QED BY <2>2, <3>3, <3>7, <4>2 DEF InsertDoes, InsertBy, TryGood, FollowUps
    <3> QED BY <1>3, <3>4, <3>5, <3>6, <3>7 DEF Working
  <2> QED BY <2>1, <2>2
<1> QED
  BY <1>1, <1>2, <1>3, Fading DEF IntakeMoves

LEMMA Waiting ==
  ASSUME IntakeBase, NEW s \in Slots
  PROVE  /\ tries[s].waits \in {"none", "submit", "watchdog"} /\ HearGood(s)
         /\ tries[s].waits = "submit" => \A t \in Slots \ {s} : tries[t].waits = "none"
<1>1. \A t \in Slots : tries[t].waits \in {"none", "submit", "watchdog"}
  BY DEF IntakeBase, IntakeTypeOK, Try
<1> QED BY <1>1 DEF IntakeBase, HearInv, HearGood

LEMMA DeafHears == ASSUME IntakeBase, tries' = Deaf PROVE HearInv'
<1>1. \A s \in Slots : tries'[s].waits = "none"
  BY Deafened DEF IntakeBase
<1>2. \A s \in Slots : tries'[s].step \notin Answered
  BY Deafened, FreeSlot DEF IntakeBase, Answered
<1> QED BY <1>1, <1>2 DEF HearInv, HearGood

\* Slot s changes: the others hear as before, if the page is as it was or they do not.
LEMMA OneHears ==
  ASSUME IntakeBase, NEW s \in Slots,
         \A t \in Slots \ {s} : tries'[t] = tries[t],
         HearGood(s)', tries'[s].waits \in {"none", tries[s].waits},
         \/ page'.step = page.step /\ page'.body = page.body
         \/ \A t \in Slots \ {s} : tries[t].waits = "none"
  PROVE  HearInv'
<1>1. ASSUME NEW t \in Slots PROVE HearGood(t)'
  <2>1. CASE t = s
    BY <2>1
  <2>2. CASE t # s
    BY <2>2, Waiting DEF HearGood, Answered
  <2> QED BY <2>1, <2>2
<1>2. ASSUME NEW t \in Slots, NEW u \in Slots,
             tries'[t].waits = "submit", tries'[u].waits = "submit"
      PROVE  t = u
  <2>1. tries[t].waits = "submit" /\ tries[u].waits = "submit"
    BY <1>2
  <2> QED BY <2>1 DEF IntakeBase, HearInv
<1> QED BY <1>1, <1>2 DEF HearInv

LEMMA SentHears ==
  ASSUME IntakeBase, Sending
  PROVE  HearInv'
<1>1. CASE SubmitDoes
  <2>1. PICK b \in Forms, s \in Slots : SubmitBy(b, s)
    BY <1>1 DEF SubmitDoes
  <2>2. \A t \in Slots \ {s} : tries'[t] = Deaf[t]
    BY <2>1 DEF SubmitBy, SentBy
  <2>3. \A t \in Slots \ {s} : tries'[t].waits = "none" /\ tries'[t].step \notin Answered
    BY <2>2, Deafened, FreeSlot DEF IntakeBase, Answered
  <2>4. /\ tries'[s].waits = "submit" /\ tries'[s].step = "lookup"
        /\ tries'[s].body = page'.body /\ page'.step = "submitting"
    BY <2>1 DEF SubmitBy, SentBy
  <2>5. \A t \in Slots : HearGood(t)'
    BY <2>3, <2>4 DEF HearGood, Answered
  <2>6. \A t \in Slots : tries'[t].waits = "submit" => t = s
    BY <2>3
  <2> QED BY <2>5, <2>6 DEF HearInv
<1>2. CASE RetryDoes
  <2>1. PICK s \in Slots : AgainBy(s, "submit")
    BY <1>2 DEF RetryDoes
  <2>2. \A t \in Slots : tries[t].waits = "none"
    BY <1>2, Waiting DEF RetryDoes, HearGood
  <2>3. \A t \in Slots \ {s} : tries'[t].waits = "none" /\ tries'[t].step \notin Answered
    BY <2>1, <2>2, Waiting DEF AgainBy, SentBy, HearGood
  <2>4. /\ tries'[s].waits = "submit" /\ tries'[s].step = "lookup"
        /\ tries'[s].body = page'.body /\ page'.step = "submitting"
    BY <1>2, <2>1 DEF RetryDoes, AgainBy, SentBy
  <2>5. \A t \in Slots : HearGood(t)'
    BY <2>3, <2>4 DEF HearGood, Answered
  <2>6. \A t \in Slots : tries'[t].waits = "submit" => t = s
    BY <2>3
  <2> QED BY <2>5, <2>6 DEF HearInv
<1>3. CASE WatchDoes
  <2>1. PICK s \in Slots : AgainBy(s, "watchdog")
    BY <1>3 DEF WatchDoes
  <2>2. \A t \in Slots : tries[t].waits # "submit"
    BY <1>3, Waiting DEF WatchDoes, HearGood
  <2>3. \A t \in Slots \ {s} : tries'[t] = tries[t]
    BY <2>1 DEF AgainBy, SentBy
  <2>4. /\ tries'[s].waits = "watchdog" /\ tries'[s].step = "lookup"
        /\ tries'[s].body = page'.body /\ page'.step = "watchdog"
        /\ page'.body = page.body /\ page.step = "watchdog"
    BY <1>3, <2>1 DEF WatchDoes, AgainBy, SentBy
  <2>5. \A t \in Slots : HearGood(t)'
    BY <2>2, <2>3, <2>4, Waiting DEF HearGood, Answered
  <2>6. \A t \in Slots : tries'[t].waits # "submit"
    BY <2>2, <2>3, <2>4
  <2> QED BY <2>5, <2>6 DEF HearInv
<1> QED BY <1>1, <1>2, <1>3 DEF Sending

LEMMA HearStep ==
  ASSUME IntakeBase, IntakeTypeOK', IntakeMoves
  PROVE  HearInv'
<1>1. CASE Editing
  <2>1. tries' = tries
    BY <1>1 DEF Editing, OpenDoes, TypeDoes, UploadDoes, UploadBy, SaveDoes, SaveBy,
                ResumeDoes, StartDoes, Filing
  <2>2. CASE page'.step = page.step /\ page'.body = page.body
    BY <2>1, <2>2 DEF IntakeBase, HearInv, HearGood
  <2>3. CASE OpenDoes
    <3>1. page.step = "idle"
      BY <2>3 DEF OpenDoes, IntakeBase, PageInv, ClosedPage
    <3>2. \A t \in Slots : tries[t].waits = "none" /\ tries[t].step \notin Answered
      BY <3>1, Waiting DEF HearGood
    <3> QED BY <2>1, <3>2 DEF HearInv, HearGood
  <2> QED
    BY <1>1, <2>2, <2>3 DEF Editing, TypeDoes, UploadDoes, UploadBy, SaveDoes, SaveBy,
                            ResumeDoes, StartDoes, FormKept
<1>2. CASE Sending
  BY <1>2, SentHears
<1>3. CASE Quieting
  BY <1>3, DeafHears DEF Quieting, CloseDoes, StopDoes, HearOk
<1>4. CASE Sweeping
  BY <1>4 DEF Sweeping, LookDoes, DeleteDoes, IntakeBase, HearInv, HearGood
<1>5. ASSUME NEW s \in Slots, Ending(s)
      PROVE  HearInv'
  <2>1. \A t \in Slots \ {s} : tries'[t] = tries[t]
    BY <1>5 DEF Ending, HearNo, AbortDoes, EvictDoes
  <2>2. tries'[s] = Free \/ tries'[s] = Deaf[s]
    BY <1>5 DEF Ending, HearNo, AbortDoes, EvictDoes
  <2>3. tries'[s].waits = "none" /\ tries'[s].step \notin Answered
    BY <2>2, Deafened, FreeSlot DEF IntakeBase, Answered
  <2>4. \/ page'.step = page.step /\ page'.body = page.body
        \/ tries[s].waits = "submit"
    BY <1>5 DEF Ending, HearNo, AbortDoes, EvictDoes, Quitting
  <2>5. \/ page'.step = page.step /\ page'.body = page.body
        \/ \A t \in Slots \ {s} : tries[t].waits = "none"
    BY <2>4, Waiting
  <2>6. HearGood(s)'
    BY <2>3 DEF HearGood
  <2> QED BY <2>1, <2>3, <2>5, <2>6, OneHears
<1>6. ASSUME NEW s \in Slots, Working(s)
      PROVE  HearInv'
  <2>1. /\ \A t \in Slots \ {s} : tries'[t] = tries[t]
        /\ page' = page
    BY <1>6 DEF Working, LookupDoes, HeadDoes, InsertDoes, InsertBy, FollowDoes, Moved, Inside
  <2>2. \/ tries'[s] = Free
        \/ /\ tries'[s].waits = tries[s].waits /\ tries'[s].body = tries[s].body
           /\ tries'[s].step \in Answered => tries[s].waits # "none"
    BY <1>6 DEF Working, LookupDoes, HeadDoes, InsertDoes, InsertBy, FollowDoes, Moved, Answered,
                FollowUps
  <2>3. HearGood(s)' /\ tries'[s].waits \in {"none", tries[s].waits}
    BY <2>1, <2>2, FreeSlot, Waiting DEF HearGood, Answered
  <2> QED BY <2>1, <2>3, OneHears
<1> QED
  BY <1>1, <1>2, <1>3, <1>4, <1>5, <1>6 DEF IntakeMoves

\* What the page tries.
LEMMA Trying ==
  ASSUME IntakeBase, page.step # "idle"
  PROVE  /\ page.view = "form" /\ page.body \in Forms /\ page.body.key \in Ids
         /\ Complete(page.body)
<1>1. page.body \in Forms /\ page.view = "form" /\ Complete(page.body)
  BY DEF IntakeBase, IntakeTypeOK, Pages, PageInv
<1> QED BY <1>1 DEF Complete, Forms

\* The page's body stays complete while ids only get more contents.
LEMMA BodyStays ==
  ASSUME IntakeBase, page.step # "idle", Grows, page'.body = page.body
  PROVE  Complete(page.body)'
<1>1. Complete(page.body) /\ page.body.key \in Ids
  BY Trying
<1> QED BY <1>1 DEF Complete, Grows

LEMMA EditedPage == ASSUME IntakeBase, IntakeTypeOK', Editing PROVE PageInv'
<1>1. PageInv /\ IntakeTypeOK
  BY DEF IntakeBase
<1>2. UNCHANGED posted
  BY DEF Editing, OpenDoes, TypeDoes, UploadDoes, UploadBy, SaveDoes, SaveBy, ResumeDoes,
         StartDoes, Told
<1>3. CASE OpenDoes
  BY <1>1, <1>3, FreeSlot DEF OpenDoes, PageInv
<1>4. CASE ~OpenDoes
  <2>1. FormKept /\ page.view # "closed"
    BY <1>4 DEF Editing, TypeDoes, UploadDoes, UploadBy, SaveDoes, SaveBy, ResumeDoes, StartDoes
  <2>2. page.step # "idle" => Complete(page.body)'
    BY <1>1, <1>2, <2>1 DEF PageInv, Complete, FormKept
  <2>3. page.step \in {"submitting", "backoff"} => page'.form = page.body
    <3>1. page.step \in {"submitting", "backoff"} => SaveDoes
      BY <1>4 DEF Editing, TypeDoes, UploadDoes, UploadBy, SaveDoes, SaveBy, ResumeDoes,
                  StartDoes, FormKept
    <3>2. ASSUME page.step \in {"submitting", "backoff"}
          PROVE  page'.form = page.form
      <4>1. PICK k \in Ids : SaveBy(k)
        BY <3>1, <3>2 DEF SaveDoes
      <4>2. page.form = page.body /\ page.form.key # 0
        BY <1>1, <3>2 DEF PageInv, Complete
      <4>3. page'.form \in Forms /\ page.form \in Forms
        BY <1>1 DEF IntakeTypeOK, Pages
      <4> QED BY <4>1, <4>2, <4>3 DEF SaveBy, Keyed, Forms
    <3> QED BY <1>1, <3>2 DEF PageInv
  <2>4. page'.form.key \in {page.form.key, 0} \/ posted[page'.form.key] = {}
    BY <1>1, <1>4, Unused DEF Editing, TypeDoes, UploadDoes, UploadBy, SaveDoes, SaveBy,
                              ResumeDoes, StartDoes, Keyed
  <2>5. draft' = Blank \/ draft'.key = page'.form.key
    <3>1. draft = Blank \/ (draft.key = page.form.key /\ draft.key # 0)
      BY <1>1, <2>1 DEF PageInv
    <3> QED
      BY <1>4, <3>1 DEF Editing, TypeDoes, UploadDoes, UploadBy, SaveDoes, SaveBy, ResumeDoes,
                        StartDoes, Keyed
  <2>6. draft' # Blank => draft'.key # 0
    BY <1>1, <1>4 DEF Editing, TypeDoes, UploadDoes, UploadBy, SaveDoes, SaveBy, ResumeDoes,
                      StartDoes, Keyed, PageInv
  <2> QED
    BY <1>1, <1>2, <2>1, <2>2, <2>3, <2>4, <2>5, <2>6 DEF PageInv, FormKept
<1> QED BY <1>3, <1>4

LEMMA SentPage == ASSUME IntakeBase, Sending, Grows PROVE PageInv'
<1>1. PageInv /\ IntakeTypeOK /\ UNCHANGED draft
  BY DEF IntakeBase, Sending, SubmitDoes, SubmitBy, RetryDoes, WatchDoes, AgainBy
<1>2. CASE SubmitDoes
  <2>1. PICK b \in Forms, s \in Slots : SubmitBy(b, s)
    BY <1>2 DEF SubmitDoes
  <2>2. Complete(page.body)'
    BY <2>1 DEF SubmitBy, SentBy, Complete, Keyed
  <2>3. draft = Blank \/ draft.key = b.key
    BY <1>1, <2>1 DEF PageInv, SubmitBy, Keyed
  <2> QED BY <1>1, <2>1, <2>2, <2>3, IntakeBounds DEF PageInv, SubmitBy
<1>3. CASE RetryDoes
  <2>1. page.step = "backoff" /\ page'.step = "submitting" /\ page'.tried = page.tried + 1
        /\ page'.view = page.view /\ page'.form = page.form /\ page'.body = page.body
    BY <1>3 DEF RetryDoes, AgainBy
  <2>2. page.tried \in Nat
    BY <1>1, IntakeBounds DEF IntakeTypeOK, Pages
  <2> QED BY <1>1, <2>1, <2>2, BodyStays, IntakeBounds DEF PageInv
<1>4. CASE WatchDoes
  <2>1. PICK s \in Slots : AgainBy(s, "watchdog")
    BY <1>4 DEF WatchDoes
  <2>2. page.step = "watchdog" /\ page'.step = "watchdog" /\ page'.tried = page.tried + 1
        /\ page'.view = page.view /\ page'.form = page.form /\ page'.body = page.body
        /\ page.tried < Watches
    BY <1>4, <2>1 DEF WatchDoes, AgainBy
  <2>3. page.tried \in Nat /\ page.form.key \in Ids \cup {0}
    BY <1>1, IntakeBounds DEF IntakeTypeOK, Pages, Forms
  <2>4. page.form.key \in {page.body.key, 0} \/ posted'[page.form.key] = {}
    BY <1>1, <2>1, <2>2, <2>3 DEF PageInv, AgainBy, SentBy
  <2>5. page'.tried <= Watches
    BY <2>2, <2>3, IntakeBounds
  <2> QED BY <1>1, <2>2, <2>4, <2>5, BodyStays DEF PageInv
<1> QED BY <1>2, <1>3, <1>4 DEF Sending

LEMMA PageStep ==
  ASSUME IntakeBase, IntakeTypeOK', IntakeMoves
  PROVE  PageInv'
<1>1. PageInv /\ IntakeTypeOK /\ Grows
  BY IntakeGrowing DEF IntakeBase
<1>2. CASE Editing
  BY <1>2, EditedPage
<1>3. CASE Sending
  BY <1>1, <1>3, SentPage
<1>4. CASE CloseDoes
  BY <1>1, <1>4 DEF CloseDoes, PageInv, ClosedPage
<1>5. CASE StopDoes
  BY <1>1, <1>5 DEF StopDoes, PageInv
<1>6. ASSUME NEW s \in Slots, HearOk(s) PROVE PageInv'
  BY <1>1, <1>6 DEF HearOk, PageInv
<1>7. ASSUME page' = page, UNCHANGED <<draft, posted>> PROVE PageInv'
  BY <1>1, <1>7 DEF PageInv, Complete
<1>8. ASSUME NEW s \in Slots, tries[s].waits = "submit", Unanswering, UNCHANGED <<draft, posted>>
      PROVE  PageInv'
  <2>1. page.step = "submitting"
    BY <1>8, Waiting DEF HearGood
  <2>2. Complete(page.body)'
    BY <1>1, <1>8, <2>1, BodyStays DEF Unanswering
  <2> QED BY <1>1, <1>8, <2>1, <2>2, IntakeBounds DEF PageInv, Unanswering
<1>9. ASSUME NEW s \in Slots, Ending(s) PROVE PageInv'
  <2>1. UNCHANGED <<draft, posted>>
    BY <1>9 DEF Ending, HearNo, AbortDoes, EvictDoes, Told
  <2>2. CASE /\ tries[s].waits = "submit" /\ page'.step = "idle"
             /\ page'.view = page.view /\ page'.form = page.form
    <3>1. page.step = "submitting"
      BY <2>2, Waiting DEF HearGood
    <3> QED BY <1>1, <2>1, <2>2, <3>1 DEF PageInv
  <2> QED
    BY <1>7, <1>8, <1>9, <2>1, <2>2 DEF Ending, HearNo, AbortDoes, EvictDoes, Quitting
<1>10. ASSUME NEW s \in Slots, Working(s) PROVE PageInv'
  BY <1>7, <1>10 DEF Working, LookupDoes, HeadDoes, InsertDoes, InsertBy, FollowDoes, Inside
<1>11. CASE Sweeping
  BY <1>7, <1>11 DEF Sweeping, LookDoes, DeleteDoes, Told
<1> QED
  BY <1>2, <1>3, <1>4, <1>5, <1>6, <1>9, <1>10, <1>11 DEF IntakeMoves, Quieting

LEMMA IntakeBaseStep == ASSUME IntakeBase, IntakeNext PROVE IntakeBase' /\ IntakeMoves /\ Grows
BY Stepping, IntakeGrowing, TryStep, HearStep, PageStep DEF IntakeBase

-----------------------------------------------------------------------------
(* Intake: the claims, what is shown of them and their follow-up. *)

\* Only an insert files anything.
LEMMA ClaimsStay == ASSUME IntakeMoves PROVE claims' = claims \/ \E s \in Slots : InsertDoes(s)
BY DEF IntakeMoves, Editing, OpenDoes, TypeDoes, UploadDoes, UploadBy, SaveDoes, SaveBy,
       ResumeDoes, StartDoes, Filing, Sending, SubmitDoes, SubmitBy, RetryDoes, WatchDoes,
       AgainBy, Quieting, CloseDoes, StopDoes, HearOk, Ending, HearNo, AbortDoes, EvictDoes,
       Sweeping, LookDoes, DeleteDoes, Working, LookupDoes, HeadDoes, FollowDoes

LEMMA ClaimStep == ASSUME IntakeBase, ClaimInv, IntakeMoves, Grows PROVE ClaimInv'
<1>1. ASSUME NEW k \in Ids, Filed(k)'
      PROVE  claims'[k].content \in posted'[k] /\ claims'[k].photo # 0
  <2>1. CASE Filed(k)
    BY <2>1 DEF ClaimInv, Grows
  <2>2. CASE ~Filed(k)
    <3>1. claims'[k] # claims[k]
      BY <1>1, <2>2 DEF Filed
    <3>2. PICK s \in Slots : InsertDoes(s)
      BY <3>1, ClaimsStay
    <3>3. tries[s] # Free
      BY <3>2, StepInHand DEF InsertDoes, InsertBy
    <3>4. Complete(tries[s].body)
      BY <3>3, InHand DEF TryGood
    <3>5. k = tries[s].body.key /\ Files(tries[s].body)
      BY <3>1, <3>2 DEF InsertDoes, InsertBy, Files
    <3> QED BY <3>4, <3>5 DEF Files, Complete, Grows
  <2> QED BY <2>1, <2>2
<1>2. ASSUME NEW x \in shown'
      PROVE  Filed(x.key)'
  <2>1. \A k \in Ids : Filed(k) => Filed(k)'
    BY DEF Filed, Grows
  <2>2. CASE x \in shown
    <3>1. x.key \in Ids /\ Filed(x.key)
      BY <2>2 DEF ClaimInv, IntakeBase, IntakeTypeOK
    <3> QED BY <2>1, <3>1 DEF Filed
  <2>3. CASE x \notin shown
    <3>1. PICK s \in Slots : HearOk(s)
      BY <1>2, <2>3 DEF IntakeMoves, Editing, OpenDoes, TypeDoes, UploadDoes, UploadBy, SaveDoes, SaveBy,
           ResumeDoes, StartDoes, Filing, Told, Sending, SubmitDoes, SubmitBy, RetryDoes, WatchDoes,
           AgainBy, Quieting, CloseDoes, StopDoes, Ending, HearNo, AbortDoes, EvictDoes,
           Sweeping, LookDoes, DeleteDoes, Working, LookupDoes, HeadDoes, InsertDoes, InsertBy,
           FollowDoes, Inside
    <3>2. x.key = tries[s].body.key
      BY <1>2, <2>3, <3>1 DEF HearOk
    <3>3. tries[s] # Free
      BY <3>1, StepInHand DEF HearOk
    <3>4. Filed(tries[s].body.key) /\ tries[s].body.key \in Ids
      BY <3>1, <3>3, InHand DEF TryGood, HearOk
    <3> QED BY <2>1, <3>2, <3>4 DEF Filed
  <2> QED BY <2>2, <2>3
<1> QED BY <1>1, <1>2 DEF ClaimInv

\* Each follow-up of a claim was carried out or missed, or is ahead of its try.
LEMMA FollowStep ==
  ASSUME IntakeBase, IntakeBase', FiledIsFollowedUp, IntakeMoves, Grows
  PROVE  FiledIsFollowedUp'
<1> DEFINE Owed(s, k, f) == tries[s].body.key = k /\ f \in Ahead(tries[s])
           Owing(s, k, f) == tries'[s].body.key = k /\ f \in Ahead(tries'[s])
           Goal(k, f) == f \in followed'[k] \cup missed'[k] \/ \E s \in Slots : Owing(s, k, f)
<1>1. Recorded
  <2>1. UNCHANGED <<followed, missed>> => Recorded
    BY DEF Recorded
  <2> QED
    BY <2>1 DEF IntakeMoves, Editing, OpenDoes, TypeDoes, UploadDoes, UploadBy, SaveDoes, SaveBy,
       ResumeDoes, StartDoes, Filing, Told, Sending, SubmitDoes, SubmitBy, RetryDoes, WatchDoes,
       AgainBy, Quieting, CloseDoes, StopDoes, HearOk, Ending, HearNo, AbortDoes, EvictDoes,
       Sweeping, LookDoes, DeleteDoes, Working, LookupDoes, HeadDoes, InsertDoes, InsertBy,
       FollowDoes
<1>2. ASSUME NEW t \in Slots, NEW k \in Ids, NEW f \in FollowUps, Owed(t, k, f)
      PROVE  Goal(k, f)
  <2>1. tries[t] # Free /\ tries[t].step \in FollowUps /\ tries[t].step \notin Answered
    BY <1>2, FreeSlot DEF Ahead, FollowUps, Answered
  <2>2. CASE tries'[t] = tries[t]
    BY <1>2, <2>2
  <2>3. CASE tries'[t] = Deaf[t]
    <3>1. /\ tries'[t].step = tries[t].step /\ tries'[t].body = tries[t].body
          /\ tries'[t].filed = tries[t].filed
      BY <2>1, <2>3, Deafened DEF IntakeBase
    <3> QED BY <1>2, <3>1 DEF Ahead
  <2>4. CASE FollowDoes(t)
    BY <1>2, <2>4 DEF FollowDoes, Pays
  <2>5. CASE EvictDoes(t)
    BY <1>2, <2>5 DEF EvictDoes
  <2>6. CASE Sending
    <3>1. PICK s \in Slots : SentOut(s)
      BY <2>6, SendingSends
    <3>2. tries[s] = Free
      BY <3>1 DEF SentOut, SentBy
    <3>3. Fades(t)
      BY <2>1, <3>1, <3>2, SentOthers
    <3>4. tries'[t] = tries[t] \/ tries'[t] = Deaf[t]
      BY <2>1, <3>1, <3>2 DEF SentOut, SentBy
    <3> QED BY <2>2, <2>3, <3>4
  <2>7. CASE Editing \/ Quieting \/ Sweeping
    BY <2>2, <2>3, <2>7
       DEF Editing, OpenDoes, TypeDoes, UploadDoes, UploadBy, SaveDoes, SaveBy, ResumeDoes,
           StartDoes, Filing, Quieting, CloseDoes, StopDoes, HearOk, Sweeping, LookDoes, DeleteDoes
  <2>8. ASSUME NEW s \in Slots, Ending(s) \/ Working(s) PROVE Goal(k, f)
    <3>1. CASE s # t
      <4>1. tries'[t] = tries[t]
        BY <2>8, <3>1 DEF Ending, HearNo, AbortDoes, EvictDoes, Working, LookupDoes, HeadDoes,
                          InsertDoes, InsertBy, FollowDoes, Moved
      <4> QED BY <2>2, <4>1
    <3>2. CASE s = t
      <4>1. tries'[t] = Deaf[t] \/ FollowDoes(t) \/ EvictDoes(t)
        BY <2>1, <2>8, <3>2 DEF Ending, HearNo, AbortDoes, Working, LookupDoes, HeadDoes,
                                InsertDoes, InsertBy, FollowUps
      <4> QED BY <2>3, <2>4, <2>5, <4>1
    <3> QED BY <3>1, <3>2
  <2> QED BY <2>6, <2>7, <2>8 DEF IntakeMoves
<1>3. ASSUME NEW k \in Ids, Filed(k)', NEW f \in FollowUps PROVE Goal(k, f)
  <2>1. CASE Filed(k)
    <3>1. CASE f \in followed[k] \cup missed[k]
      BY <1>1, <3>1 DEF Recorded
    <3>2. CASE \E s \in Slots : Owed(s, k, f)
      BY <1>2, <3>2
    <3> QED BY <2>1, <3>1, <3>2 DEF FiledIsFollowedUp
  <2>2. CASE ~Filed(k)
    <3>1. claims'[k] # claims[k]
      BY <1>3, <2>2 DEF Filed
    <3>2. PICK s \in Slots : InsertDoes(s)
      BY <3>1, ClaimsStay
    <3>3. k = tries[s].body.key
      BY <3>1, <3>2 DEF InsertDoes, InsertBy, Files
    <3> QED BY <3>1, <3>2, <3>3 DEF InsertDoes, InsertBy, Ahead
  <2> QED BY <2>1, <2>2
<1> QED BY <1>3 DEF FiledIsFollowedUp

-----------------------------------------------------------------------------
(* Intake: contents and ids. *)

\* A try that is sent again adds nothing to what was sent.
LEMMA AgainPosts ==
  ASSUME IntakeBase, page.step # "idle", NEW s, NEW who, AgainBy(s, who)
  PROVE  \A k \in Ids : posted'[k] = posted[k]
<1>1. page.body.content \in posted[page.body.key]
  BY Trying DEF Complete
<1>2. posted'[page.body.key] = posted[page.body.key]
  BY <1>1 DEF AgainBy, SentBy
<1> TAKE k \in Ids
<1> QED BY <1>2 DEF AgainBy, SentBy

LEMMA Posting ==
  ASSUME IntakeBase, IntakeMoves, ~SubmitDoes
  PROVE  \A k \in Ids : posted'[k] = posted[k]
<1>1. CASE RetryDoes \/ WatchDoes
  BY <1>1, AgainPosts DEF RetryDoes, WatchDoes
<1>2. CASE ~(RetryDoes \/ WatchDoes)
  <2>1. posted' = posted
    BY <1>2 DEF IntakeMoves, Editing, OpenDoes, TypeDoes, UploadDoes, UploadBy, SaveDoes, SaveBy,
       ResumeDoes, StartDoes, Told, Sending, Quieting, CloseDoes, StopDoes, HearOk, Ending,
       HearNo, AbortDoes, EvictDoes, Sweeping, LookDoes, DeleteDoes, Working, LookupDoes,
       HeadDoes, InsertDoes, InsertBy, FollowDoes, Inside
  <2> QED BY <2>1
<1> QED BY <1>1, <1>2

\* The form, its banner and the draft are left alone.
FormStays ==
  /\ page'.form = page.form /\ page'.banner = page.banner /\ page'.view = page.view
  /\ UNCHANGED <<draft, typed, rekeyed>>
LEMMA FormStaying ==
  ASSUME IntakeMoves
  PROVE  \/ FormStays \/ Editing \/ SubmitDoes \/ CloseDoes
         \/ \E s \in Slots : HearOk(s)
BY DEF IntakeMoves, FormStays, Sending, RetryDoes, WatchDoes, AgainBy, Quieting, StopDoes, Ending,
       HearNo, AbortDoes, EvictDoes, Quitting, Unanswering, Told, Sweeping, LookDoes, DeleteDoes,
       Working, LookupDoes, HeadDoes, InsertDoes, InsertBy, FollowDoes, Inside

LEMMA TypedStep ==
  ASSUME IntakeBase, IntakeBase', TypedInv, IntakeMoves
  PROVE  TypedInv'
<1>0. typed \in Nat /\ typed' \in Nat
  BY IntakeBounds DEF IntakeBase, IntakeTypeOK
<1>1. CASE ~SubmitDoes
  <2>1. \A k \in Ids : posted'[k] = posted[k]
    BY <1>1, Posting
  <2>2. typed <= typed' /\ typed' \in Nat
    <3>1. typed' = typed \/ typed' = typed + 1
      BY DEF IntakeMoves, Editing, OpenDoes, TypeDoes, UploadDoes, UploadBy, SaveDoes, SaveBy,
        ResumeDoes, StartDoes, Sending, SubmitDoes, SubmitBy, RetryDoes, WatchDoes,
        AgainBy, Quieting, CloseDoes, StopDoes, HearOk, Ending, HearNo, AbortDoes, EvictDoes,
        Sweeping, LookDoes, DeleteDoes, Working, LookupDoes, HeadDoes, InsertDoes, InsertBy,
        FollowDoes, Inside
    <3> QED BY <1>0, <3>1
  <2>3. ASSUME NEW k \in Ids, NEW c \in posted'[k] PROVE c <= typed'
    <3>1. c \in posted[k] /\ c \in Nat
      BY <2>1, <2>3, IntakeBounds DEF IntakeBase, IntakeTypeOK, Contents
    <3>2. c <= typed
      BY <3>1 DEF TypedInv
    <3> QED BY <1>0, <2>2, <3>1, <3>2
  <2>4. /\ page'.form.content <= typed' /\ page'.banner.content <= typed'
        /\ draft'.content <= typed'
    <3> DEFINE Goal ==
                 /\ page'.form.content \in {0, typed', page.form.content, page.banner.content}
                 /\ page'.banner.content \in {0, draft.content, page.banner.content}
                 /\ draft'.content \in {0, draft.content, page.form.content}
    <3>1. Goal
      <4>1. CASE FormStays
        BY <4>1 DEF FormStays
      <4>2. CASE Editing
        BY <4>2, FreeSlot
           DEF Editing, OpenDoes, TypeDoes, UploadDoes, UploadBy, SaveDoes, SaveBy,
               ResumeDoes, StartDoes
      <4>3. CASE CloseDoes
        BY <4>3, FreeSlot DEF CloseDoes, ClosedPage
      <4>4. ASSUME NEW s \in Slots, HearOk(s) PROVE Goal
        BY <4>4, FreeSlot DEF HearOk
      <4> QED BY <1>1, <4>1, <4>2, <4>3, <4>4, FormStaying
    <3>2. page.form.content \in Nat /\ page.banner.content \in Nat /\ draft.content \in Nat
      BY IntakeBounds DEF IntakeBase, IntakeTypeOK, Pages, Forms, Contents
    <3> HIDE DEF Goal
    <3> QED BY <1>0, <2>2, <3>1, <3>2 DEF TypedInv, Goal
  <2> QED BY <2>3, <2>4 DEF TypedInv
<1>2. CASE SubmitDoes
  <2>1. PICK b \in Forms, s \in Slots : SubmitBy(b, s)
    BY <1>2 DEF SubmitDoes
  <2>2. /\ page'.form.content = page.form.content /\ page'.banner = page.banner
        /\ UNCHANGED <<draft, typed>>
    BY <2>1 DEF SubmitBy
  <2>3. ASSUME NEW k \in Ids, NEW c \in posted'[k] PROVE c <= typed
    BY <2>1, <2>3 DEF SubmitBy, SentBy, TypedInv
  <2> QED BY <2>2, <2>3 DEF TypedInv
<1> QED BY <1>1, <1>2

\* A form knows the id that what it holds was sent under.
OneForm(c) == \A k \in Ids : c \in posted[k] => page.form.key = k

LEMMA OneIdStep ==
  ASSUME IntakeBase, IntakeBase', TypedInv, OneId, IntakeMoves
  PROVE  OneId'
<1> SUFFICES ASSUME ~rekeyed'
             PROVE  /\ \A j, k \in Ids : \A c \in posted'[j] : c \in posted'[k] => j = k
                    /\ \A k \in Ids :
                         /\ draft'.content \in posted'[k] => draft'.key = k
                         /\ page'.view = "form" /\ page'.form.content \in posted'[k]
                              => page'.form.key = k
                         /\ page'.view = "form" /\ page'.banner.content \in posted'[k]
                              => page'.form.key = k
  BY Zenon DEF OneId
<1>1. ~rekeyed
  BY DEF IntakeMoves, Editing, OpenDoes, TypeDoes, UploadDoes, UploadBy, SaveDoes, SaveBy,
         ResumeDoes, StartDoes, Sending, SubmitDoes, SubmitBy, RetryDoes, WatchDoes,
         AgainBy, Quieting, CloseDoes, StopDoes, HearOk, Ending, HearNo, AbortDoes, EvictDoes,
         Sweeping, LookDoes, DeleteDoes, Working, LookupDoes, HeadDoes, InsertDoes, InsertBy,
         FollowDoes, Inside
<1>2. /\ \A j, k \in Ids : \A c \in posted[j] : c \in posted[k] => j = k
      /\ \A k \in Ids : draft.content \in posted[k] => draft.key = k
      /\ page.view = "form" => OneForm(page.form.content) /\ OneForm(page.banner.content)
  BY <1>1 DEF OneId, OneForm
<1>3. \A k \in Ids : 0 \notin posted[k] /\ k # 0
  BY IntakeBounds DEF IntakeBase, IntakeTypeOK, Contents, Ids
<1>4. CASE ~SubmitDoes
  <2>1. \A k \in Ids : posted'[k] = posted[k]
    BY <1>4, Posting
  <2>2. CASE FormStays
    BY <1>2, <2>1, <2>2 DEF FormStays, OneForm
  <2>3. CASE OpenDoes
    BY <1>2, <1>3, <2>1, <2>3, FreeSlot DEF OpenDoes
  <2>4. CASE TypeDoes
    <3>1. \A k \in Ids : typed' \notin posted[k]
      <4>1. typed \in Nat /\ typed' = typed + 1
        BY <2>4, IntakeBounds DEF TypeDoes, IntakeBase, IntakeTypeOK
      <4>2. \A k \in Ids : \A c \in posted[k] : c <= typed
        BY DEF TypedInv
      <4> QED BY <4>1, <4>2
    <3> QED BY <1>2, <2>1, <2>4, <3>1 DEF TypeDoes, FormKept, OneForm
  <2>5. ASSUME NEW k \in Ids, Keyed(k), page'.form.key = k, NEW c, OneForm(c)
        PROVE  \A j \in Ids : c \in posted'[j] => k = j
    BY <1>3, <2>1, <2>5 DEF OneForm, Keyed
  <2>6. CASE UploadDoes
    <3>1. PICK p \in Photos, k \in Ids : UploadBy(p, k)
      BY <2>6 DEF UploadDoes
    <3> QED BY <1>2, <2>1, <2>5, <3>1 DEF UploadBy, FormKept
  <2>7. CASE SaveDoes
    <3>1. PICK k \in Ids : SaveBy(k)
      BY <2>7 DEF SaveDoes
    <3>2. page.view = "form"
      <4>1. page.view # "outcome"
        BY <3>1 DEF SaveBy
      <4> QED BY <3>1, <4>1 DEF SaveBy, IntakeBase, IntakeTypeOK, Pages
    <3> QED BY <1>2, <2>1, <2>5, <3>1, <3>2 DEF SaveBy, FormKept
  <2>8. CASE ResumeDoes
    BY <1>2, <1>3, <2>1, <2>8, FreeSlot DEF ResumeDoes, OneForm
  <2>9. CASE StartDoes
    BY <1>2, <1>3, <2>1, <2>9, FreeSlot DEF StartDoes
  <2>10. CASE CloseDoes
    BY <1>2, <2>1, <2>10 DEF CloseDoes, ClosedPage
  <2>11. ASSUME NEW s \in Slots, HearOk(s)
         PROVE  /\ draft' = Blank /\ page'.view = "outcome"
    BY <2>11 DEF HearOk
  <2>12. CASE \E s \in Slots : HearOk(s)
    BY <1>2, <1>3, <2>1, <2>11, <2>12, FreeSlot
  <2> QED
    BY <1>4, <2>2, <2>3, <2>4, <2>6, <2>7, <2>8, <2>9, <2>10, <2>12, FormStaying DEF Editing
<1>5. CASE SubmitDoes
  <2>1. PICK b \in Forms, s \in Slots : SubmitBy(b, s)
    BY <1>5 DEF SubmitDoes
  <2>2. /\ page.view = "form" /\ b.content = page.form.content /\ Keyed(b.key)
        /\ page'.form = b /\ page'.banner = page.banner /\ draft' = draft
        /\ \A k \in Ids \ {b.key} : posted'[k] = posted[k]
        /\ posted'[b.key] = posted[b.key] \cup {b.content}
    BY <2>1 DEF SubmitBy, SentBy
  <2>3. \A k \in Ids : b.content \in posted[k] => b.key = k
    BY <1>2, <1>3, <2>2 DEF OneForm, Keyed
  <2>4. \A k \in Ids : page.banner.content \in posted[k] => b.key = k
    BY <1>2, <1>3, <2>2 DEF OneForm, Keyed
  <2>5. draft = Blank \/ draft.key = b.key
    BY <2>2 DEF IntakeBase, PageInv, Keyed
  <2>6. b.content # 0
    BY <2>1 DEF SubmitBy
  <2>7. \A k \in Ids : draft.content \in posted'[k] => draft.key = k
    BY <1>2, <1>3, <2>2, <2>3, <2>5, <2>6, FreeSlot
  <2>8. \A k \in Ids : page.banner.content \in posted'[k] => b.key = k
    BY <2>2, <2>4
  <2>9. \A k \in Ids : b.content \in posted'[k] => b.key = k
    BY <2>2, <2>3
  <2>10. \A j, k \in Ids : \A c \in posted'[j] : c \in posted'[k] => j = k
    BY <1>2, <2>2, <2>3, <2>9
  <2> QED BY <2>2, <2>7, <2>8, <2>9, <2>10
<1> QED BY <1>4, <1>5

-----------------------------------------------------------------------------
(* Intake: photos. *)

\* The photos of what is carried, after the step.
LostNow(q) == posted'[q] = {} /\ page'.form.key # q /\ draft'.key # q
OwnNow(p, k) ==
  p # 0 => /\ photos'[p].key # 0
           /\ \/ photos'[p].key = k
              \/ claims'[photos'[p].key] # NoClaim
              \/ LostNow(photos'[p].key)

\* An id that is lost is never used again.
LEMMA LostStays ==
  ASSUME IntakeBase, IntakeMoves, NEW p \in Photos, photos[p].key # 0, Lost(photos[p].key)
  PROVE  LostNow(photos[p].key)
<1> DEFINE q == photos[p].key
<1>1. q \in Ids /\ q \in UsedIds /\ posted[q] = {} /\ page.form.key # q /\ draft.key # q /\ q # 0
  BY DEF IntakeBase, IntakeTypeOK, UsedIds, Lost
<1> HIDE DEF q
<1>2. \A k : Keyed(k) => k # q
  BY <1>1 DEF Keyed
<1>3. posted'[q] = {}
  <2>1. CASE ~SubmitDoes
    BY <1>1, <2>1, Posting
  <2>2. CASE SubmitDoes
    BY <1>1, <1>2, <2>2 DEF SubmitDoes, SubmitBy, SentBy
  <2> QED BY <2>1, <2>2
<1>4. page'.form.key # q /\ draft'.key # q
  <2>1. CASE FormStays
    BY <1>1, <2>1 DEF FormStays
  <2>2. CASE Editing
    BY <1>1, <1>2, <2>2, FreeSlot
       DEF Editing, OpenDoes, TypeDoes, UploadDoes, UploadBy, SaveDoes, SaveBy,
           ResumeDoes, StartDoes
  <2>3. CASE SubmitDoes
    BY <1>1, <1>2, <2>3 DEF SubmitDoes, SubmitBy
  <2>4. CASE CloseDoes
    BY <1>1, <2>4, FreeSlot DEF CloseDoes, ClosedPage
  <2>5. CASE \E s \in Slots : HearOk(s)
    BY <1>1, <2>5, FreeSlot DEF HearOk
  <2> QED BY <2>1, <2>2, <2>3, <2>4, <2>5, FormStaying
<1> QED BY <1>3, <1>4 DEF LostNow, q

\* What goes with its id still does.
LEMMA OwnStays ==
  ASSUME IntakeBase, IntakeMoves, Grows, NEW p \in Photos \cup {0}, NEW k, Own(p, k)
  PROVE  OwnNow(p, k)
<1> SUFFICES ASSUME p # 0 PROVE OwnNow(p, k)
  BY DEF OwnNow
<1> DEFINE q == photos[p].key
<1>1. p \in Photos /\ q # 0 /\ q \in Ids
  BY DEF Own, IntakeBase, IntakeTypeOK
<1>2. photos'[p].key = q
  BY <1>1 DEF Grows
<1>3. Filed(q) => claims'[q] # NoClaim
  BY <1>1 DEF Filed, Grows
<1>4. Lost(q) => LostNow(q)
  BY <1>1, LostStays
<1>5. q = k \/ Filed(q) \/ Lost(q)
  BY DEF Own
<1> HIDE DEF q
<1> QED BY <1>1, <1>2, <1>3, <1>4, <1>5 DEF OwnNow

\* So it does with the id that a form without one is given.
LEMMA OwnKeyed ==
  ASSUME IntakeBase, NEW p, NEW k, Keyed(k), Own(p, page.form.key)
  PROVE  Own(p, k)
BY DEF Own, Keyed

\* Photos that a form or a body may have.
LEMMA Carried ==
  ASSUME IntakeBase
  PROVE  /\ draft.photo \in Photos \cup {0} /\ page.form.photo \in Photos \cup {0}
         /\ page.banner.photo \in Photos \cup {0} /\ page.body.photo \in Photos \cup {0}
         /\ \A s \in Slots : tries[s].body.photo \in Photos \cup {0}
         /\ \A k \in Ids : claims[k].photo \in Photos \cup {0}
<1>1. /\ draft \in Forms /\ page.form \in Forms /\ page.banner \in Forms /\ page.body \in Forms
      /\ \A s \in Slots : tries[s].body \in Forms
  BY DEF IntakeBase, IntakeTypeOK, Pages, Try
<1>2. \A f \in Forms : f.photo \in Photos \cup {0}
  BY DEF Forms
<1>3. \A k \in Ids : claims[k].photo \in Photos \cup {0}
  BY DEF IntakeBase, IntakeTypeOK
<1> QED BY <1>1, <1>2, <1>3

LEMMA OwnTries ==
  ASSUME IntakeBase, IntakeMoves, Grows, OwnInv, NEW t \in Slots
  PROVE  OwnNow(tries'[t].body.photo, tries'[t].body.key)
<1>1. ASSUME tries'[t].body = tries[t].body
      PROVE  OwnNow(tries'[t].body.photo, tries'[t].body.key)
  <2>1. Own(tries[t].body.photo, tries[t].body.key) /\ tries[t].body.photo \in Photos \cup {0}
    BY Carried DEF OwnInv
  <2> QED BY <1>1, <2>1, OwnStays
<1>2. ASSUME tries'[t] = Free
      PROVE  OwnNow(tries'[t].body.photo, tries'[t].body.key)
  BY <1>2, FreeSlot DEF OwnNow
<1>3. CASE Fades(t)
  BY <1>1, <1>2, <1>3 DEF Fades
<1>4. CASE Sending
  <2>1. PICK s \in Slots : SentOut(s)
    BY <1>4, SendingSends
  <2>2. CASE s # t
    BY <1>3, <2>1, <2>2, SentOthers
  <2>3. CASE s = t /\ SubmitDoes
    <3>1. PICK b \in Forms, r \in Slots : SubmitBy(b, r)
      BY <2>3 DEF SubmitDoes
    <3>2. Own(b.photo, b.key) /\ b.photo \in Photos \cup {0}
      BY <3>1, OwnKeyed, Carried DEF SubmitBy, OwnInv
    <3>3. OwnNow(b.photo, b.key)
      BY <3>2, OwnStays
    <3>4. tries'[r].body = b /\ page'.body = b
      BY <3>1 DEF SubmitBy, SentBy
    <3>5. tries'[t].body = b
      BY <2>1, <2>3, <3>4 DEF SentOut, SentBy
    <3> QED BY <3>3, <3>5
  <2>4. CASE s = t /\ ~SubmitDoes
    <3>1. page.step # "idle" /\ page'.body = page.body
      BY <1>4, <2>4 DEF Sending, RetryDoes, WatchDoes, AgainBy
    <3>2. tries'[t].body = page.body
      BY <2>1, <2>4, <3>1 DEF SentOut, SentBy
    <3>3. Own(page.body.photo, page.body.key) /\ page.body.photo \in Photos \cup {0}
      BY <3>1, Carried DEF OwnInv
    <3> QED BY <3>2, <3>3, OwnStays
  <2> QED BY <2>2, <2>3, <2>4
<1>5. ASSUME NEW s \in Slots, Working(s)
      PROVE  OwnNow(tries'[t].body.photo, tries'[t].body.key)
  <2>1. tries'[t] = Free \/ tries'[t].body = tries[t].body
    BY <1>5 DEF Working, LookupDoes, HeadDoes, InsertDoes, InsertBy, FollowDoes, Moved
  <2> QED BY <1>1, <1>2, <2>1
<1> QED BY <1>3, <1>4, <1>5, Fading DEF IntakeMoves

\* A success is shown of the page's own body, and is on file.
LEMMA HeardOwn ==
  ASSUME IntakeBase, NEW s \in Slots, tries[s].step = "ok"
  PROVE  /\ page.step \in {"submitting", "watchdog"} /\ Filed(page.body.key)
         /\ \/ page.form.key \in {page.body.key, 0}
            \/ posted[page.form.key] = {}
<1>1. tries[s] # Free /\ tries[s].waits # "none"
  BY Waiting, StepInHand DEF HearGood, Answered
<1>2. tries[s].body = page.body /\ page.step \in {"submitting", "watchdog"}
  BY <1>1, Waiting DEF HearGood
<1>3. Filed(tries[s].body.key)
  BY <1>1, InHand DEF TryGood
<1>4. /\ page.step = "submitting" => page.form = page.body
      /\ page.step = "watchdog" =>
           page.form.key \in {page.body.key, 0} \/ posted[page.form.key] = {}
  BY DEF IntakeBase, PageInv
<1> QED BY <1>2, <1>3, <1>4

LEMMA OwnForm ==
  ASSUME IntakeBase, IntakeMoves, Grows, OwnInv
  PROVE  /\ OwnNow(draft'.photo, draft'.key)
         /\ OwnNow(page'.form.photo, page'.form.key)
         /\ page'.view = "form" => OwnNow(page'.banner.photo, page'.form.key)
<1> DEFINE Goal == /\ OwnNow(draft'.photo, draft'.key)
                   /\ OwnNow(page'.form.photo, page'.form.key)
                   /\ page'.view = "form" => OwnNow(page'.banner.photo, page'.form.key)
<1>1. /\ OwnNow(draft.photo, draft.key)
      /\ OwnNow(page.form.photo, page.form.key)
      /\ page.view = "form" => OwnNow(page.banner.photo, page.form.key)
  BY Carried, OwnStays DEF OwnInv
<1>2. \A k : OwnNow(0, k)
  BY DEF OwnNow
<1>3. ASSUME NEW k \in Ids, Keyed(k)
      PROVE  /\ OwnNow(page.form.photo, k)
             /\ page.view = "form" => OwnNow(page.banner.photo, k)
  <2>1. /\ Own(page.form.photo, k)
        /\ page.view = "form" => Own(page.banner.photo, k)
    BY <1>3, OwnKeyed DEF OwnInv
  <2> QED BY <2>1, Carried, OwnStays
<1>4. CASE FormStays
  BY <1>1, <1>4 DEF FormStays
<1>5. CASE OpenDoes
  BY <1>1, <1>2, <1>5, FreeSlot DEF OpenDoes
<1>6. CASE TypeDoes
  BY <1>1, <1>6 DEF TypeDoes, FormKept
<1>7. CASE UploadDoes
  <2>1. PICK p \in Photos, k \in Ids : UploadBy(p, k)
    BY <1>7 DEF UploadDoes
  <2>2. OwnNow(p, k)
    BY <2>1 DEF UploadBy, OwnNow, Keyed
  <2> QED BY <1>1, <1>3, <2>1, <2>2 DEF UploadBy, FormKept
<1>8. CASE SaveDoes
  <2>1. PICK k \in Ids : SaveBy(k)
    BY <1>8 DEF SaveDoes
  <2> QED BY <1>1, <1>3, <2>1 DEF SaveBy, FormKept
<1>9. CASE ResumeDoes
  BY <1>1, <1>2, <1>9, FreeSlot DEF ResumeDoes
<1>10. CASE StartDoes
  BY <1>2, <1>10, FreeSlot DEF StartDoes
<1>11. CASE CloseDoes
  BY <1>1, <1>2, <1>11, FreeSlot DEF CloseDoes, ClosedPage
<1>12. CASE SubmitDoes
  <2>1. PICK b \in Forms, s \in Slots : SubmitBy(b, s)
    BY <1>12 DEF SubmitDoes
  <2>2. b.key \in Ids
    BY <2>1 DEF SubmitBy, Keyed
  <2> QED BY <1>1, <1>3, <2>1, <2>2 DEF SubmitBy
<1>13. ASSUME NEW s \in Slots, HearOk(s)
       PROVE  Goal
  <2>1. /\ draft' = Blank /\ page'.view = "outcome" /\ page'.form.photo = page.form.photo
        /\ page'.form.key = 0 /\ tries[s].step = "ok" /\ UNCHANGED <<photos, claims, posted>>
    BY <1>13 DEF HearOk
  <2>2. OwnNow(page.form.photo, 0)
    <3> DEFINE p == page.form.photo
               q == photos[p].key
    <3>1. ASSUME p # 0, q = page.form.key, q # 0
          PROVE  claims'[q] # NoClaim \/ LostNow(q)
      <4>1. CASE page.form.key = page.body.key
        BY <2>1, <3>1, <4>1, HeardOwn DEF Filed
      <4>2. CASE posted[page.form.key] = {}
        BY <2>1, <3>1, <4>2, FreeSlot DEF LostNow
      <4> QED BY <2>1, <3>1, <4>1, <4>2, HeardOwn
    <3>2. ASSUME p # 0, q # page.form.key
          PROVE  OwnNow(p, 0)
      <4>1. photos'[p].key = q
        BY <2>1
      <4> HIDE DEF p
      <4> QED BY <1>1, <3>2, <4>1 DEF OwnNow, p
    <3>3. p # 0 => q # 0
      BY DEF OwnInv, Own
    <3> QED BY <2>1, <3>1, <3>2, <3>3 DEF OwnNow
  <2> QED BY <1>2, <2>1, <2>2, FreeSlot
<1> QED
  BY <1>4, <1>5, <1>6, <1>7, <1>8, <1>9, <1>10, <1>11, <1>12, <1>13, FormStaying DEF Editing

LEMMA OwnBody ==
  ASSUME IntakeBase, IntakeMoves, Grows, OwnInv, page'.step # "idle"
  PROVE  OwnNow(page'.body.photo, page'.body.key)
<1>1. CASE SubmitDoes
  <2>1. PICK b \in Forms, s \in Slots : SubmitBy(b, s)
    BY <1>1 DEF SubmitDoes
  <2>2. Own(b.photo, b.key) /\ b.photo \in Photos \cup {0}
    BY <2>1, OwnKeyed, Carried DEF SubmitBy, OwnInv
  <2>3. OwnNow(b.photo, b.key)
    BY <2>2, OwnStays
  <2> QED BY <2>1, <2>3 DEF SubmitBy
<1>2. CASE ~SubmitDoes
  <2>1. page.step # "idle" /\ page'.body = page.body
    <3>1. CASE Editing
      BY <3>1 DEF Editing, OpenDoes, TypeDoes, UploadDoes, UploadBy, SaveDoes, SaveBy,
                  ResumeDoes, StartDoes, FormKept
    <3>2. CASE Sending
      BY <1>2, <3>2 DEF Sending, RetryDoes, WatchDoes, AgainBy
    <3>3. CASE Quieting
      BY <3>3 DEF Quieting, CloseDoes, StopDoes, HearOk, ClosedPage
    <3>4. ASSUME NEW s \in Slots, Ending(s)
          PROVE  page.step # "idle" /\ page'.body = page.body
      <4>1. tries[s].waits = "submit" => page.step = "submitting"
        BY Waiting DEF HearGood
      <4> QED BY <3>4, <4>1 DEF Ending, HearNo, AbortDoes, EvictDoes, Quitting, Unanswering
    <3>5. CASE Sweeping \/ \E s \in Slots : Working(s)
      BY <3>5 DEF Sweeping, LookDoes, DeleteDoes, Working, LookupDoes, HeadDoes, InsertDoes,
                  InsertBy, FollowDoes, Inside
    <3> QED BY <3>1, <3>2, <3>3, <3>4, <3>5 DEF IntakeMoves
  <2>2. Own(page.body.photo, page.body.key) /\ page.body.photo \in Photos \cup {0}
    BY <2>1, Carried DEF OwnInv
  <2> QED BY <2>1, <2>2, OwnStays
<1> QED BY <1>1, <1>2

LEMMA OwnClaims ==
  ASSUME IntakeBase, IntakeMoves, Grows, OwnInv, NEW k \in Ids
  PROVE  OwnNow(claims'[k].photo, k)
<1>1. CASE claims'[k] = claims[k]
  BY <1>1, Carried, OwnStays DEF OwnInv
<1>2. CASE claims'[k] # claims[k]
  <2>1. PICK s \in Slots : InsertDoes(s)
    BY <1>2, ClaimsStay
  <2>2. k = tries[s].body.key /\ claims'[k].photo = tries[s].body.photo
    BY <1>2, <2>1 DEF InsertDoes, InsertBy, Files
  <2>3. Own(tries[s].body.photo, tries[s].body.key) /\ tries[s].body.photo \in Photos \cup {0}
    BY Carried DEF OwnInv
  <2> QED BY <2>2, <2>3, OwnStays
<1> QED BY <1>1, <1>2

LEMMA OwnershipStep ==
  ASSUME IntakeBase, IntakeMoves, Grows, OwnInv
  PROVE  OwnInv'
<1>2. \A s \in Slots : Own(tries[s].body.photo, tries[s].body.key)'
  BY OwnTries DEF OwnNow, LostNow, Own, Filed, Lost
<1>3. \A k \in Ids : Own(claims[k].photo, k)'
  BY OwnClaims DEF OwnNow, LostNow, Own, Filed, Lost
<1>4. /\ Own(draft.photo, draft.key)' /\ Own(page.form.photo, page.form.key)'
      /\ page'.view = "form" => Own(page.banner.photo, page.form.key)'
  BY OwnForm DEF OwnNow, LostNow, Own, Filed, Lost
<1>5. page'.step # "idle" => Own(page.body.photo, page.body.key)'
  BY OwnBody DEF OwnNow, LostNow, Own, Filed, Lost
<1> QED BY <1>2, <1>3, <1>4, <1>5 DEF OwnInv

LEMMA StayStep ==
  ASSUME IntakeBase, IntakeBase', ClaimInv, OwnInv, StayInv, IntakeMoves, Grows
  PROVE  StayInv'
<1> SUFFICES ASSUME NEW k \in Ids, Filed(k)'
             PROVE  /\ photos'[claims'[k].photo].there \/ k \in swept'
                         \/ LostNow(photos'[claims'[k].photo].key)
                    /\ claims'[k].photo \in sweep' =>
                         k \in swept' \/ LostNow(photos'[claims'[k].photo].key)
  BY DEF StayInv, LostNow, Lost
<1>1. CASE Filed(k)
  <2> DEFINE p == claims[k].photo
  <2>1. p \in Photos /\ claims'[k] = claims[k] /\ photos[p].key # 0
    BY <1>1, Carried DEF ClaimInv, Grows, OwnInv, Own
  <2>2. Lost(photos[p].key) => LostNow(photos[p].key)
    BY <2>1, LostStays
  <2>3. photos'[p].key = photos[p].key /\ swept \subseteq swept'
    BY <2>1 DEF Grows
  <2>4. /\ photos[p].there \/ k \in swept \/ Lost(photos[p].key)
        /\ p \in sweep => k \in swept \/ Lost(photos[p].key)
        /\ photos[p].key = k \/ Filed(photos[p].key) \/ Lost(photos[p].key)
    <3>1. p # 0 /\ Own(p, k)
      BY <1>1 DEF ClaimInv, OwnInv
    <3>2. photos[p].key = k \/ Filed(photos[p].key) \/ Lost(photos[p].key)
      <4> HIDE DEF p
      <4> QED BY <3>1, Zenon DEF Own
    <3>3. /\ photos[p].there \/ k \in swept \/ Lost(photos[p].key)
          /\ p \in sweep => k \in swept \/ Lost(photos[p].key)
      BY <1>1, Zenon DEF StayInv
    <3> QED BY <3>2, <3>3
  <2> HIDE DEF p
  <2>5. photos'[p].there \/ k \in swept' \/ LostNow(photos'[p].key)
    <3>1. CASE DeleteDoes
      BY <2>1, <2>2, <2>3, <2>4, <3>1 DEF DeleteDoes
    <3>2. CASE UploadDoes
      <4>1. photos'[p] = photos[p]
        BY <2>1, <3>2 DEF UploadDoes, UploadBy
      <4> QED BY <2>2, <2>3, <2>4, <4>1
    <3>3. CASE photos' = photos
      BY <2>2, <2>3, <2>4, <3>3
    <3> QED
      BY <3>1, <3>2, <3>3 DEF IntakeMoves, Editing, OpenDoes, TypeDoes, SaveDoes, SaveBy,
           ResumeDoes, StartDoes, Filing, Sending, SubmitDoes, SubmitBy, RetryDoes, WatchDoes,
           AgainBy, Quieting, CloseDoes, StopDoes, HearOk, Ending, HearNo, AbortDoes, EvictDoes,
           Sweeping, LookDoes, Working, LookupDoes, HeadDoes, InsertDoes, InsertBy, FollowDoes,
           Inside
  <2>6. p \in sweep' => k \in swept' \/ LostNow(photos'[p].key)
    <3>1. CASE LookDoes
      <4>1. p \in sweep' => ~Filed(photos[p].key)
        BY <3>1 DEF LookDoes, Orphan
      <4> QED BY <1>1, <2>2, <2>3, <2>4, <4>1
    <3>2. CASE sweep' = sweep \/ sweep' = {}
      BY <2>2, <2>3, <2>4, <3>2
    <3> QED
      BY <3>1, <3>2 DEF IntakeMoves, Editing, OpenDoes, TypeDoes, UploadDoes, UploadBy, SaveDoes,
           SaveBy, ResumeDoes, StartDoes, Filing, Sending, SubmitDoes, SubmitBy, RetryDoes,
           WatchDoes, AgainBy, Quieting, CloseDoes, StopDoes, HearOk, Ending, HearNo, AbortDoes,
           EvictDoes, Sweeping, DeleteDoes, Working, LookupDoes, HeadDoes, InsertDoes, InsertBy,
           FollowDoes, Inside
  <2>7. claims'[k].photo = p
    BY <2>1 DEF p
  <2> QED BY <2>5, <2>6, <2>7
<1>2. CASE ~Filed(k)
  <2>1. claims'[k] # claims[k]
    BY <1>2 DEF Filed
  <2>2. PICK s \in Slots : InsertDoes(s)
    BY <2>1, ClaimsStay
  <2>3. k = tries[s].body.key /\ Files(tries[s].body) /\ UNCHANGED <<photos, sweep>>
    BY <2>1, <2>2 DEF InsertDoes, InsertBy, Files, Inside
  <2>4. tries[s].step = "insert" /\ tries[s] # Free
    BY <2>2, StepInHand DEF InsertDoes, InsertBy
  <2>5. photos[tries[s].body.photo].there \/ k \in swept
    BY <2>3, <2>4, InHand DEF TryGood
  <2> QED BY <2>3, <2>5 DEF Files, Grows
<1> QED BY <1>1, <1>2

-----------------------------------------------------------------------------
(* Intake: the mails, one slot at a time. *)

Acting == {"lookup", "head", "insert"} \cup FollowUps

\* What try t counts for is what it counted for.
Unmoved(t) ==
  \/ /\ tries'[t].step = tries[t].step /\ tries'[t].body = tries[t].body
     /\ tries'[t].filed = tries[t].filed
  \/ tries[t].step \notin Acting /\ tries'[t].step \notin Acting

PendNow(k) ==
  {s \in Slots : tries'[s].body.key = k /\ tries'[s].step \in {"lookup", "head", "insert"}}
ChargedNow(k) ==
  {s \in Slots : /\ tries'[s].body.key = k
                 /\ \/ tries'[s].step \in {"head", "insert"}
                    \/ tries'[s].step = "lookup" /\ claims'[k] = NoClaim
                    \/ tries'[s].step \in FollowUps /\ ~tries'[s].filed}
One(b) == IF b THEN 1 ELSE 0
Counted(k) ==
  told[k] + Cardinality(Charged(k)) <= mishaps + crowded[k] + One(~Filed(k) /\ Pend(k) # {})
CountedNow(k) ==
  told'[k] + Cardinality(ChargedNow(k))
    <= mishaps' + crowded'[k] + One(claims'[k] = NoClaim /\ PendNow(k) # {})

\* All but slot s count as they did.
LEMMA Tallied ==
  ASSUME NEW k \in Ids, NEW s \in Slots, claims'[k] = claims[k],
         \A t \in Slots \ {s} : Unmoved(t)
  PROVE  /\ Cardinality(Charged(k)) \in Nat /\ Cardinality(ChargedNow(k)) \in Nat
         /\ Cardinality(ChargedNow(k)) + One(s \in Charged(k))
              = Cardinality(Charged(k)) + One(s \in ChargedNow(k))
         /\ Pend(k) \ {s} = PendNow(k) \ {s}
<1>1. IsFiniteSet(Charged(k)) /\ IsFiniteSet(ChargedNow(k))
  <2>1. Charged(k) \in SUBSET Slots /\ ChargedNow(k) \in SUBSET Slots
    BY DEF Charged, ChargedNow
  <2> QED BY <2>1, IntakeAssumption, FS_Subset
<1>2. Charged(k) \ {s} = ChargedNow(k) \ {s}
  BY DEF Charged, ChargedNow, Unmoved, Acting, Filed
<1>3. Pend(k) \ {s} = PendNow(k) \ {s}
  BY DEF Pend, PendNow, Unmoved, Acting
<1> DEFINE C == Charged(k)
           D == ChargedNow(k)
<1>4. C \ {s} = D \ {s} /\ IsFiniteSet(C) /\ IsFiniteSet(D)
  BY <1>1, <1>2
<1>5. Cardinality(C) + One(s \in D) = Cardinality(D) + One(s \in C)
  <2> HIDE DEF C, D
  <2>1. Cardinality(C) \in Nat /\ Cardinality(D) \in Nat
    BY <1>4, FS_CardinalityType
  <2>2. Cardinality(C \ {s}) = IF s \in C THEN Cardinality(C) - 1 ELSE Cardinality(C)
    BY <1>4, FS_RemoveElement
  <2>3. Cardinality(D \ {s}) = IF s \in D THEN Cardinality(D) - 1 ELSE Cardinality(D)
    BY <1>4, FS_RemoveElement
  <2> QED BY <1>4, <2>1, <2>2, <2>3 DEF One
<1>6. Cardinality(C) \in Nat /\ Cardinality(D) \in Nat
  BY <1>4, FS_CardinalityType
<1> QED BY <1>3, <1>5, <1>6

LEMMA Numbers ==
  ASSUME IntakeBase, NEW k \in Ids
  PROVE  told[k] \in Nat /\ crowded[k] \in Nat /\ mishaps \in Nat
BY IntakeBounds DEF IntakeBase, IntakeTypeOK

\* What slot s adds to the mails, or takes from them, is made good.
LEMMA Balance ==
  ASSUME IntakeBase, NEW k \in Ids, NEW s \in Slots, claims'[k] = claims[k], Counted(k),
         \A t \in Slots \ {s} : Unmoved(t),
         told'[k] \in Nat, crowded'[k] \in Nat, mishaps' \in Nat,
         told'[k] - told[k] + One(s \in ChargedNow(k)) + One(~Filed(k) /\ Pend(k) # {})
           <= One(s \in Charged(k)) + mishaps' - mishaps + crowded'[k] - crowded[k]
                + One(~Filed(k) /\ PendNow(k) # {})
  PROVE  CountedNow(k)
<1> DEFINE a == Cardinality(Charged(k))
           b == Cardinality(ChargedNow(k))
           p == One(s \in Charged(k))
           q == One(s \in ChargedNow(k))
           d == One(~Filed(k) /\ Pend(k) # {})
           e == One(~Filed(k) /\ PendNow(k) # {})
<1>1. a \in Nat /\ b \in Nat /\ b + p = a + q
  BY Tallied
<1>2. p \in Nat /\ q \in Nat /\ d \in Nat /\ e \in Nat
  BY DEF One
<1>3. told[k] \in Nat /\ crowded[k] \in Nat /\ mishaps \in Nat
  BY Numbers
<1>4. told[k] + a <= mishaps + crowded[k] + d
  BY DEF Counted
<1>5. told'[k] - told[k] + q + d <= p + mishaps' - mishaps + crowded'[k] - crowded[k] + e
  OBVIOUS
<1>6. told'[k] + b <= mishaps' + crowded'[k] + e
  <2> HIDE DEF a, b, p, q, d, e
  <2> QED BY <1>1, <1>2, <1>3, <1>4, <1>5
<1> QED BY <1>6 DEF CountedNow, Filed

\* Nothing counts for more or less.
LEMMA Still ==
  ASSUME IntakeBase, NEW k \in Ids, Counted(k), claims'[k] = claims[k],
         told'[k] = told[k], crowded'[k] = crowded[k], mishaps' = mishaps,
         \A t \in Slots : Unmoved(t)
  PROVE  CountedNow(k)
<1>1. PICK s \in Slots : TRUE
  BY IntakeAssumption
<1>2. (s \in Charged(k) <=> s \in ChargedNow(k)) /\ Pend(k) = PendNow(k)
  BY DEF Charged, ChargedNow, Pend, PendNow, Unmoved, Acting, Filed
<1>3. told'[k] \in Nat /\ crowded'[k] \in Nat /\ mishaps' \in Nat
  BY Numbers
<1>4. One(s \in Charged(k)) = One(s \in ChargedNow(k)) /\ One(s \in Charged(k)) \in Nat
      /\ One(~Filed(k) /\ Pend(k) # {}) = One(~Filed(k) /\ PendNow(k) # {})
      /\ One(~Filed(k) /\ Pend(k) # {}) \in Nat
  BY <1>2 DEF One
<1>5. told'[k] - told[k] + One(s \in ChargedNow(k)) + One(~Filed(k) /\ Pend(k) # {})
        <= One(s \in Charged(k)) + mishaps' - mishaps + crowded'[k] - crowded[k]
             + One(~Filed(k) /\ PendNow(k) # {})
  BY <1>3, <1>4
<1> QED BY <1>3, <1>5, Balance


LEMMA NumbersNow ==
  ASSUME IntakeTypeOK', NEW k \in Ids
  PROVE  told'[k] \in Nat /\ crowded'[k] \in Nat /\ mishaps' \in Nat
BY IntakeBounds DEF IntakeTypeOK

\* Whoever stops listening, an answer is not charged to anybody.
LEMMA Quieted ==
  ASSUME IntakeBase, NEW t \in Slots,
         \/ tries'[t] \in {tries[t], Deaf[t]}
         \/ tries'[t] = Free /\ tries[t].step \notin Acting
  PROVE  Unmoved(t)
BY Deafened, FreeSlot DEF Unmoved, Acting, FollowUps, Answered, IntakeBase

\* The sends.
LEMMA CountSent ==
  ASSUME IntakeBase, IntakeTypeOK', NEW s \in Slots, SentOut(s), NEW k \in Ids, Counted(k)
  PROVE  CountedNow(k)
<1>1. PICK b \in Forms, who \in {"submit", "watchdog"}, hears \in {tries, Deaf} :
        SentBy(s, b, who, hears)
  BY DEF SentOut
<1>2. UNCHANGED <<claims, told, mishaps>>
  BY DEF SentOut
<1>3. ASSUME NEW t \in Slots \ {s} PROVE Unmoved(t)
  <2>1. tries'[t] \in {tries[t], Deaf[t]}
    BY <1>1 DEF SentBy
  <2> QED BY <2>1, Quieted
<1>4. tries[s] = Free /\ tries'[s].step = "lookup" /\ tries'[s].body = b
  BY <1>1 DEF SentBy
<1>5. s \notin Charged(k) /\ s \notin Pend(k)
  BY <1>4, FreeSlot DEF Charged, Pend, FollowUps
<1>6. /\ told[k] \in Nat /\ crowded[k] \in Nat /\ mishaps \in Nat
      /\ told'[k] \in Nat /\ crowded'[k] \in Nat /\ mishaps' \in Nat
  BY Numbers, NumbersNow
<1>7. Pend(k) \ {s} = PendNow(k) \ {s}
  BY <1>2, <1>3, Tallied
<1>8. told'[k] - told[k] + One(s \in ChargedNow(k)) + One(~Filed(k) /\ Pend(k) # {})
        <= One(s \in Charged(k)) + mishaps' - mishaps + crowded'[k] - crowded[k]
             + One(~Filed(k) /\ PendNow(k) # {})
  <2>1. CASE b.key # k
    <3>1. s \notin ChargedNow(k) /\ s \notin PendNow(k) /\ crowded'[k] = crowded[k]
      BY <1>1, <1>4, <2>1 DEF ChargedNow, PendNow, SentBy
    <3>2. Pend(k) = PendNow(k)
      BY <1>5, <1>7, <3>1
    <3> QED BY <1>2, <1>5, <1>6, <3>1, <3>2 DEF One
  <2>2. CASE b.key = k /\ Filed(k)
    <3>1. s \notin ChargedNow(k)
      BY <1>2, <1>4, <2>2 DEF ChargedNow, Filed, FollowUps
    <3>2. crowded'[k] - crowded[k] \in Nat
      BY <1>1, <1>6, <2>2 DEF SentBy
    <3> QED BY <1>2, <1>5, <1>6, <2>2, <3>1, <3>2 DEF One
  <2>3. CASE b.key = k /\ ~Filed(k)
    <3>1. PendNow(k) # {}
      BY <1>4, <2>3 DEF PendNow
    <3>2. CASE \E t \in Slots : tries[t] # Free /\ tries[t].body.key = k
      <4>1. crowded'[k] = crowded[k] + 1
        BY <1>1, <2>3, <3>2 DEF SentBy
      <4> QED BY <1>2, <1>5, <1>6, <2>3, <3>1, <4>1 DEF One
    <3>3. CASE ~\E t \in Slots : tries[t] # Free /\ tries[t].body.key = k
      <4>1. crowded'[k] = crowded[k]
        BY <1>1, <2>3, <3>3 DEF SentBy
      <4>2. Pend(k) = {}
        BY <3>3, FreeSlot DEF Pend
      <4> QED BY <1>2, <1>5, <1>6, <2>3, <3>1, <4>1, <4>2 DEF One
    <3> QED BY <3>2, <3>3
  <2> QED BY <2>1, <2>2, <2>3
<1> QED BY <1>2, <1>3, <1>6, <1>8, Balance

\* A try that ends by itself, or for a fault.
LEMMA CountEnding ==
  ASSUME IntakeBase, IntakeTypeOK', NEW s \in Slots, Ending(s), NEW k \in Ids, Counted(k)
  PROVE  CountedNow(k)
<1>1. UNCHANGED <<claims, told, crowded>>
  BY DEF Ending, HearNo, AbortDoes, EvictDoes, Told
<1>2. ASSUME NEW t \in Slots \ {s} PROVE Unmoved(t)
  BY DEF Ending, HearNo, AbortDoes, EvictDoes, Unmoved
<1>3. CASE HearNo(s)
  <2>1. Unmoved(s)
    BY <1>3, FreeSlot DEF HearNo, Unmoved, Acting, FollowUps
  <2>2. mishaps' = mishaps
    BY <1>3 DEF HearNo
  <2>3. \A t \in Slots : Unmoved(t)
    BY <1>2, <2>1
  <2> QED BY <1>1, <2>2, <2>3, Still
<1>4. CASE mishaps' = mishaps + 1
  <2>1. tries'[s] \in {Deaf[s], Free} \/ tries'[s] = Free
    BY <1>4, Numbers DEF Ending, HearNo, AbortDoes, EvictDoes
  <2>2. s \in ChargedNow(k) => s \in Charged(k)
    BY <1>1, <2>1, Deafened, FreeSlot
       DEF ChargedNow, Charged, Filed, Answered, FollowUps, IntakeBase
  <2>3. /\ told[k] \in Nat /\ crowded[k] \in Nat /\ mishaps \in Nat
        /\ told'[k] \in Nat /\ crowded'[k] \in Nat /\ mishaps' \in Nat
    BY Numbers, NumbersNow
  <2>4. told'[k] - told[k] + One(s \in ChargedNow(k)) + One(~Filed(k) /\ Pend(k) # {})
          <= One(s \in Charged(k)) + mishaps' - mishaps + crowded'[k] - crowded[k]
               + One(~Filed(k) /\ PendNow(k) # {})
    BY <1>1, <1>4, <2>2, <2>3 DEF One
  <2> QED BY <1>1, <1>2, <2>3, <2>4, Balance
<1> QED BY <1>3, <1>4 DEF Ending, AbortDoes, EvictDoes


\* A step of the worker on try s keeps the count: it is charged less, a mishap pays,
\* or it stays one that may yet file.
LEMMA CountMoved ==
  ASSUME IntakeBase, IntakeTypeOK', NEW s \in Slots, NEW k \in Ids, Counted(k),
         claims'[k] = claims[k], UNCHANGED crowded, \A t \in Slots \ {s} : Unmoved(t),
         \/ told'[k] = told[k] /\ mishaps' = mishaps + 1
              /\ (s \in ChargedNow(k) => s \in Charged(k))
         \/ told'[k] = told[k] /\ mishaps' = mishaps + 1
              /\ (s \in Pend(k) => s \in PendNow(k))
         \/ told'[k] = told[k] /\ mishaps' = mishaps
              /\ (s \in ChargedNow(k) => s \in Charged(k)) /\ (s \in Pend(k) => s \in PendNow(k))
         \/ told'[k] = told[k] /\ mishaps' = mishaps /\ s \in Charged(k) /\ s \notin ChargedNow(k)
         \/ told'[k] = told[k] + 1 /\ mishaps' = mishaps
              /\ s \in Charged(k) /\ s \notin ChargedNow(k) /\ (s \in Pend(k) => s \in PendNow(k))
         \/ told'[k] = told[k] /\ mishaps' = mishaps /\ Filed(k)
              /\ (s \in ChargedNow(k) => s \in Charged(k))
  PROVE  CountedNow(k)
<1>1. /\ told[k] \in Nat /\ crowded[k] \in Nat /\ mishaps \in Nat
      /\ told'[k] \in Nat /\ crowded'[k] \in Nat /\ mishaps' \in Nat /\ crowded'[k] = crowded[k]
  BY Numbers, NumbersNow
<1>2. Pend(k) \ {s} = PendNow(k) \ {s}
  BY Tallied
<1> DEFINE p == One(s \in Charged(k))
           q == One(s \in ChargedNow(k))
           d == One(~Filed(k) /\ Pend(k) # {})
           e == One(~Filed(k) /\ PendNow(k) # {})
<1>3. p \in 0..1 /\ q \in 0..1 /\ d \in 0..1 /\ e \in 0..1
  BY DEF One
<1>4. (s \in Pend(k) => s \in PendNow(k)) => d <= e
  <2> HAVE s \in Pend(k) => s \in PendNow(k)
  <2>1. Pend(k) # {} => PendNow(k) # {}
    BY <1>2
  <2> QED BY <2>1 DEF One
<1>5. Filed(k) => d = 0 /\ e = 0
  BY DEF One
<1>6. /\ (s \in ChargedNow(k) => s \in Charged(k)) => q <= p
      /\ s \in Charged(k) => p = 1
      /\ s \notin ChargedNow(k) => q = 0
  BY DEF One
<1>7. \/ told'[k] = told[k] /\ mishaps' = mishaps + 1 /\ q <= p
      \/ told'[k] = told[k] /\ mishaps' = mishaps + 1 /\ d <= e
      \/ told'[k] = told[k] /\ mishaps' = mishaps /\ q <= p /\ d <= e
      \/ told'[k] = told[k] /\ mishaps' = mishaps /\ p = 1 /\ q = 0
      \/ told'[k] = told[k] + 1 /\ mishaps' = mishaps /\ p = 1 /\ q = 0 /\ d <= e
      \/ told'[k] = told[k] /\ mishaps' = mishaps /\ d = 0 /\ e = 0 /\ q <= p
  BY <1>4, <1>5, <1>6
<1>8. told'[k] - told[k] + q + d <= p + mishaps' - mishaps + crowded'[k] - crowded[k] + e
  <2> HIDE DEF p, q, d, e
  <2> QED BY <1>1, <1>3, <1>7
<1> QED BY <1>1, <1>8, Balance

\* Where a try of the worker's was and is.
LEMMA Places ==
  ASSUME NEW s \in Slots, NEW k \in Ids
  PROVE  /\ s \in Charged(k) <=>
              /\ tries[s].body.key = k
              /\ \/ tries[s].step \in {"head", "insert"}
                 \/ tries[s].step = "lookup" /\ ~Filed(k)
                 \/ tries[s].step \in FollowUps /\ ~tries[s].filed
         /\ s \in Pend(k) <=>
              tries[s].body.key = k /\ tries[s].step \in {"lookup", "head", "insert"}
         /\ s \in ChargedNow(k) <=>
              /\ tries'[s].body.key = k
              /\ \/ tries'[s].step \in {"head", "insert"}
                 \/ tries'[s].step = "lookup" /\ claims'[k] = NoClaim
                 \/ tries'[s].step \in FollowUps /\ ~tries'[s].filed
         /\ s \in PendNow(k) <=>
              tries'[s].body.key = k /\ tries'[s].step \in {"lookup", "head", "insert"}
BY DEF Charged, Pend, ChargedNow, PendNow

\* The worker goes on with a try, and files nothing under key k.
LEMMA CountWorking ==
  ASSUME IntakeBase, IntakeTypeOK', NEW s \in Slots, Working(s), NEW k \in Ids, Counted(k),
         claims'[k] = claims[k]
  PROVE  CountedNow(k)
<1>1. UNCHANGED crowded
  BY DEF Working, LookupDoes, HeadDoes, InsertDoes, InsertBy, FollowDoes, Inside
<1>2. ASSUME NEW t \in Slots \ {s} PROVE Unmoved(t)
  <2>1. tries'[t] = tries[t]
    BY DEF Working, LookupDoes, HeadDoes, InsertDoes, InsertBy, FollowDoes, Moved
  <2> QED BY <2>1 DEF Unmoved
<1>3. told[k] \in Nat /\ mishaps \in Nat
  BY Numbers
<1>4. CASE LookupDoes(s)
  <2>1. told'[k] = told[k]
    BY <1>4 DEF LookupDoes
  <2>2. CASE /\ Filed(tries[s].body.key) /\ Moved(s, "ok") /\ mishaps' = mishaps
    <3>1. s \notin ChargedNow(k)
      BY <2>2, Places, FreeSlot DEF Moved, FollowUps
    <3>2. tries[s].body.key = k => Filed(k)
      BY <2>2
    <3>3. tries[s].body.key # k => s \notin Pend(k)
      BY Places
    <3> QED BY <1>1, <1>2, <2>1, <2>2, <3>1, <3>2, <3>3, CountMoved
  <2>3. CASE ~Filed(tries[s].body.key) /\ Moved(s, "head") /\ mishaps' = mishaps
    <3>1. tries'[s].step = "head" /\ tries'[s].body = tries[s].body
      BY <2>3 DEF Moved, Answered
    <3>2. /\ s \in ChargedNow(k) => s \in Charged(k)
          /\ s \in Pend(k) => s \in PendNow(k)
      BY <1>4, <2>3, <3>1, Places DEF LookupDoes
    <3> QED BY <1>1, <1>2, <2>1, <2>3, <3>2, CountMoved
  <2>4. CASE Moved(s, "head") /\ mishaps' = mishaps + 1
    <3>1. tries'[s].step = "head" /\ tries'[s].body = tries[s].body
      BY <2>4 DEF Moved, Answered
    <3>2. s \in Pend(k) => s \in PendNow(k)
      BY <3>1, Places
    <3> QED BY <1>1, <1>2, <2>1, <2>4, <3>2, CountMoved
  <2> QED BY <1>4, <2>2, <2>3, <2>4 DEF LookupDoes
<1>5. CASE HeadDoes(s)
  <2>1. told'[k] = told[k] /\ tries[s].step \in {"head", "insert"}
        /\ mishaps' \in {mishaps, mishaps + 1}
    BY <1>5 DEF HeadDoes
  <2>2. CASE Moved(s, "insert")
    <3>1. tries'[s].step = "insert" /\ tries'[s].body = tries[s].body
      BY <2>2 DEF Moved, Answered
    <3>2. /\ s \in ChargedNow(k) => s \in Charged(k)
          /\ s \in Pend(k) => s \in PendNow(k)
      BY <2>1, <3>1, Places
    <3> QED BY <1>1, <1>2, <2>1, <3>2, CountMoved
  <2>3. CASE Moved(s, "missing") \/ Moved(s, "failed")
    <3>1. s \notin ChargedNow(k)
      BY <2>3, Places, FreeSlot DEF Moved, FollowUps
    <3>2. s \in Charged(k) \/ s \notin Pend(k)
      BY <2>1, Places
    <3> QED BY <1>1, <1>2, <2>1, <3>1, <3>2, CountMoved
  <2> QED BY <1>5, <2>2, <2>3 DEF HeadDoes
<1>6. CASE InsertDoes(s)
  <2>1. /\ told'[k] = told[k] /\ tries[s].step = "insert" /\ tries'[s].step \in FollowUps
        /\ tries'[s].body = tries[s].body
    BY <1>6 DEF InsertDoes, InsertBy
  <2>2. s \in ChargedNow(k) => s \in Charged(k)
    BY <2>1, Places
  <2>3. CASE mishaps' = mishaps + 1
    BY <1>1, <1>2, <2>1, <2>2, <2>3, CountMoved
  <2>4. CASE mishaps' = mishaps /\ tries[s].body.key # k
    <3>1. s \notin Pend(k)
      BY <2>4, Places
    <3> QED BY <1>1, <1>2, <2>1, <2>2, <2>4, <3>1, CountMoved
  <2>5. CASE mishaps' = mishaps /\ tries[s].body.key = k
    <3>1. CASE Filed(k)
      BY <1>1, <1>2, <2>1, <2>2, <2>5, <3>1, CountMoved
    <3>2. CASE ~Filed(k)
      <4>1. Files(tries[s].body) /\ claims[k] = NoClaim
        BY <1>3, <1>6, <2>5, <3>2 DEF InsertDoes, InsertBy, Filed
      <4>2. tries[s] # Free
        BY <2>1, StepInHand
      <4>3. claims'[k].content # 0
        BY <2>5, <4>1, <4>2 DEF Files, IntakeBase, TryInv, TryGood, Complete
      <4> QED BY <4>1, <4>3 DEF NoClaim
    <3> QED BY <3>1, <3>2
  <2>6. mishaps' = mishaps \/ mishaps' = mishaps + 1
    BY <1>6 DEF InsertDoes, InsertBy
  <2> QED BY <2>3, <2>4, <2>5, <2>6
<1>7. CASE FollowDoes(s)
  <2>1. tries[s].step \in FollowUps /\ mishaps' \in {mishaps, mishaps + 1}
    BY <1>7 DEF FollowDoes
  <2>2. s \notin Pend(k)
    BY <2>1, Places DEF FollowUps
  <2>3. CASE (Moved(s, "flow") \/ Moved(s, "mail")) /\ UNCHANGED told
    <3>1. s \in ChargedNow(k) => s \in Charged(k)
      BY <2>1, <2>3, Places DEF Moved, Answered, FollowUps
    <3> QED BY <1>1, <1>2, <2>1, <2>2, <2>3, <3>1, CountMoved
  <2>4. CASE (Moved(s, "ok") \/ Moved(s, "failed")) /\ UNCHANGED told
    <3>1. s \notin ChargedNow(k)
      BY <2>4, Places, FreeSlot DEF Moved, FollowUps
    <3> QED BY <1>1, <1>2, <2>1, <2>2, <2>4, <3>1, CountMoved
  <2>5. CASE /\ ~tries[s].filed /\ Moved(s, "failed") /\ UNCHANGED mishaps
             /\ told'[tries[s].body.key] = told[tries[s].body.key] + 1
             /\ \A j \in Ids \ {tries[s].body.key} : told'[j] = told[j]
    <3>1. s \notin ChargedNow(k)
      BY <2>5, Places, FreeSlot DEF Moved, FollowUps
    <3>2. told'[k] = told[k] \/ (told'[k] = told[k] + 1 /\ s \in Charged(k))
      BY <2>1, <2>5, Places
    <3> QED BY <1>1, <1>2, <2>2, <2>5, <3>1, <3>2, CountMoved
  <2> QED BY <1>7, <2>3, <2>4, <2>5 DEF FollowDoes
<1> QED BY <1>4, <1>5, <1>6, <1>7 DEF Working


\* The claim is filed: its try is charged no more, and no look-up will be.
LEMMA CountFiled ==
  ASSUME IntakeBase, IntakeTypeOK', NEW s \in Slots, InsertDoes(s), NEW k \in Ids, Counted(k),
         claims'[k] # claims[k]
  PROVE  CountedNow(k)
<1>1. /\ k = tries[s].body.key /\ ~Filed(k) /\ Files(tries[s].body)
      /\ tries[s].step = "insert" /\ tries'[s].step \in FollowUps
  BY DEF InsertDoes, InsertBy, Files
<1>2. claims'[k] # NoClaim
  BY <1>1 DEF Filed
<1>3. \A t \in Slots \ {s} : tries'[t] = tries[t]
  BY DEF InsertDoes, InsertBy
<1>4. s \in Charged(k)
  BY <1>1, Places
<1>5. ChargedNow(k) \subseteq Charged(k)
  <2>1. ASSUME NEW t \in ChargedNow(k) \ {s} PROVE t \in Charged(k)
    BY <1>1, <1>3, Places DEF ChargedNow
  <2> QED BY <1>4, <2>1
<1>6. IsFiniteSet(Charged(k))
  <2>1. Charged(k) \in SUBSET Slots
    BY DEF Charged
  <2> QED BY <2>1, IntakeAssumption, FS_Subset
<1>7. Cardinality(Charged(k)) \in Nat
  BY <1>6, FS_CardinalityType
<1>8. IsFiniteSet(ChargedNow(k)) /\ Cardinality(ChargedNow(k)) <= Cardinality(Charged(k))
  BY <1>5, <1>6, FS_Subset
<1>9. Cardinality(ChargedNow(k)) \in Nat
  BY <1>8, FS_CardinalityType
<1>10. /\ told[k] \in Nat /\ crowded[k] \in Nat /\ mishaps \in Nat
       /\ told'[k] \in Nat /\ crowded'[k] \in Nat /\ mishaps' \in Nat
       /\ told'[k] = told[k] /\ crowded'[k] = crowded[k]
  BY Numbers, NumbersNow DEF InsertDoes, InsertBy, Inside
<1>11. told[k] + Cardinality(Charged(k)) <= mishaps + crowded[k] + 1
  <2>1. One(~Filed(k) /\ Pend(k) # {}) \in 0..1
    BY DEF One
  <2> QED BY <1>7, <1>10, <2>1 DEF Counted
<1>12. CASE mishaps' = mishaps + 1
  <2>1. told'[k] + Cardinality(ChargedNow(k)) <= mishaps' + crowded'[k]
    BY <1>7, <1>8, <1>9, <1>10, <1>11, <1>12
  <2> QED BY <1>2, <1>10, <2>1 DEF CountedNow, One
<1>13. CASE mishaps' # mishaps + 1
  <2>1. tries'[s].filed /\ mishaps' = mishaps
    BY <1>1, <1>13 DEF InsertDoes, InsertBy
  <2>2. s \notin ChargedNow(k)
    BY <1>1, <2>1, Places DEF FollowUps
  <2>3. Cardinality(ChargedNow(k)) < Cardinality(Charged(k))
    BY <1>4, <1>5, <1>6, <1>7, <1>8, <1>9, <2>2, FS_Subset
  <2>4. told'[k] + Cardinality(ChargedNow(k)) <= mishaps' + crowded'[k]
    BY <1>7, <1>9, <1>10, <1>11, <2>1, <2>3
  <2> QED BY <1>2, <1>10, <2>4 DEF CountedNow, One
<1> QED BY <1>12, <1>13

LEMMA CountStep ==
  ASSUME IntakeBase, IntakeTypeOK', IntakeMoves, CountInv
  PROVE  CountInv'
<1>1. ASSUME NEW k \in Ids PROVE CountedNow(k)
  <2>1. Counted(k)
    BY DEF CountInv, Counted, One
  <2>2. CASE Editing \/ Quieting \/ Sweeping
    <3>1. claims'[k] = claims[k] /\ told'[k] = told[k] /\ crowded'[k] = crowded[k]
          /\ mishaps' = mishaps
      BY <2>2 DEF Editing, OpenDoes, TypeDoes, UploadDoes, UploadBy, SaveDoes, SaveBy,
           ResumeDoes, StartDoes, Filing, Told, Quieting, CloseDoes, StopDoes, HearOk,
           Sweeping, LookDoes, DeleteDoes
    <3>2. tries' = tries \/ tries' = Deaf
      BY <2>2 DEF Editing, OpenDoes, TypeDoes, UploadDoes, UploadBy, SaveDoes, SaveBy,
           ResumeDoes, StartDoes, Filing, Told, Quieting, CloseDoes, StopDoes, HearOk,
           Sweeping, LookDoes, DeleteDoes
    <3>3. \A t \in Slots : Unmoved(t)
      BY <3>2, Quieted
    <3> QED BY <2>1, <3>1, <3>3, Still
  <2>3. CASE Sending
    BY <2>1, <2>3, SendingSends, CountSent
  <2>4. ASSUME NEW s \in Slots, Ending(s) PROVE CountedNow(k)
    BY <2>1, <2>4, CountEnding
  <2>5. ASSUME NEW s \in Slots, Working(s) PROVE CountedNow(k)
    <3>1. CASE claims'[k] = claims[k]
      BY <2>1, <2>5, <3>1, CountWorking
    <3>2. CASE claims'[k] # claims[k]
      <4>1. PICK t \in Slots : InsertDoes(t)
        BY <3>2, ClaimsStay
      <4> QED BY <2>1, <3>2, <4>1, CountFiled
    <3> QED BY <3>1, <3>2
  <2> QED BY <2>2, <2>3, <2>4, <2>5 DEF IntakeMoves
<1>2. ASSUME NEW k \in Ids
      PROVE  (told[k] + Cardinality(Charged(k))
               <= mishaps + crowded[k] + (IF ~Filed(k) /\ Pend(k) # {} THEN 1 ELSE 0))'
  <2>1. ChargedNow(k) = Charged(k)' /\ PendNow(k) = Pend(k)'
    BY DEF ChargedNow, Charged, PendNow, Pend, Filed
  <2>2. CountedNow(k)
    BY <1>1
  <2> QED BY <2>1, <2>2 DEF CountedNow, Filed, One
<1> QED BY <1>2 DEF CountInv


-----------------------------------------------------------------------------
(* Intake: the theorems. *)

LEMMA IntakeStarts == IntakeInit => IntakeInv
<1> SUFFICES ASSUME IntakeInit PROVE IntakeInv
  OBVIOUS
<1>1. /\ page = ClosedPage /\ draft = Blank /\ page.view = "closed" /\ page.step = "idle"
      /\ page.form = Blank /\ page.banner = Blank /\ page.body = Blank
  BY DEF IntakeInit, ClosedPage
<1>2. \A s \in Slots : tries[s] = Free
  BY DEF IntakeInit
<1>3. /\ \A k \in Ids : ~Filed(k) /\ posted[k] = {} /\ told[k] = 0 /\ crowded[k] = 0
                        /\ claims[k] = NoClaim
      /\ shown = {} /\ typed = 0 /\ mishaps = 0 /\ NoClaim.photo = 0
  BY DEF IntakeInit, Filed, NoClaim
<1>4. IntakeTypeOK
  <2>1. page \in Pages /\ draft \in Forms /\ tries \in [Slots -> Try]
    BY BlankPage, FreeSlot DEF IntakeInit
  <2>2. /\ claims \in [Ids -> [content : Contents \cup {0}, photo : Photos \cup {0}]]
        /\ photos \in [Photos -> [key : Ids \cup {0}, there : BOOLEAN]]
        /\ sweep \subseteq Photos
    BY DEF IntakeInit, NoClaim, NoPhoto
  <2>3. /\ typed \in 0..MaxContents /\ visits \in 0..MaxVisits
        /\ submits \in 0..MaxSubmits /\ mishaps \in 0..MaxMishaps
    BY IntakeBounds DEF IntakeInit
  <2>4. /\ posted \in [Ids -> SUBSET Contents]
        /\ shown \subseteq [key : Ids, content : Contents \cup {0}]
        /\ told \in [Ids -> Nat] /\ crowded \in [Ids -> Nat]
        /\ followed \in [Ids -> SUBSET FollowUps] /\ missed \in [Ids -> SUBSET FollowUps]
        /\ swept \subseteq Ids /\ rekeyed \in BOOLEAN
    BY DEF IntakeInit
  <2> QED BY <2>1, <2>2, <2>3, <2>4 DEF IntakeTypeOK
<1>5. TryInv /\ HearInv
  BY <1>2, FreeSlot DEF TryInv, TryGood, HearInv, HearGood, Answered
<1>6. PageInv
  BY <1>1 DEF PageInv
<1>7. ClaimInv /\ FiledIsFollowedUp /\ StayInv
  BY <1>3 DEF ClaimInv, FiledIsFollowedUp, StayInv
<1>8. TypedInv /\ OneId
  BY <1>1, <1>3, FreeSlot DEF TypedInv, OneId
<1>9. OwnInv
  BY <1>1, <1>2, <1>3, FreeSlot DEF OwnInv, Own
<1>10. CountInv
  <2>1. \A k \in Ids : Charged(k) = {} /\ Pend(k) = {}
    BY <1>2, FreeSlot DEF Charged, Pend, FollowUps
  <2> QED BY <1>3, <2>1, FS_EmptySet DEF CountInv
<1> QED BY <1>4, <1>5, <1>6, <1>7, <1>8, <1>9, <1>10 DEF IntakeInv, IntakeBase

LEMMA IntakeSteps == IntakeInv /\ [IntakeNext]_intakeVars => IntakeInv'
<1> SUFFICES ASSUME IntakeInv, [IntakeNext]_intakeVars PROVE IntakeInv'
  OBVIOUS
<1>1. CASE IntakeNext
  <2>1. IntakeBase' /\ IntakeMoves /\ Grows
    BY <1>1, IntakeBaseStep DEF IntakeInv
  <2>2. IntakeTypeOK'
    BY <2>1 DEF IntakeBase
  <2>3. ClaimInv' /\ FiledIsFollowedUp' /\ TypedInv' /\ OneId' /\ OwnInv'
    BY <2>1, ClaimStep, FollowStep, TypedStep, OneIdStep, OwnershipStep DEF IntakeInv
  <2>4. StayInv' /\ CountInv'
    BY <2>1, <2>2, StayStep, CountStep DEF IntakeInv
  <2> QED BY <2>1, <2>3, <2>4 DEF IntakeInv
<1>2. CASE UNCHANGED intakeVars
  <2> USE <1>2 DEF intakeVars, worker, counts, traces
  <2>1. IntakeTypeOK' /\ TryInv' /\ HearInv' /\ PageInv'
    BY DEF IntakeInv, IntakeBase, IntakeTypeOK, TryInv, TryGood, Complete, HearInv, HearGood,
           PageInv, Filed
  <2>2. ClaimInv' /\ TypedInv' /\ OneId' /\ FiledIsFollowedUp'
    BY DEF IntakeInv, ClaimInv, TypedInv, OneId, FiledIsFollowedUp, Filed
  <2>3. OwnInv' /\ StayInv'
    BY DEF IntakeInv, OwnInv, Own, StayInv, Lost, Filed
  <2>4. CountInv'
    BY DEF IntakeInv, CountInv, Charged, Pend, Filed
  <2> QED BY <2>1, <2>2, <2>3, <2>4 DEF IntakeInv, IntakeBase
<1> QED BY <1>1, <1>2

\* The inductive invariant of the intake holds in every reachable state.
THEOREM IntakeInvariance == IntakeSpec => []IntakeInv
BY IntakeStarts, IntakeSteps, PTL DEF IntakeSpec

\* Every variable of the intake keeps its type: the ids, contents, photos and
\* slots it uses are the bounds', whatever they are.
THEOREM IntakeTyped == IntakeSpec => []IntakeTypeOK
<1>1. IntakeInv => IntakeTypeOK
  BY DEF IntakeInv, IntakeBase
<1> QED BY <1>1, IntakeInvariance, PTL

\* ShowOutcome: a success that is shown is of a claim on file and of what the form
\* held, unless one submission id stood for two contents.
THEOREM SuccessFiled == IntakeSpec => []SuccessMeansFiled
<1>1. IntakeInv => SuccessMeansFiled
  <2> SUFFICES ASSUME IntakeInv, NEW x \in shown
               PROVE  /\ Filed(x.key)
                      /\ claims[x.key].content = x.content \/ posted[x.key] # {x.content}
    BY DEF SuccessMeansFiled
  <2>1. Filed(x.key) /\ x.key \in Ids
    BY DEF IntakeInv, IntakeBase, IntakeTypeOK, ClaimInv
  <2>2. claims[x.key].content \in posted[x.key]
    BY <2>1 DEF IntakeInv, ClaimInv
  <2> QED BY <2>1, <2>2
<1> QED BY <1>1, IntakeInvariance, PTL

\* getClaimByIdempotencyKey and the key's unique index: one content is filed once,
\* unless its form was given another submission id after it was sent.
THEOREM OneFiling == IntakeSpec => []FiledOnce
<1>1. IntakeInv => FiledOnce
  <2> SUFFICES ASSUME IntakeInv, ~rekeyed, NEW j \in Ids, NEW k \in Ids, Filed(j), Filed(k),
                      claims[j].content = claims[k].content
               PROVE  j = k
    BY DEF FiledOnce
  <2>1. claims[j].content \in posted[j] /\ claims[j].content \in posted[k]
    BY DEF IntakeInv, ClaimInv
  <2> QED BY <2>1 DEF IntakeInv, OneId
<1> QED BY <1>1, IntakeInvariance, PTL

\* The intake's side effects: at most one mail about a claim that was not filed for
\* each mishap and for each try that was sent beside another.
THEOREM PhantomsCounted == IntakeSpec => []PhantomsAreExcused
<1>1. IntakeInv => PhantomsAreExcused
  <2> SUFFICES ASSUME IntakeInv, NEW k \in Ids PROVE told[k] <= mishaps + crowded[k]
    BY DEF PhantomsAreExcused
  <2>1. told[k] \in Nat /\ crowded[k] \in Nat /\ mishaps \in Nat
    BY Numbers DEF IntakeInv
  <2>2. Counted(k)
    BY DEF IntakeInv, CountInv, Counted, One
  <2>3. IsFiniteSet(Charged(k)) /\ IsFiniteSet(Pend(k))
    <3>1. Charged(k) \in SUBSET Slots /\ Pend(k) \in SUBSET Slots
      BY DEF Charged, Pend
    <3> QED BY <3>1, IntakeAssumption, FS_Subset
  <2>4. Cardinality(Charged(k)) \in Nat
    BY <2>3, FS_CardinalityType
  <2>5. One(~Filed(k) /\ Pend(k) # {}) <= Cardinality(Charged(k))
    <3>1. CASE ~Filed(k) /\ Pend(k) # {}
      <4>1. Charged(k) # {}
        <5>1. PICK s \in Slots : s \in Pend(k)
          BY <3>1 DEF Pend
        <5>2. s \in Charged(k)
          BY <3>1, <5>1, Places
        <5> QED BY <5>2
      <4>2. Cardinality(Charged(k)) # 0
        BY <2>3, <4>1, FS_EmptySet
      <4> QED BY <2>4, <3>1, <4>2 DEF One
    <3>2. CASE ~(~Filed(k) /\ Pend(k) # {})
      BY <2>4, <3>2 DEF One
    <3> QED BY <3>1, <3>2
  <2>6. One(~Filed(k) /\ Pend(k) # {}) \in Nat
    BY DEF One
  <2> QED BY <2>1, <2>2, <2>4, <2>5, <2>6 DEF Counted
<1> QED BY <1>1, IntakeInvariance, PTL

\* runClaimUploadsCleanup: a filed claim's photos stay, unless it was being filed
\* while the sweep was at work, or nothing was ever sent under the id they carry.
THEOREM PhotosStay == IntakeSpec => []FiledPhotosStay
<1>1. IntakeInv => FiledPhotosStay
  BY DEF IntakeInv, StayInv, Lost, FiledPhotosStay
<1> QED BY <1>1, IntakeInvariance, PTL

\* handleClaimSubmission after its insert: each follow-up of a filed claim was carried
\* out, is still ahead of the one try that filed it, or was missed by a failure.
THEOREM FollowedUp == IntakeSpec => []FiledIsFollowedUp
<1>1. IntakeInv => FiledIsFollowedUp
  BY DEF IntakeInv
<1> QED BY <1>1, IntakeInvariance, PTL
=============================================================================
