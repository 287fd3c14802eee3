---------------------------- MODULE ClaimReview ----------------------------
(***************************************************************************)
(* A damage claim after its intake (damage-worker/src/index.ts): the       *)
(* status transitions of transitions.ts, the cause, the equipment override *)
(* that opens a work order in MaintainX, and the quotes and receipts that  *)
(* are uploaded, edited and deleted beside it, up to the check request     *)
(* that is sent to accounts payable (AP).                                  *)
(*                                                                         *)
(* A request reads the claim once, judges by what it read and writes some  *)
(* calls later, with no condition but the claim's id.  Claims share        *)
(* nothing, so one is enough.  Operators of every role are there: a role   *)
(* decides who may ask, not what may happen.  Requests that are refused,   *)
(* or that fail before their write, change nothing and just end.  The      *)
(* statuses no claim can reach any more are left out with their            *)
(* transitions (new, pending CEO approval, check issued).                  *)
(***************************************************************************)
EXTENDS Integers, Sequences, FiniteSets

CONSTANTS
  Requests,     \* HTTP requests under way, each of any kind
  Amounts,      \* of quotes
  Threshold,    \* $500: a check request this large needs an approver's note
  MaxDocs,      \* bound: documents uploaded
  MaxExtras,    \* bound: causes set, overrides, edits, deletions and send-backs
  MaxOverlaps,  \* bound: requests that begin beside another
  MaxFaults     \* bound: calls that fail or whose answer is lost

ASSUME AmountsAssumption == Amounts \subseteq Nat \ {0} /\ Threshold \in Nat
ASSUME BoundsAssumption ==
  /\ MaxDocs \in Nat /\ MaxExtras \in Nat
  /\ MaxOverlaps \in Nat /\ MaxFaults \in Nat

VARIABLES
  row,     \* the claims row
  docs,    \* its Quote and Receipt rows of claim_photos, by id
  files,   \* R2: whose upload each key holds, 0 for none
  req,     \* [Requests -> request in progress]
  orders,  \* MaintainX: work orders that exist for the claim
  uploads, extras, overlaps, faults,
  \* History variables:
  sent,     \* the check request sent to AP, until the claim moves on
  reopened, \* in the payment chain by way of "no response", with no approval
  edited,   \* quotes whose amount changed after it was read for an approval
  raced     \* what a request broke after something landed behind its back

bounds == <<uploads, extras, overlaps, faults>>
ghosts == <<sent, reopened, edited, raced>>
vars == <<row, docs, files, req, orders, bounds, ghosts>>

-----------------------------------------------------------------------------
(* transitions.ts. *)

Statuses == {"noresp", "gm", "rm", "quotes", "rmquote", "parts", "check", "pay",
             "paid", "denied", "settled", "noanswer"}
Closed == {"paid", "denied", "settled", "noanswer"}
Chain == {"check", "pay"}

Plain == {<<"noresp", "denied">>, <<"gm", "quotes">>, <<"gm", "parts">>,
  <<"gm", "rm">>, <<"gm", "denied">>, <<"rm", "quotes">>, <<"rm", "parts">>,
  <<"rm", "denied">>, <<"quotes", "rmquote">>, <<"rmquote", "denied">>,
  <<"check", "pay">>, <<"pay", "paid">>}
RequiresReceipt == {<<"parts", "paid">>}
RequiresQuote == {<<"rmquote", "check">>}
Noted == {<<"gm", "settled">>, <<"rm", "settled">>, <<"quotes", "noanswer">>,
  <<"pay", "check">>, <<"noanswer", "check">>}

\* Send-backs and reopenings: noted, and they clear the approval.
ClearsBackwards == ({"paid", "denied", "settled"} \X {"gm", "rm"}) \cup
  {<<"noresp", "gm">>, <<"rm", "gm">>, <<"quotes", "gm">>, <<"quotes", "rm">>,
   <<"rmquote", "gm">>, <<"rmquote", "rm">>, <<"rmquote", "quotes">>,
   <<"parts", "gm">>, <<"check", "rmquote">>, <<"noanswer", "rmquote">>}
Clears == ClearsBackwards \cup {<<"quotes", "denied">>, <<"pay", "rmquote">>}

Transitions == Plain \cup RequiresReceipt \cup RequiresQuote \cup Noted \cup Clears
RequiresNote(t) == t \in Noted \cup Clears

-----------------------------------------------------------------------------
(* State. *)

DocIds == 1..MaxDocs
Kinds == {"Quote", "Receipt"}
Keys == Kinds \X DocIds    \* claims/<id>/<kind>_<number>
Money == Amounts \cup {0}  \* 0: null

\* fault_category: null, "No Fault", or another cause an operator chose.
Causes == {"undetermined", "noFault", "error"}
Row == [status : Statuses, amount : Money, quote : DocIds \cup {0},
        cause : Causes, equipment : BOOLEAN, order : Nat]
Doc == [kind : Kinds, amount : Money, live : BOOLEAN, key : Keys, upload : DocIds]

\* from, to: the transition; quote, amount: the approval it writes, or the one
\* it read; doc: the document meant; number: of an upload's key, or of a work
\* order.  stale: something landed since it began (history).
Steps == {"idle", "gate", "write", "reread", "post", "link", "package",
          "put", "insert", "cause", "delete", "edit"}
Request == [step : Steps, t : Transitions \cup {<<>>}, note : BOOLEAN,
            auto : BOOLEAN, override : BOOLEAN, quote : DocIds \cup {0},
            amount : Money, kind : Kinds, doc : DocIds \cup {0},
            number : Nat, cause : Causes, stale : BOOLEAN]
Idle == [step |-> "idle", t |-> <<>>, note |-> FALSE, auto |-> FALSE,
         override |-> FALSE, quote |-> 0, amount |-> 0, kind |-> "Quote",
         doc |-> 0, number |-> 0, cause |-> "undetermined", stale |-> FALSE]

Sent == [amount : Money, approved : Money, note : BOOLEAN, edited : BOOLEAN,
         substitute : BOOLEAN]

TypeOK ==
  /\ row \in Row
  /\ docs \in Seq(Doc) /\ Len(docs) <= MaxDocs
  /\ files \in [Keys -> 0..MaxDocs]
  /\ req \in [Requests -> Request]
  /\ orders \in Nat
  /\ uploads \in 0..MaxDocs /\ extras \in 0..MaxExtras
  /\ overlaps \in 0..MaxOverlaps /\ faults \in 0..MaxFaults
  /\ sent \subseteq Sent /\ reopened \in BOOLEAN
  /\ edited \subseteq DocIds /\ raced \subseteq {"override", "quote", "file", "approval"}

Init ==
  /\ \E s \in {"gm", "noresp", "quotes"} :
       row = [status |-> s, amount |-> 0, quote |-> 0, cause |-> "undetermined",
              equipment |-> FALSE, order |-> 0]
  /\ docs = <<>> /\ files = [k \in Keys |-> 0]
  /\ req = [r \in Requests |-> Idle]
  /\ orders = 0 /\ uploads = 0 /\ extras = 0
  /\ overlaps = 0 /\ faults = 0
  /\ sent = {} /\ reopened = FALSE /\ edited = {} /\ raced = {}

Live(kind) == {d \in DOMAIN docs : docs[d].kind = kind /\ docs[d].live}

\* r begins with what it has just read.
Begin(r, request) ==
  /\ req[r] = Idle
  /\ req' = [req EXCEPT ![r] = request]
  /\ overlaps' = IF \A x \in Requests : req[x] = Idle THEN overlaps ELSE overlaps + 1
  /\ overlaps' <= MaxOverlaps

\* r goes on after a write of its own; the others' reads are old now.
Reading == {"gate", "write", "put", "insert", "cause", "delete", "edit"}
Go(r, request) ==
  req' = [x \in Requests |->
            IF x = r THEN request
            ELSE [req[x] EXCEPT !.stale = @ \/ req[x].step \in Reading]]

Extra == extras < MaxExtras /\ extras' = extras + 1
Fault == faults < MaxFaults /\ faults' = faults + 1

-----------------------------------------------------------------------------
(* handleStatusTransition. *)

\* A denial sets the cause if the claim it read has none.
AutoNoFaultAlways(t) == t[2] = "denied"
AutoNoFault(t) == t[2] = "denied" /\ row.cause = "undetermined"

\* "Submit for Payment" of a large check needs the approver's note.
AttributedUnchecked(t, note) == TRUE
Attributed(t, note) == t[2] = "pay" /\ row.amount >= Threshold => note

\* The override flips the flag from no to yes.
MayOverrideAgain(t) == t[2] \in {"quotes", "parts"}
MayOverride(t) == t[2] \in {"quotes", "parts"} /\ ~row.equipment

BeginTransition(r) ==
  \E t \in Transitions, note, override \in BOOLEAN :
    /\ t[1] = row.status
    /\ RequiresNote(t) => note
    /\ ~RequiresNote(t) /\ t[2] # "pay" => ~note  \* which changes nothing
    /\ Attributed(t, note)
    /\ override => MayOverride(t)
    /\ IF override \/ t \in Clears THEN Extra ELSE UNCHANGED extras
    /\ Begin(r, [Idle EXCEPT
         !.step = IF t \in RequiresReceipt \cup RequiresQuote THEN "gate" ELSE "write",
         !.t = t, !.note = note, !.override = override,
         !.auto = AutoNoFault(t),
         !.quote = IF t[2] = "pay" THEN row.quote ELSE 0,
         !.amount = IF t[2] = "pay" THEN row.amount ELSE 0])
    /\ UNCHANGED <<row, docs, files, orders, uploads, faults, ghosts>>

\* A receipt on file, or a quote to approve, among the live documents.
ReceiptOnFile == Live("Receipt") # {}

PassGate(r) ==
  /\ req[r].step = "gate"
  /\ \/ /\ req[r].t \in RequiresReceipt /\ ReceiptOnFile
        /\ req' = [req EXCEPT ![r].step = "write"]
     \/ /\ req[r].t \in RequiresQuote
        /\ \E d \in Live("Quote") :
             req' = [req EXCEPT ![r] = [@ EXCEPT !.step = "write", !.quote = d,
                                                 !.amount = docs[d].amount]]
  /\ UNCHANGED <<row, docs, files, orders, bounds, ghosts>>

\* UPDATE claims ... WHERE claim_id, with the activity row in one batch.
ApprovalForward(q) ==
  CASE q.t \in ClearsBackwards -> [amount |-> 0, quote |-> row.quote]
    [] q.t \in RequiresQuote   -> [amount |-> q.amount, quote |-> q.quote]
    [] OTHER                   -> [amount |-> row.amount, quote |-> row.quote]
Approval(q) ==
  CASE q.t \in Clears        -> [amount |-> 0, quote |-> 0]
    [] q.t \in RequiresQuote -> [amount |-> q.amount, quote |-> q.quote]
    [] OTHER                 -> [amount |-> row.amount, quote |-> row.quote]

Updated(q) ==
  LET approval == Approval(q)
  IN [row EXCEPT !.status = q.t[2], !.amount = approval.amount,
                 !.quote = approval.quote,
                 !.equipment = @ \/ q.override,
                 !.cause = IF q.auto THEN "noFault" ELSE @]

After(q) ==
  CASE q.override     -> [Idle EXCEPT !.step = "reread"]
    [] q.t[2] = "pay" -> [Idle EXCEPT !.step = "package", !.quote = q.quote,
                                      !.amount = q.amount, !.note = q.note]
    [] OTHER          -> Idle

\* What this write breaks because it was judged on an old read.
Broken(q) ==
  {x \in {"override", "quote", "approval"} :
     CASE x = "override" -> q.override /\ row.equipment
       [] x = "quote"    -> q.t \in RequiresQuote /\ ~docs[q.quote].live
       [] x = "approval" -> q.t[1] # row.status}

WriteTransition(r) ==
  LET q == req[r]
  IN /\ q.step = "write"
     /\ row' = Updated(q)
     /\ Go(r, After(q))
     /\ reopened' = IF q.t \in Clears \cup RequiresQuote THEN FALSE
                    ELSE reopened \/ q.t = <<"noanswer", "check">>
     /\ raced' = IF q.stale THEN raced \cup Broken(q) ELSE raced
     /\ sent' = {}
     /\ UNCHANGED <<docs, files, orders, bounds, edited>>

-----------------------------------------------------------------------------
(* tryCreateMaintainXIfMissing, and the AP package. *)

\* The claim is read again; when that read fails the order is created anyway.
ReReadClaim(r) ==
  /\ req[r].step = "reread"
  /\ \/ /\ req' = [req EXCEPT ![r] = IF row.order # 0 THEN Idle
                                    ELSE [Idle EXCEPT !.step = "post"]]
        /\ UNCHANGED faults
     \/ /\ Fault
        /\ req' = [req EXCEPT ![r] = [Idle EXCEPT !.step = "post"]]
  /\ UNCHANGED <<row, docs, files, orders, uploads, extras, overlaps, ghosts>>

\* The POST: it may fail, or be cut off by the timeout after the order exists.
PostWorkOrder(r) ==
  /\ req[r].step = "post"
  /\ \/ /\ orders' = orders + 1
        /\ req' = [req EXCEPT ![r] = [Idle EXCEPT !.step = "link", !.number = orders']]
        /\ UNCHANGED faults
     \/ /\ Fault
        /\ orders' \in {orders, orders + 1}
        /\ req' = [req EXCEPT ![r] = Idle]
  /\ UNCHANGED <<row, docs, files, uploads, extras, overlaps, ghosts>>

\* updateMaintainXWorkOrderId: only when the column is null.
LinkWhenNull(old, new) == IF old = 0 THEN new ELSE old

LinkWorkOrder(r) ==
  /\ req[r].step = "link"
  /\ row' = [row EXCEPT !.order = LinkWhenNull(@, req[r].number)]
  /\ req' = [req EXCEPT ![r] = Idle]
  /\ UNCHANGED <<docs, files, orders, bounds, ghosts>>

\* The approved quote as the claim was read, or any live one in its place; the
\* amount on the form is the quote's own.
PackageForAP(r) ==
  LET q == req[r]
      approved == {d \in Live("Quote") : d = q.quote}
      chosen == IF approved # {} THEN approved ELSE Live("Quote")
  IN /\ q.step = "package"
     /\ req' = [req EXCEPT ![r] = Idle]
     /\ IF q.quote = 0 \/ chosen = {} THEN sent' = {}
        ELSE \E first \in chosen :
               /\ \A d \in chosen : first <= d
               /\ sent' = {[amount |-> docs[first].amount, approved |-> q.amount,
                            note |-> q.note, edited |-> first \in edited,
                            substitute |-> first # q.quote]}
     /\ UNCHANGED <<row, docs, files, orders, bounds, reopened, edited, raced>>

-----------------------------------------------------------------------------
(* handleSetFaultCategory and the documents. *)

BeginCause(r) ==
  \E c \in Causes \ {row.cause} :
    /\ Extra
    /\ Begin(r, [Idle EXCEPT !.step = "cause", !.cause = c])
    /\ UNCHANGED <<row, docs, files, orders, uploads, faults, ghosts>>

SetCause(r) ==
  /\ req[r].step = "cause"
  /\ row' = [row EXCEPT !.cause = req[r].cause]
  /\ Go(r, Idle)
  /\ UNCHANGED <<docs, files, orders, bounds, ghosts>>

\* countPhotosOfType: the number in the key of the next upload.
NextNumberFirst(kind) == 1
NextNumber(kind) == Cardinality(Live(kind)) + 1

BeginUpload(r) ==
  \E kind \in Kinds :
    /\ uploads < MaxDocs /\ uploads' = uploads + 1
    /\ Begin(r, [Idle EXCEPT !.step = "put", !.kind = kind,
                             !.number = NextNumber(kind), !.doc = uploads'])
    /\ raced' = IF \E x \in Requests : req[x].step \in {"put", "insert"} /\ req[x].kind = kind
                THEN raced \cup {"file"} ELSE raced
    /\ UNCHANGED <<row, docs, files, orders, extras, faults, sent, reopened, edited>>

PutFile(r) ==
  LET q == req[r]
  IN /\ q.step = "put"
     /\ files' = [files EXCEPT ![<<q.kind, q.number>>] = q.doc]
     /\ Go(r, [q EXCEPT !.step = "insert"])
     /\ UNCHANGED <<row, docs, orders, bounds, ghosts>>

InsertDoc(r) ==
  LET q == req[r]
  IN /\ q.step = "insert"
     /\ \E amount \in IF q.kind = "Quote" THEN Amounts ELSE {0} :
          docs' = Append(docs, [kind |-> q.kind, amount |-> amount, live |-> TRUE,
                                key |-> <<q.kind, q.number>>, upload |-> q.doc])
     /\ Go(r, Idle)
     /\ UNCHANGED <<row, files, orders, bounds, ghosts>>

\* Not the quote the claim that was read has approved.
DeletableAny(d) == docs[d].live
Deletable(d) == docs[d].live /\ (docs[d].kind = "Quote" => row.quote # d)

BeginDelete(r) ==
  \E d \in DOMAIN docs :
    /\ Deletable(d) /\ Extra
    /\ Begin(r, [Idle EXCEPT !.step = "delete", !.doc = d])
    /\ UNCHANGED <<row, docs, files, orders, uploads, faults, ghosts>>

SoftDelete(r) ==
  LET q == req[r]
  IN /\ q.step = "delete"
     /\ docs' = [docs EXCEPT ![q.doc].live = FALSE]
     /\ Go(r, Idle)
     /\ raced' = IF q.stale /\ row.quote = q.doc THEN raced \cup {"quote"} ELSE raced
     /\ UNCHANGED <<row, files, orders, bounds, sent, reopened, edited>>

\* Nothing looks at the claim: an approved quote can be edited too.
BeginEdit(r) ==
  \E d \in Live("Quote"), amount \in Amounts :
    /\ amount # docs[d].amount /\ Extra
    /\ Begin(r, [Idle EXCEPT !.step = "edit", !.doc = d, !.amount = amount])
    /\ UNCHANGED <<row, docs, files, orders, uploads, faults, ghosts>>

Selected == {row.quote} \cup {req[r].quote : r \in Requests}

EditDoc(r) ==
  LET q == req[r]
  IN /\ q.step = "edit"
     /\ docs' = [docs EXCEPT ![q.doc].amount = q.amount]
     /\ Go(r, Idle)
     /\ edited' = IF q.doc \in Selected THEN edited \cup {q.doc} ELSE edited
     /\ UNCHANGED <<row, files, orders, bounds, sent, reopened, raced>>

\* A request ends before its write: refused, failed or evicted.
GiveUp(r) ==
  /\ req[r].step # "idle"
  /\ req' = [req EXCEPT ![r] = Idle]
  /\ UNCHANGED <<row, docs, files, orders, bounds, ghosts>>

Next ==
  \E r \in Requests :
    \/ BeginTransition(r) \/ PassGate(r) \/ WriteTransition(r)
    \/ ReReadClaim(r) \/ PostWorkOrder(r) \/ LinkWorkOrder(r) \/ PackageForAP(r)
    \/ BeginCause(r) \/ SetCause(r)
    \/ BeginUpload(r) \/ PutFile(r) \/ InsertDoc(r)
    \/ BeginDelete(r) \/ SoftDelete(r) \/ BeginEdit(r) \/ EditDoc(r)
    \/ GiveUp(r)

Spec == Init /\ [][Next]_vars

-----------------------------------------------------------------------------
(* Properties. *)

\* handleDocumentDelete, "Block deleting the approved quote": the approved quote
\* stays on file, but when the deletion and the approval each read before the
\* other's write.
ApprovedQuoteStays ==
  row.quote # 0 => docs[row.quote].live \/ "quote" \in raced

\* An approval is there when it is current and only then: a claim in the payment
\* chain has an approved quote and its amount, unless it was reopened into it
\* (nothing was approved then), and a claim outside it has none; but when two
\* transitions that were both allowed when they began have both been written.
PaymentIsApproved ==
  \/ /\ row.status \in Chain => (row.quote # 0 /\ row.amount # 0) \/ reopened
     /\ row.quote # 0 => row.status \in Chain \cup {"paid"}
  \/ "approval" \in raced

\* The check request AP gets: the amount that was approved, with a note who
\* approved it from the threshold on.  It reads the amount off the quote, so an
\* edit after the approval changes it, and a deletion puts another in its place.
ChecksAreApproved ==
  \A s \in sent :
    \/ s.amount = s.approved /\ (s.amount >= Threshold => s.note)
    \/ s.edited \/ s.substitute

\* updateMaintainXWorkOrderId, "at most one WO per claim": two exist only if two
\* overrides both found the flag unset.
OneWorkOrder == orders > 1 => "override" \in raced

\* Every document's key holds the file that was uploaded for it, unless one of
\* its kind was deleted (numbers are counted over live rows) or two uploads
\* of one kind were under way at once.
FilesAreKept ==
  \A d \in DOMAIN docs :
    \/ files[docs[d].key] = docs[d].upload
    \/ "file" \in raced
    \/ \E e \in DOMAIN docs : docs[e].kind = docs[d].kind /\ ~docs[e].live

\* The transition r is written in this step.
Writes(r) == req[r].step = "write" /\ req'[r].step # "write"

\* What a written transition may do, unless something landed after it read the
\* claim: follow the table, leave the cause an operator has set alone, and close
\* a claim whose parts were ordered only with a receipt on file.
FollowsTable == row'.status # row.status => <<row.status, row'.status>> \in Transitions
KeepsCause == row.cause # "undetermined" => row'.cause = row.cause
SpendsWithReceipt ==
  row.status = "parts" /\ row'.status \in Closed => ReceiptOnFile

TransitionStep ==
  \A r \in Requests :
    Writes(r) /\ ~req[r].stale => FollowsTable /\ KeepsCause /\ SpendsWithReceipt
TransitionsAreSound == [][TransitionStep]_vars

\* handleDocumentUpload (index.ts:3916): "Sequence number is over BOTH active and
\* soft-deleted rows so we never collide on R2 keys".  It is over the live ones.
KeysNeverCollide ==
  \A d \in DOMAIN docs : docs[d].live => files[docs[d].key] = docs[d].upload
=============================================================================
