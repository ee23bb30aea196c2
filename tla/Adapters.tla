------------------------------ MODULE Adapters ------------------------------
(***************************************************************************)
(* The four provider adapters (internal/adapters/<name>) as functions: what*)
(* CreatePayment asks of the provider and keeps of its answer, which status*)
(* a provider's word stands for, and the event a notification becomes.     *)
(*                                                                         *)
(* A word is a provider's status; Midtrans' fraud_status is part of its    *)
(* word.  An identifier is a record: the payment it is about, the number of*)
(* its order among the orders placed for that payment, and the number of   *)
(* the transaction within the order.  The facade's own reference, pi_..,   *)
(* has neither number.                                                     *)
(***************************************************************************)
EXTENDS Naturals

AdapterNames == {"midtrans", "xendit", "doku", "mayar"}

Statuses == {"requires_payment_method", "requires_action", "requires_capture",
             "succeeded", "canceled"}

PiRef(p) == [of |-> p, order |-> 0, try |-> 0]
OrderRef(p, n) == [of |-> p, order |-> n, try |-> 0]

-----------------------------------------------------------------------------
(* Statuses. *)

\* A capture that the fraud check has yet to decide counts as paid, like any but a
\* denied one.
MidtransStatus(word) ==
    CASE word \in {"settlement", "capture", "capture_challenge",
                   "refund", "partial_refund"} -> "succeeded"
      [] word \in {"deny", "failure", "capture_deny"} -> "requires_payment_method"
      [] word = "authorize" -> "requires_capture"
      [] word \in {"cancel", "expire"} -> "canceled"
      [] OTHER -> "requires_action"

XenditStatus(word) ==
    CASE word \in {"PAID", "SETTLED"} -> "succeeded"
      [] word = "EXPIRED" -> "canceled"
      [] OTHER -> "requires_action"

DokuStatus(word) ==
    CASE word = "SUCCESS" -> "succeeded"
      [] word = "FAILED" -> "requires_payment_method"
      [] OTHER -> "requires_action"

\* An authorized payment shares its event type with a pending one.
EventType(status) ==
    CASE status = "succeeded" -> "payment_intent.succeeded"
      [] status = "requires_payment_method" -> "payment_intent.payment_failed"
      [] status = "canceled" -> "payment_intent.canceled"
      [] OTHER -> "payment_intent.requires_action"

-----------------------------------------------------------------------------
(* CreatePayment: the order's reference at the provider, what the intent    *)
(* keeps as gateway_reference, and its status, of the n-th order for p.     *)

\* The Snap token names no transaction: none exists before the customer picks a method.
MidtransCreate(p, n) ==
    [orderRef |-> PiRef(p), gatewayRef |-> OrderRef(p, n), status |-> "requires_action"]

\* Mutant of XenditCreate: the intent takes the invoice's status as it is.
XenditCreateUnmapped(p, n) ==
    [orderRef |-> PiRef(p), gatewayRef |-> OrderRef(p, n), status |-> "PENDING"]

\* The invoice's own status, PENDING when it is new.
XenditCreate(p, n) ==
    [orderRef |-> PiRef(p), gatewayRef |-> OrderRef(p, n), status |-> XenditStatus("PENDING")]

DokuCreate(p, n) ==
    [orderRef |-> PiRef(p), gatewayRef |-> OrderRef(p, n), status |-> "requires_action"]

\* Mayar is not told the facade's reference: only its own id names the order.
MayarCreate(p, n) ==
    [orderRef |-> OrderRef(p, n), gatewayRef |-> OrderRef(p, n), status |-> "requires_action"]

CreatePayment(g, p, n) ==
    CASE g = "midtrans" -> MidtransCreate(p, n)
      [] g = "xendit" -> XenditCreate(p, n)
      [] g = "doku" -> DokuCreate(p, n)
      [] OTHER -> MayarCreate(p, n)

\* doJSON: no answer and every status from 400 on is an error, whatever the provider
\* did.  0 stands for the answer that never comes.
AnsweredWell(http) == http \in 1 .. 399

-----------------------------------------------------------------------------
(* ParseWebhook of a verified notification: the set of its events.  It      *)
(* carries the reference its order was placed under.                        *)

Event(id, ref, status) ==
    [id |-> id, type |-> EventType(status), ref |-> ref, status |-> status]

\* A transaction of Midtrans is one attempt to pay the order.
MidtransParse(p, n, note) ==
    {Event([of |-> p, order |-> n, try |-> note.try], MidtransCreate(p, n).orderRef,
           MidtransStatus(note.word))}

XenditParse(p, n, note) ==
    {Event(OrderRef(p, n), XenditCreate(p, n).orderRef, XenditStatus(note.word))}

\* DOKU's notifications have no identity of their own: the invoice number stands in.
DokuParse(p, n, note) ==
    LET ref == DokuCreate(p, n).orderRef IN {Event(ref, ref, DokuStatus(note.word))}

\* Mutant of MayarParse: any callback about a payment counts as its receipt.
MayarParseAny(p, n, note) ==
    LET ref == MayarCreate(p, n).orderRef IN {Event(ref, ref, "succeeded")}

\* Only payment.received with data.status true has a meaning.
MayarParse(p, n, note) ==
    LET ref == MayarCreate(p, n).orderRef
    IN IF note.word = "received" THEN {Event(ref, ref, "succeeded")} ELSE {}

ParseWebhook(g, p, n, note) ==
    CASE g = "midtrans" -> MidtransParse(p, n, note)
      [] g = "xendit" -> XenditParse(p, n, note)
      [] g = "doku" -> DokuParse(p, n, note)
      [] OTHER -> MayarParse(p, n, note)

\* Adapters that read the body before they know that the notification is theirs.
BodyReaders == {"midtrans", "doku"}
=============================================================================
