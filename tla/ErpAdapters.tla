----------------------------- MODULE ErpAdapters -----------------------------
(***************************************************************************)
(* The money in the drafts that erp_adapters.py makes of the canonical     *)
(* payload for Odoo, SAP Business One and Siigo.  Names, dates and texts   *)
(* are copied or put together and left out, and so are codes that do not   *)
(* depend on the payload.                                                  *)
(*                                                                         *)
(* A payload holds its amounts as strings of two decimals, so that zero,   *)
(* "0.00", counts as present for Python's `or'; here that is an integer in *)
(* cents next to None.                                                     *)
(***************************************************************************)
EXTENDS Integers

CONSTANT None  \* null in the payload

-----------------------------------------------------------------------------
(* detraction.get(...) or ... or "0.00"                                    *)

\* Variant: with numbers instead of strings zero would count as absent.
FirstNonZero(x, y) == IF x \notin {None, 0} THEN x ELSE y

FirstPresent(x, y) == IF x # None THEN x ELSE y

OrZero(x) == FirstPresent(x, 0)

ToVendor(payload) == OrZero(FirstPresent(payload.net, payload.total))

-----------------------------------------------------------------------------
\* LineTotal, TaxCode (always that of the 18 %), U_BKP_Detraccion,
\* U_BKP_TasaDetracc, U_BKP_MontoDetracc and U_BKP_NetoPagar.
SapDraft(payload) ==
    [line |-> OrZero(payload.subtotal), isSubject |-> payload.isSubject,
     rate |-> OrZero(payload.rate), withheld |-> OrZero(payload.amount),
     payment |-> ToVendor(payload)]

\* items, their taxes, retentions and payments: a retention is listed for a
\* detraction with an amount.
SiigoDraft(payload) ==
    [price |-> OrZero(payload.subtotal), tax |-> OrZero(payload.tax),
     retentions |-> IF payload.isSubject /\ payload.amount # None
                    THEN {[value |-> payload.amount, rate |-> OrZero(payload.rate)]} ELSE {},
     payment |-> ToVendor(payload)]

\* invoice_line_ids; the detraction is a remark in payment_reference.
OdooDraft(payload) ==
    [price |-> OrZero(payload.subtotal), tax |-> OrZero(payload.tax),
     total |-> OrZero(payload.total),
     remark |-> IF payload.isSubject THEN {[rate |-> payload.rate, amount |-> payload.amount]} ELSE {}]
=============================================================================
