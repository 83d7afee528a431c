----------------------------- MODULE MCBookings -----------------------------
(* Direct calls, two at a time, on one class; a form of that class while    *)
(* another class gets sessions; the pages of that class.                    *)
EXTENDS ClassPages, TLC

CONSTANTS k1, k2, c1, c2

MCClasses   == {k1, k2}
MCRows      == 1..2
MCSlots     == {[from |-> 1, to |-> 3]}
MCTemplates == {[day |-> 1, len |-> 1]}
MCCalls     == {c1, c2}
MCDesks     == {"calls", "form", "pages"}

Paid(price) == [EmptyTerms EXCEPT !.model = "ONE_TIME", !.price = price]
MCEntered   == {Paid("blank"), Paid("ok"), [Paid("ok") EXCEPT !.type = "PRIVATE", !.capacity = "bad"]}
=============================================================================
