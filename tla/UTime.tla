-------------------------------- MODULE UTime --------------------------------
(***************************************************************************)
(* utime_t (include/time/utime.h): seconds and nanoseconds of 32 bits, and *)
(* the sums, differences, comparisons and conversions of the header.       *)
(* A second has Second nanoseconds here and not 1000000000, a microsecond  *)
(* Micro and not 1000, and seconds wrap at SecMod and not at 2^32; of a    *)
(* double only the whole seconds and the nanoseconds it stands for are     *)
(* kept.  A client computes with the times it has: every operation's       *)
(* result is the operand of the next one.                                  *)
(***************************************************************************)
EXTENDS Integers

CONSTANTS Second,  \* 1000000000
          Micro,   \* 1000, a divisor of Second
          SecMod,  \* 2^32
          NsecMod  \* 2^32, more than four seconds

VARIABLES t, call

vars == <<t, call>>

Doubles == [fs : 0..(SecMod - 1), ns : 0..(Second - 1)]
Nanos(a) == a.sec * Second + a.nsec
WholeMicros(a) == [a EXCEPT !.nsec = @ - (@ % Micro)]

(* Variant of CapToU32Max that lets the seconds wrap. *)
CapToU32Not(n) == n % SecMod

CapToU32Max(n) == IF n >= SecMod THEN SecMod - 1 ELSE n

Normalize(a) ==
  IF a.nsec > Second
    THEN [sec |-> CapToU32Max(a.sec + a.nsec \div Second), nsec |-> a.nsec % Second]
    ELSE a

(* The members' arithmetic before normalize(): both are 32 bits wide.       *)
Raw(s, n) == [sec |-> s % SecMod, nsec |-> n % NsecMod]

(* operator+ and operator+= *)
Plus(a, b) == Normalize(Raw(CapToU32Max(a.sec + b.sec), a.nsec + b.nsec))
PlusDouble(a, d) == Normalize(Raw(CapToU32Max(a.sec + d.fs), a.nsec + d.ns))

Borrow(a, b) == IF a.nsec < b.nsec THEN 1 ELSE 0
(* operator-: the seconds go through a time_t on their way to the members.  *)
Minus(a, b) == Normalize(Raw(a.sec - b.sec - Borrow(a, b), a.nsec - b.nsec + Borrow(a, b) * Second))
(* operator-= *)
MinusEq(a, b) == Raw(a.sec - b.sec - Borrow(a, b), a.nsec - b.nsec + Borrow(a, b) * Second)
(* operator-=(double): a second is borrowed for any part of one.            *)
MinusDouble(a, d) ==
  Normalize(IF d.ns = 0 THEN Raw(a.sec - d.fs, a.nsec)
            ELSE Raw(a.sec - d.fs - 1, Second + a.nsec - d.ns))

Greater(a, b) == a.sec > b.sec \/ (a.sec = b.sec /\ a.nsec > b.nsec)
Less(a, b) == a.sec < b.sec \/ (a.sec = b.sec /\ a.nsec < b.nsec)
Equal(a, b) == a.sec = b.sec /\ a.nsec = b.nsec

ToTimeval(a) == [sec |-> a.sec, usec |-> a.nsec \div Micro]
FromTimeval(v) == [sec |-> v.sec, nsec |-> v.usec * Micro]

(***************************************************************************)
(* The client: two times, the result of an operation takes the first's     *)
(* place.                                                                  *)
(***************************************************************************)
Init == /\ t = [a |-> [sec |-> 0, nsec |-> 0], b |-> [sec |-> 0, nsec |-> 0]]
        /\ call = [op |-> "none"]

Do(op, x, y, result) ==
  /\ t' = [t EXCEPT !.a = result]
  /\ call' = [op |-> op, x |-> x, y |-> y]

(* utime_t(time_t, int) *)
Construct == \E s \in 0..(SecMod - 1), n \in 0..(2 * Second) :
  Do("construct", [sec |-> s, nsec |-> n], t.b, Normalize([sec |-> s, nsec |-> n]))
Exchange == t' = [a |-> t.b, b |-> t.a] /\ call' = [op |-> "none"]
Add == Do("add", t.a, t.b, Plus(t.a, t.b))
AddDouble == \E d \in Doubles : Do("add", t.a, [sec |-> d.fs, nsec |-> d.ns], PlusDouble(t.a, d))
Subtract == Do("subtract", t.a, t.b, Minus(t.a, t.b))
SubtractEq == Do("subtract", t.a, t.b, MinusEq(t.a, t.b))
SubtractDouble == \E d \in Doubles :
  Do("subtract double", t.a, [sec |-> d.fs, nsec |-> d.ns], MinusDouble(t.a, d))
(* copy_to_timeval() and set_from_timeval() *)
ThroughTimeval == Do("timeval", t.a, t.b, FromTimeval(ToTimeval(t.a)))

Next == Construct \/ Exchange \/ Add \/ AddDouble \/ Subtract \/ SubtractEq \/ SubtractDouble
        \/ ThroughTimeval

Spec == Init /\ [][Next]_vars

(***************************************************************************)
(* The times that operators leave have at most a whole second of           *)
(* nanoseconds (normalize() leaves exactly one alone), and < and > say     *)
(* what is earlier whenever none of the two times holds one.               *)
(***************************************************************************)
Proper(a) == a.nsec < Second
Ordered ==
  /\ t.a.nsec <= Second
  /\ Proper(t.a) /\ Proper(t.b) =>
       /\ Less(t.a, t.b) <=> Nanos(t.a) < Nanos(t.b)
       /\ Greater(t.a, t.b) <=> Nanos(t.a) > Nanos(t.b)
       /\ Equal(t.a, t.b) <=> Nanos(t.a) = Nanos(t.b)

(***************************************************************************)
(* Times stay ordered, and the operators add and subtract the times they   *)
(* are given.  A sum only differs if the seconds are capped.  A difference *)
(* of a time that is not later is exact if neither holds a whole second of *)
(* nanoseconds, except that operator-=(double) borrows a second it may not *)
(* need: with no whole second left the seconds wrap, and what is left of   *)
(* 0.9s - 0.1s is 2^32 - 1 seconds.  A struct timeval keeps all but the    *)
(* part of a microsecond.                                                  *)
(***************************************************************************)
NoLater(y, x) == Proper(x) /\ Proper(y) /\ Nanos(y) <= Nanos(x)
LastSecondBorrowed(x, y) == x.sec = y.sec /\ 0 < y.nsec /\ y.nsec <= x.nsec
Arithmetic == [][ Ordered' /\
  LET x == call'.x
      y == call'.y
      r == t'.a
  IN  /\ (call'.op = "construct" /\ Nanos(x) < SecMod * Second) => Nanos(r) = Nanos(x)
      /\ (call'.op = "add" /\ Nanos(x) + Nanos(y) < SecMod * Second) => Nanos(r) = Nanos(x) + Nanos(y)
      /\ call'.op = "add" => r.sec >= x.sec /\ r.sec >= y.sec
      /\ (call'.op = "subtract" /\ NoLater(y, x)) => Nanos(r) = Nanos(x) - Nanos(y)
      /\ (call'.op = "subtract double" /\ NoLater(y, x)) =>
           IF LastSecondBorrowed(x, y)
             THEN r.sec = SecMod - 1
             ELSE Nanos(r) = Nanos(x) - Nanos(y)
      /\ call'.op = "timeval" => Nanos(r) = Nanos(WholeMicros(x)) ]_vars
=============================================================================
