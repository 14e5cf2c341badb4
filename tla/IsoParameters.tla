---------------------------- MODULE IsoParameters ----------------------------
(***************************************************************************)
(* The numbers of a connected isochronous group: the checks of             *)
(* LE_Set_CIG_Parameters, the ISO interval derived from the SDU intervals, *)
(* the parameters of a CIS created in the group and the transport latency  *)
(* reported for it.                                                        *)
(*                                                                         *)
(* One CIS, both directions.  Times are in microseconds.  u32 arithmetic   *)
(* that overflows panics in a build with overflow checks and wraps in one  *)
(* without.                                                                *)
(***************************************************************************)
EXTENDS Integers, FiniteSets, FiniteSetsExt

CONSTANTS
  Slot,                   \* 1250
  MaxSlots,               \* u16::MAX
  MinSduInterval, MaxSduInterval,   \* 0xff, 0xfffff
  MinLatency, MaxLatency, \* 5000, 4000000
  Intervals, Latencies, Sdus, Framings   \* the inputs that are tried

MaxPdu == 251
Dirs == {"c_to_p", "p_to_c"}

Inputs == [sdu_interval : [Dirs -> Intervals], latency : [Dirs -> Latencies],
           max_sdu : [Dirs -> Sdus], framed : Framings]

VARIABLES
  input,   \* the parameters of the command
  result   \* status "none" before the command, then what became of it

vars == <<input, result>>

Max2(a, b) == IF a < b THEN b ELSE a
DivCeil(a, b) == (a + b - 1) \div b

RECURSIVE Gcd(_, _)
Gcd(a, b) == IF b = 0 THEN a ELSE Gcd(b, a % b)

-----------------------------------------------------------------------------
(* A u32 as its two halves, since TLC has no integers of 32 bits; over is  *)
(* set once a sum or a product has overflowed.                             *)

Half == 65536
Word(n) == [hi |-> n \div Half, lo |-> n % Half, over |-> FALSE]

Add(x, y) ==
  LET lo == x.lo + y.lo
      hi == x.hi + y.hi + lo \div Half
  IN [hi |-> hi % Half, lo |-> lo % Half, over |-> x.over \/ y.over \/ hi >= Half]
Sub(x, y) ==
  LET lo == x.lo - y.lo
      hi == x.hi - y.hi + lo \div Half
  IN [hi |-> hi % Half, lo |-> lo % Half, over |-> x.over \/ y.over \/ hi < 0]

\* n * x, for n < 2^15 and for n < 2^25.
TimesSmall(n, x) ==
  LET lo == n * x.lo
      hi == n * x.hi + lo \div Half
  IN [hi |-> hi % Half, lo |-> lo % Half, over |-> x.over \/ hi >= Half]
Times(n, x) ==
  Add(TimesSmall(1024, TimesSmall(n \div 1024, x)), TimesSmall(n % 1024, x))

\* For d < 2^15, or x < 2^31.
Rest(x, d) == (x.hi % d) * Half + x.lo
Quotient(x, d) == [hi |-> x.hi \div d, lo |-> Rest(x, d) \div d, over |-> x.over]
AtMost(x, n) ==
  LET w == Word(n) IN x.hi < w.hi \/ (x.hi = w.hi /\ x.lo <= w.lo)

\* num_integer::lcm on u32.
Lcm(a, x) == Times(a, Quotient(x, Gcd(a, Rest(x, a) % a)))

-----------------------------------------------------------------------------
(* The parameters of a CIG.                                                *)

Outcome(status) == [status |-> status]
Slots(n) == [status |-> "ok", slots |-> n]

\* The ISO interval of unframed PDUs, when a direction is in use.
IsoInterval(in) ==
  LET c == in.sdu_interval["c_to_p"]
      p == in.sdu_interval["p_to_c"]
  IN Lcm(Slot, CASE c = 0 -> Word(p) [] p = 0 -> Word(c) [] OTHER -> Lcm(c, Word(p)))

\* iso_interval: "rejected" for None, "panic", or "ok" and the interval in slots.
iso_interval(in, checked) ==
  LET c == in.sdu_interval["c_to_p"]
      p == in.sdu_interval["p_to_c"]
      iso == IsoInterval(in)
      twice == Add(iso, iso)
      min_latency(sdu) == Sub(twice, Word(sdu))
  IN
  CASE in.framed -> Slots(DivCeil(Max2(c, p), Slot))
    [] ~in.framed /\ c = 0 /\ p = 0 -> Outcome("panic")
    [] ~in.framed /\ ~(c = 0 /\ p = 0) /\ twice.over /\ checked -> Outcome("panic")
    [] OTHER ->
         IF /\ AtMost(Quotient(iso, Slot), MaxSlots)
            /\ \A d \in Dirs : in.sdu_interval[d] = 0 \/ AtMost(min_latency(in.sdu_interval[d]), in.latency[d])
         THEN Slots(Quotient(iso, Slot).lo)
         ELSE Outcome("rejected")

\* The range checks of hci_le_set_cig_parameters.
InRange(in) ==
  \A d \in Dirs : in.max_sdu[d] # 0 =>
    /\ in.sdu_interval[d] \in MinSduInterval .. MaxSduInterval
    /\ in.latency[d] \in MinLatency .. MaxLatency

Bn_Floor(max_sdu) == max_sdu \div MaxPdu

Bn(max_sdu) == DivCeil(max_sdu, MaxPdu)

\* CisParameters::new with the defaults of hci_le_set_cig_parameters.
CisParameters(in, iso) ==
  LET bn == [d \in Dirs |-> Bn(in.max_sdu[d])]
      nse == Max2(bn["c_to_p"], bn["p_to_c"])
  IN IF nse = 0 THEN Outcome("panic")
     ELSE [status |-> "ok", iso_interval |-> iso, bn |-> bn, nse |-> nse,
           sub_interval |-> (iso * Slot) \div nse,
           cig_sync_delay |-> iso * Slot, ft |-> 1]

\* transport_latency.
transport_latency(parameters, sdu_interval, framed) ==
  LET delay == Word(parameters.cig_sync_delay + parameters.ft * parameters.iso_interval * Slot)
  IN IF framed THEN Add(delay, Word(sdu_interval)) ELSE Sub(delay, Word(sdu_interval))

Init == input \in Inputs /\ result = Outcome("none")

\* LE_Set_CIG_Parameters, then LE_Create_CIS for the CIS, in a build with or
\* without overflow checks.
SetCigParameters ==
  /\ result = Outcome("none")
  /\ \E checked \in BOOLEAN : LET iso == iso_interval(input, checked) IN
     result' = CASE ~InRange(input) -> Outcome("rejected")
                 [] InRange(input) /\ iso.status # "ok" -> iso
                 [] OTHER -> CisParameters(input, iso.slots)
  /\ UNCHANGED input

Next == SetCigParameters

Spec == Init /\ [][Next]_vars

-----------------------------------------------------------------------------

Created == result.status = "ok"

\* The ISO intervals, in slots, that suit unframed PDUs: a multiple of every SDU
\* interval in use that keeps the latency within what the host asked for.
Suitable(in) ==
  {n \in 1 .. (MaxLatency \div Slot) :
     \A d \in Dirs : in.sdu_interval[d] # 0 =>
       /\ (n * Slot) % in.sdu_interval[d] = 0
       /\ 2 * n * Slot - in.sdu_interval[d] <= in.latency[d]}

\* iso_interval returns the least interval that suits unframed PDUs, and nothing
\* only when none does.
IntervalIsLeast ==
  (InRange(input) /\ ~input.framed /\ result.status \notin {"none", "panic"}) =>
    IF Suitable(input) = {} THEN result.status = "rejected"
    ELSE Created /\ result.iso_interval = Min(Suitable(input))

\* The reported transport latency of unframed PDUs is within what the host asked for.
LatencyKept ==
  (Created /\ ~input.framed) => \A d \in Dirs : input.sdu_interval[d] # 0 =>
    AtMost(transport_latency(result, input.sdu_interval[d], input.framed), input.latency[d])

\* The least common multiple of the SDU intervals and the slot fits in 32 bits.
\* Where it does not, no interval suits and iso_interval may return a wrong one.
LcmFits(in) == in.sdu_interval # [d \in Dirs |-> 0] => ~IsoInterval(in).over

\* For unframed PDUs iso_interval returns the least interval that suits, and nothing
\* only when none does, and the transport latency that LE CIS Established reports is
\* within Max_Transport_Latency, for SDU intervals whose least common multiple with
\* the slot fits in 32 bits (twice of it need not).  A CIS with an SDU to send panics
\* only when no interval suits.  The parameters of CisParameters::new deliver what
\* was asked for: the bursts carry a whole SDU in each direction, in subevents that
\* fit in the ISO interval.
ParametersDeliver ==
  /\ LcmFits(input) => IntervalIsLeast /\ LatencyKept
  /\ (result.status = "panic" /\ input.max_sdu # [d \in Dirs |-> 0]) => Suitable(input) = {}
  /\ Created =>
    /\ \A d \in Dirs :
         result.bn[d] * MaxPdu >= input.max_sdu[d] /\ result.bn[d] <= result.nse
    /\ result.nse * result.sub_interval <= result.iso_interval * Slot
==============================================================================
