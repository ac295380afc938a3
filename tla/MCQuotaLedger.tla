--------------------------- MODULE MCQuotaLedger ---------------------------
(* Instances of QuotaLedger for TLC: a clock of a few instants, two per UTC *)
(* hour, and a month that ends after a given number of hours.              *)
EXTENDS QuotaLedger

CONSTANTS c1, c2, c3, s1, LastTick, HoursPerPeriod

MCTicks == 0..LastTick
MCHourOf == [t \in MCTicks |-> t \div TicksPerHour]
MCPeriodOf == [t \in MCTicks |-> t \div (TicksPerHour * HoursPerPeriod)]
MCHours == {MCHourOf[t] : t \in MCTicks}
MCPeriods == {MCPeriodOf[t] : t \in MCTicks}

None == {}
One == {c1}
Two == {c1, c2}
Three == {c1, c2, c3}
Last == {c3}
NoQuota == {Null}
=============================================================================
