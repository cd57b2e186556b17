------------------------------- MODULE Prices -------------------------------
(***************************************************************************)
(* google.type.Money and the decimals of orders.  Decimals are exact; they *)
(* are counted in nanos.                                                   *)
(***************************************************************************)
EXTENDS Integers

CONSTANTS
  UnitLimit,     \* 2^63: Money.units is an int64
  NanoLimit,     \* 2^31: Money.nanos is an int32
  NanosPerUnit   \* 1_000_000_000

ASSUME WidthsAssumption ==
  /\ UnitLimit \in Nat /\ NanoLimit \in 1..UnitLimit
  /\ NanosPerUnit \in 1..NanoLimit

Values(limit) == -limit..(limit - 1)

Money == [currency_code : {"USD", "EUR"}, units : Values(UnitLimit), nanos : Values(NanoLimit)]

currency == "USD"

(* The conversion of Go to an integer of a width: the low bits.            *)
Low(x, limit) == ((x + limit) % (2 * limit)) - limit

(* IntPart: towards zero.                                                  *)
Whole(d) == IF d >= 0 THEN d \div NanosPerUnit ELSE -((-d) \div NanosPerUnit)

(* What a Money says; its currency is not looked at.                       *)
Amount(m) == m.units * NanosPerUnit + m.nanos

(* A bug in DecToMoney: the nanos are not reduced by the units.            *)
DecToMoneyMutant(d) ==
  [currency_code |-> currency, units |-> Low(Whole(d), UnitLimit), nanos |-> Low(d, NanoLimit)]

DecToMoney(d) ==
  LET units == Low(Whole(d), UnitLimit)
      frac == d - units * NanosPerUnit
  IN  [currency_code |-> currency, units |-> units, nanos |-> Low(frac, NanoLimit)]

(* money.proto: nanos are less than a unit, and of its sign.               *)
WellFormed(m) ==
  /\ m.nanos \in -(NanosPerUnit - 1)..(NanosPerUnit - 1)
  /\ m.units > 0 => m.nanos >= 0
  /\ m.units < 0 => m.nanos <= 0

Fits(d) == Whole(d) \in Values(UnitLimit)
=============================================================================
