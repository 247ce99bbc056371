------------------------------- MODULE Battery -------------------------------
(***************************************************************************)
(* One reading of the batteries (battery.rs): read_battery_info walks the  *)
(* entries of /sys/class/power_supply, takes from each battery the best    *)
(* sample it offers, and aggregates the samples into the percentage and    *)
(* the charging mark of the title bar.  The monitor that runs the readings *)
(* is in Screen.                                                           *)
(*                                                                         *)
(* A supply is a record of what its files say.  A number is None where the *)
(* file is missing or does not parse.                                      *)
(***************************************************************************)
EXTENDS Naturals, Sequences, SequencesExt

CONSTANTS
  Supplies,   \* the power supplies a machine may have
  Slots,      \* how many entries the directory has at most
  None        \* no number, no sample, no reading

VARIABLES
  entries,    \* the entries of the directory, sorted by name
  position,   \* the entry that the loop reads next
  samples,    \* the samples taken so far
  charging,   \* some battery with a sample is charging
  info        \* the reading, None until the loop is over and if there is none

vars == <<entries, position, samples, charging, info>>

-----------------------------------------------------------------------------
(* Arithmetic                                                              *)

AtMost(bound, n) == IF n > bound THEN bound ELSE n

Percentage(current, full) ==
  IF full = 0 THEN 0 ELSE AtMost(100, (current * 100) \div full)

Ratios == [current : Nat, full : Nat]
Samples == [unit : {"energy", "charge", "capacity"}, current : Nat, full : Nat]
Readings == [percentage : Nat, charging : BOOLEAN]

(* Mutation: a full value of zero is a sample. *)
RawRatioOfZero(current, full) ==
  IF current = None \/ full = None
  THEN None
  ELSE [current |-> current, full |-> full]

(* The pair of two readable files; a full value of zero means nothing. *)
RawRatio(current, full) ==
  IF current = None \/ full = None \/ full = 0
  THEN None
  ELSE [current |-> current, full |-> full]

Sample(unit, current, full) == [unit |-> unit, current |-> current, full |-> full]

(* Energy before charge before the kernel's own percentage. *)
BestSample(supply) ==
  LET energy == RawRatio(supply.energy_now, supply.energy_full)
      charge == RawRatio(supply.charge_now, supply.charge_full)
  IN CASE energy # None -> Sample("energy", energy.current, energy.full)
       [] energy = None /\ charge # None -> Sample("charge", charge.current, charge.full)
       [] energy = None /\ charge = None /\ supply.capacity # None ->
            Sample("capacity", AtMost(100, supply.capacity), 100)
       [] OTHER -> None

OwnPercentage(sample) ==
  IF sample.unit = "capacity" THEN sample.current
  ELSE Percentage(sample.current, sample.full)

Total(numbers) == FoldLeft(LAMBDA total, n : total + n, 0, numbers)

AllIn(unit, taken) == \A i \in DOMAIN taken : taken[i].unit = unit

Aggregate(taken) ==
  CASE taken = <<>> -> None
    [] taken # <<>> /\ (AllIn("energy", taken) \/ AllIn("charge", taken)) ->
         Percentage(Total([i \in DOMAIN taken |-> taken[i].current]),
                    Total([i \in DOMAIN taken |-> taken[i].full]))
    [] OTHER ->
         Total([i \in DOMAIN taken |-> OwnPercentage(taken[i])]) \div Len(taken)

-----------------------------------------------------------------------------
IsBattery(supply) == supply.named \/ supply.type = "Battery"

Init ==
  /\ entries \in UNION {[1..n -> Supplies] : n \in 0..Slots}
  /\ position = 1
  /\ samples = <<>>
  /\ charging = FALSE
  /\ info = None

SkipSupply ==
  /\ position <= Len(entries)
  /\ ~IsBattery(entries[position])
  /\ position' = position + 1
  /\ UNCHANGED <<entries, samples, charging, info>>

ReadSupply ==
  /\ position <= Len(entries)
  /\ IsBattery(entries[position])
  /\ LET supply == entries[position]
         sample == BestSample(supply)
     IN IF sample = None
        THEN UNCHANGED <<samples, charging>>
        ELSE /\ samples' = Append(samples, sample)
             /\ charging' = (charging \/ supply.status = "Charging")
  /\ position' = position + 1
  /\ UNCHANGED <<entries, info>>

Finish ==
  /\ position = Len(entries) + 1
  /\ LET percentage == Aggregate(samples)
     IN info' = IF percentage = None THEN None
                ELSE [percentage |-> percentage, charging |-> charging]
  /\ position' = position + 1
  /\ UNCHANGED <<entries, samples, charging>>

Next == SkipSupply \/ ReadSupply \/ Finish

Spec == Init /\ [][Next]_vars

-----------------------------------------------------------------------------
Done == position = Len(entries) + 2

(* What the machine really has: the batteries that say anything about     *)
(* their charge, told from the entries and not from the loop's samples.   *)
Measurable(supply) ==
  /\ supply.named \/ supply.type = "Battery"
  /\ \/ supply.energy_now # None /\ supply.energy_full \notin {None, 0}
     \/ supply.charge_now # None /\ supply.charge_full \notin {None, 0}
     \/ supply.capacity # None

Measured == {i \in DOMAIN entries : Measurable(entries[i])}

(* How full one battery is, from whichever of its files is usable: its     *)
(* bounds over every usable pair of files.                                 *)
FillsOf(supply) ==
  {Percentage(p[1], p[2]) : p \in {q \in {<<supply.energy_now, supply.energy_full>>,
                                          <<supply.charge_now, supply.charge_full>>,
                                          <<supply.capacity, 100>>} :
                                     q[1] # None /\ q[2] \notin {None, 0}}}

(* The reading exists exactly when some battery can be measured, whatever  *)
(* unreadable, empty or foreign supplies lie around it, and its percentage *)
(* lies between the emptiest and the fullest of those batteries: no mix of *)
(* units, no broken entry and no full capacity of zero pulls it outside.   *)
(* The charging mark is about the same batteries: a supply that is left    *)
(* out of the percentage does not set it, and one battery that charges is  *)
(* enough (read_battery_info, aggregate_percentage).                       *)
ReadingIsOfMeasured ==
  Done =>
    /\ (info = None) = (Measured = {})
    /\ info # None =>
         /\ \E i \in Measured : \E fill \in FillsOf(entries[i]) : fill <= info.percentage
         /\ \E i \in Measured : \E fill \in FillsOf(entries[i]) : fill >= info.percentage
         /\ info.charging = \E i \in Measured : entries[i].status = "Charging"
=============================================================================
