------------------------------- MODULE Structure -------------------------------
(***************************************************************************)
(* Structured products (schenberg/structure): legs joined to the values of   *)
(* the instruments they name, and one strict sum for each structure.         *)
(***************************************************************************)
EXTENDS Fold

StructureLeg ==
  {"structure_id", "leg_id", "instrument_type", "instrument_id", "quantity", "weight"}
InstrumentValue == {"instrument_type", "instrument_id", "value", "currency"}
InstrumentKey == {"instrument_type", "instrument_id"}

SameName(keys) == {[left |-> k, right |-> k] : k \in keys}

\* structure_stage: only the columns of InstrumentValue are joined.
StructureStage(legs, values) ==
  LET joined == LeftJoin(legs, Select(values, InstrumentValue), SameName(InstrumentKey))
      LegValue(c) == Term("*", <<c["quantity"], c["weight"], c["value"]>>)
  IN  IF joined = Raised THEN Raised
      ELSE MapCells(joined, joined.columns \cup {"leg_value"},
             LAMBDA c : [x \in DOMAIN c \cup {"leg_value"} |->
                           IF x = "leg_value" THEN LegValue(c) ELSE c[x]])

\* Mutant: a plain sum.
PlainSumFold ==
  FoldReturns(FoldBy(NewFold, {"structure_id"}), {"structure_id", "value"},
              [c \in {"value"} |-> Agg("sum", "leg_value")])

structure_value_fold ==
  FoldReturns(FoldBy(NewFold, {"structure_id"}), {"structure_id", "value"},
              [c \in {"value"} |-> Agg("strict_sum", "leg_value")])

StructureValue(legs, values) ==
  Compute(structure_value_fold, StructureStage(legs, values))
===============================================================================
