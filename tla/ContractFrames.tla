---------------------------- MODULE ContractFrames ----------------------------
(***************************************************************************)
(* SchenbergDataFrameModel.validate (schenberg/domain/base.py) in a process *)
(* that has imported the calendar: the contract rules of a schema class     *)
(* fill the derived columns of a frame, whose rules may read the holidays   *)
(* this process holds.                                                      *)
(*                                                                          *)
(* validate resolves the frame, and so does every wrapper to_schema has put *)
(* around the schema's own validate: one more each time pandera hands out a *)
(* schema it has cached.  The frame that leaves one pricing function enters *)
(* the next and is validated again.                                         *)
(***************************************************************************)
EXTENDS AnbimaCalendar, ContractRules

CONSTANTS Hierarchies,   \* the __mro__ of each schema class
          Frames,        \* the rows callers validate
          MaxValidations \* bound on the pricing functions a frame goes through

\* The columns a hierarchy anchors its dates at hold dates.
IsDated(hierarchy, frame) ==
  \A expr \in Expressions(hierarchy) :
    expr.anchor \in DOMAIN frame => frame[expr.anchor] \in Int \cup {Null}

ASSUME FramesAssumption ==
  /\ MaxValidations \in Nat /\ Null \notin Int
  /\ \A hierarchy \in Hierarchies :
       /\ IsHierarchy(hierarchy)
       /\ \A expr \in Expressions(hierarchy) : IsDateRule(expr)
       /\ \A frame \in Frames : IsDated(hierarchy, frame)

VARIABLES mro,    \* the schema class
          given,  \* the row as the caller built it
          row,    \* the row now
          todo,   \* the rules still to apply in this validation
          wraps,  \* the wrappers around the schema's validate
          validations,
          pricer, \* the process that validates, Null before
          status  \* "idle", "built", "resolving", "validated" or "raised"

frameVars == <<mro, given, row, todo, wraps, validations, pricer, status>>
vars == <<calendarVars, frameVars>>

NoRow == [c \in {} |-> Null]

FrameInit ==
  /\ mro = <<>> /\ given = NoRow /\ row = NoRow /\ todo = <<>>
  /\ wraps = 0 /\ validations = 0
  /\ pricer = Null /\ status = "idle"

Init == CalendarInit /\ FrameInit

\* A frame is built for a schema class, in a process that has imported it.
Build(p, hierarchy, frame) ==
  /\ status = "idle" /\ pc[p] = "ready"
  /\ mro' = hierarchy /\ given' = frame /\ row' = frame /\ pricer' = p
  /\ status' = "built"
  /\ UNCHANGED <<calendarVars, todo, wraps, validations>>

Repeated(rules, n) == FlattenSeq([i \in 1..n |-> rules])

\* super().to_schema() is external: it caches schemas, by thread.
ToSchema == wraps' \in {1, wraps + 1}

\* cls.resolve, then the validate of the schema with all its wrappers.
Validate ==
  /\ status \in {"built", "validated"} /\ validations < MaxValidations
  /\ ~Ambiguous(mro)
  /\ ToSchema
  /\ todo' = Repeated(CollectRulesFromMro(mro), 1 + wraps')
  /\ validations' = validations + 1
  /\ status' = "resolving"
  /\ UNCHANGED <<calendarVars, mro, given, row, pricer>>

ValidateRaises ==
  /\ status = "built" /\ Ambiguous(mro)
  /\ status' = "raised"
  /\ UNCHANGED <<calendarVars, mro, given, row, todo, wraps, validations, pricer>>

ApplyRule ==
  /\ status = "resolving" /\ todo # <<>>
  /\ ReadBy(Head(todo)) \subseteq DOMAIN row
  /\ row' = Apply(Head(todo), row, holidays[pricer])
  /\ todo' = Tail(todo)
  /\ UNCHANGED <<calendarVars, mro, given, wraps, validations, pricer, status>>

\* A column is missing, or pandera's own checks fail.
Rejected ==
  /\ status = "resolving"
  /\ todo # <<>> => ~(ReadBy(Head(todo)) \subseteq DOMAIN row)
  /\ status' = "raised"
  /\ UNCHANGED <<calendarVars, mro, given, row, todo, wraps, validations, pricer>>

Accepted ==
  /\ status = "resolving" /\ todo = <<>>
  /\ status' = "validated"
  /\ UNCHANGED <<calendarVars, mro, given, row, todo, wraps, validations, pricer>>

\* What other processes do to the file after the frame is built no longer
\* matters to it, and is left out.
Next ==
  \/ /\ status = "idle"
     /\ \E p \in Process : CalendarStep(p)
     /\ UNCHANGED frameVars
  \/ \E p \in Process, hierarchy \in Hierarchies, frame \in Frames : Build(p, hierarchy, frame)
  \/ Validate \/ ValidateRaises \/ ApplyRule \/ Rejected \/ Accepted

FrameSpec == Init /\ [][Next]_vars

-----------------------------------------------------------------------------
\* Properties.

Outputs == {r.output : r \in ToSet(Compiled(mro))}

\* No decorated rule reads what it or a later one writes, nor what an explicit
\* rule writes, and an explicit rule for one of their columns names the same
\* selector.
Tidy ==
  /\ Orderly(Compiled(mro))
  /\ \A i \in DOMAIN mro : \A r \in ToSet(mro[i].rules) :
       /\ \A c \in ToSet(Compiled(mro)) : r.output \notin ReadBy(c)
       /\ r.output \in Outputs => KeyOf(r) \in {KeyOf(c) : c \in ToSet(Compiled(mro))}

Filled(output) == ~(output \in DOMAIN given /\ given[output] # Null)

\* The expression that decides output in the row, if any, by the classes.
Deciding(output) ==
  LET rule == CHOOSE r \in ToSet(Compiled(mro)) : r.output = output
  IN  MostSpecific(mro, output,
                   IF rule.selector \in DOMAIN row THEN row[rule.selector] ELSE Null)

\* A validated row has, in every derived column it came without, what the most
\* specific class of the hierarchy says for its selector, and else the most
\* specific default, of the row's own columns: through any number of
\* validations, wrappers and explicit rules beside.
MostSpecificWins ==
  status = "validated" /\ Tidy =>
    \A output \in Outputs :
      row[output] =
        IF ~Filled(output) THEN given[output]
        ELSE IF Deciding(output) = {} THEN Null
        ELSE LET expr == CHOOSE e \in Deciding(output) : TRUE
             IN  Derived(expr, row[expr.anchor], holidays[pricer])

\* A value once there, given or derived, is never replaced, by any rules in
\* any order, nor does a column get lost.
NonNullKept ==
  [][\A c \in DOMAIN row :
       /\ c \in DOMAIN row'
       /\ row[c] # Null => row'[c] = row[c]]_vars

\* A derived date is the one its rule documents, by the whole calendar, even
\* when this process has loaded part of it, up to the last holiday it holds.
RightBeforeHorizon ==
  status = "validated" /\ Tidy =>
    \A output \in Outputs : Filled(output) /\ row[output] # Null =>
      \A expr \in Deciding(output) :
        \/ /\ expr.fn = "nth_business_day_of_following_month"
           /\ \A d \in holidays[pricer] : d < row[output]
        \/ row[output] = Documented(expr, row[expr.anchor], GenerateHolidays)
=============================================================================
