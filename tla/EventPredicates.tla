---------------------------- MODULE EventPredicates ----------------------------
(***************************************************************************)
(* The event filters of utils/predicates (predicates.go).  A predicate is *)
(* a controller-runtime predicate.Funcs: four handler fields, one per     *)
(* event type, any of which may be nil.  An object is abstracted to what  *)
(* the filters read: whether it carries the paused annotation and the     *)
(* value of its watch label ("" when the label is absent, as a Go map     *)
(* lookup gives).  Logging is left out.  The module is pure: its results  *)
(* are proved for every label value and every event.                      *)
(***************************************************************************)
EXTENDS Naturals, Sequences, TLAPS

EventTypes == {"create", "update", "delete", "generic"}

Objects == [paused : BOOLEAN, watchLabel : STRING]

\* An event as a handler sees it: object is e.Object, or e.ObjectNew for an
\* update; objectOld is e.ObjectOld, which no handler of this file reads.
Events == [object : Objects, objectOld : Objects]

\* A predicate.Funcs: the event types whose handler field is set, and the
\* handlers.
Funcs == [set : SUBSET EventTypes, fn : [EventTypes -> [Events -> BOOLEAN]]]

\* cluster-api annotations.HasPaused and labels.HasWatchLabel (utils).
HasPaused(obj) == obj.paused
HasWatchLabel(obj, labelValue) == obj.watchLabel = labelValue

processIfNotPaused(obj) == ~HasPaused(obj)

\* An empty labelValue returns early: every object matches.
processIfLabelMatch(obj, labelValue) ==
    labelValue = "" \/ HasWatchLabel(obj, labelValue)

\* Both filters set all four handlers, each reading the event's object.
ResourceNotPaused ==
    [set |-> EventTypes,
     fn  |-> [t \in EventTypes |-> [e \in Events |-> processIfNotPaused(e.object)]]]

ResourceHasFilterLabel(labelValue) ==
    [set |-> EventTypes,
     fn  |-> [t \in EventTypes |->
                [e \in Events |-> processIfLabelMatch(e.object, labelValue)]]]

\* The loop of All reaches predicate i: every earlier handler was set and
\* returned true.
Reaches(preds, t, e, i) ==
    \A j \in 1..(i - 1) : t \in preds[j].set /\ preds[j].fn[t][e]

\* What All's handler for event type t does on event e: return true when
\* every predicate's handler returns true, panic when the loop calls a nil
\* handler field, and otherwise return false at the first handler that
\* returns false.
AllOutcome(preds, t, e) ==
    IF \A i \in 1..Len(preds) : t \in preds[i].set /\ preds[i].fn[t][e]
    THEN "true"
    ELSE IF \E i \in 1..Len(preds) : Reaches(preds, t, e, i) /\ t \notin preds[i].set
         THEN "panic"
         ELSE "false"

All(preds) ==
    [t \in EventTypes |-> [e \in Events |-> AllOutcome(preds, t, e)]]

ResourceNotPausedAndHasFilterLabel(labelValue) ==
    All(<<ResourceNotPaused, ResourceHasFilterLabel(labelValue)>>)

-----------------------------------------------------------------------------
(* The two filters are predicate.Funcs with every handler set. *)
LEMMA FiltersAreFuncs ==
    ASSUME NEW labelValue \in STRING
    PROVE  /\ ResourceNotPaused \in Funcs
           /\ ResourceHasFilterLabel(labelValue) \in Funcs
BY DEF ResourceNotPaused, ResourceHasFilterLabel, Funcs, processIfNotPaused,
       processIfLabelMatch, HasPaused, HasWatchLabel, Objects, Events

(* The combined filter of ResourceNotPausedAndHasFilterLabel never panics, *)
(* and it lets an event through exactly when the object it carries (the    *)
(* new object of an update) has no paused annotation and, unless the      *)
(* label value is empty, the watch label with that value.  The old object *)
(* of an update is not consulted: an update that pauses an object, or     *)
(* takes its watch label away, is dropped, so a controller behind this    *)
(* filter is never told that the object left it.                          *)
THEOREM FilterPasses ==
    ASSUME NEW labelValue \in STRING, NEW t \in EventTypes, NEW e \in Events
    PROVE  ResourceNotPausedAndHasFilterLabel(labelValue)[t][e] =
             IF ~e.object.paused /\ (labelValue = "" \/ e.object.watchLabel = labelValue)
             THEN "true" ELSE "false"
<1> DEFINE preds == <<ResourceNotPaused, ResourceHasFilterLabel(labelValue)>>
<1>1. Len(preds) = 2 /\ preds[1] = ResourceNotPaused
      /\ preds[2] = ResourceHasFilterLabel(labelValue)
  OBVIOUS
<1>2. /\ t \in ResourceNotPaused.set
      /\ t \in ResourceHasFilterLabel(labelValue).set
      /\ ResourceNotPaused.fn[t][e] = ~e.object.paused
      /\ ResourceHasFilterLabel(labelValue).fn[t][e] =
           (labelValue = "" \/ e.object.watchLabel = labelValue)
  BY DEF ResourceNotPaused, ResourceHasFilterLabel, processIfNotPaused,
         processIfLabelMatch, HasPaused, HasWatchLabel
<1>3. 1..Len(preds) = {1, 2}
  BY <1>1
<1>4. \A i \in 1..Len(preds) : t \in preds[i].set
  BY <1>1, <1>2, <1>3
<1>5. ~\E i \in 1..Len(preds) : Reaches(preds, t, e, i) /\ t \notin preds[i].set
  BY <1>4
<1>6. e.object.paused \in BOOLEAN
  BY DEF Events, Objects
<1>7. (\A i \in 1..Len(preds) : t \in preds[i].set /\ preds[i].fn[t][e])
        <=> (preds[1].fn[t][e] /\ preds[2].fn[t][e])
  BY <1>3, <1>4
<1>8. (\A i \in 1..Len(preds) : t \in preds[i].set /\ preds[i].fn[t][e])
        <=> (~e.object.paused /\ (labelValue = "" \/ e.object.watchLabel = labelValue))
  BY <1>1, <1>2, <1>6, <1>7
<1>9. QED
  BY <1>5, <1>8 DEF ResourceNotPausedAndHasFilterLabel, All, AllOutcome

(* All over predicates that set every handler (as both filters of this    *)
(* file do) is their conjunction, in any order, and never panics.         *)
THEOREM AllIsConjunction ==
    ASSUME NEW preds \in Seq(Funcs), NEW t \in EventTypes, NEW e \in Events,
           \A i \in 1..Len(preds) : preds[i].set = EventTypes
    PROVE  All(preds)[t][e] =
             IF \A i \in 1..Len(preds) : preds[i].fn[t][e] THEN "true" ELSE "false"
BY DEF All, AllOutcome, Reaches

(* All calls each handler field without a nil check (p.UpdateFunc(e)), so  *)
(* a predicate.Funcs with an unset field that the loop reaches makes the   *)
(* controller panic on that event type, where controller-runtime itself    *)
(* treats an unset field as true.  The loop reaches predicate i when every *)
(* earlier one passes the event.                                           *)
THEOREM NilHandlerPanics ==
    ASSUME NEW preds \in Seq(Funcs), NEW t \in EventTypes, NEW e \in Events,
           NEW i \in 1..Len(preds), Reaches(preds, t, e, i), t \notin preds[i].set
    PROVE  All(preds)[t][e] = "panic"
BY DEF All, AllOutcome
=============================================================================
