----------------------------- MODULE LinkWatcher -----------------------------
(***************************************************************************)
(* LinkWatcherImpl (bin/acquirers/story_info/link_watcher_impl.cc).        *)
(*                                                                         *)
(* The watcher publishes a story link's content into the context engine    *)
(* under the link's node.  Each Notify of a new JSON value publishes       *)
(* either the value as one entity (single_entity_node_writer_), or one     *)
(* entity per member that holds an entity (entity_node_writers_), and,     *)
(* when the value names an "@context" topic, the value under that topic    *)
(* (topic_node_writers_).  A context value lives as long as its writer:    *)
(* resetting or erasing a writer removes the value, so the writers held    *)
(* are what the engine shows.  A connection error on the watcher binding   *)
(* makes the owner drop the link, destroying this object and its writers.  *)
(*                                                                         *)
(* A JSON value is abstracted to its shape: whether it is an object,       *)
(* whether it is itself an entity, which members hold entities, and the    *)
(* topic of a well-formed "@context" member (NONE when there is none, or   *)
(* it is not an object, or it does not read as a Context).  A published    *)
(* context value is the number of the Notify that wrote it and the part of *)
(* that JSON value it holds.                                               *)
(***************************************************************************)
EXTENDS Naturals, Sequences, Functions, TLC

CONSTANTS
  LinkKeys,   \* member names of a link value
  Topics,     \* topics a link value's "@context" can name
  NONE,       \* no writer / no topic
  MaxNotify   \* bound on Notify calls

ASSUME NONE \notin Topics \cup LinkKeys
ASSUME MaxNotify \in Nat

(* The link values Notify can bring, by shape.                             *)
LinkValues ==
  {[object |-> FALSE, entity |-> FALSE, keys |-> {}, topic |-> NONE]}
  \cup {[object |-> TRUE, entity |-> TRUE, keys |-> {}, topic |-> t] :
          t \in Topics \cup {NONE}}
  \cup {[object |-> TRUE, entity |-> FALSE, keys |-> ks, topic |-> t] :
          ks \in SUBSET LinkKeys, t \in Topics \cup {NONE}}

(* MakeLinkTopic: the entity topic of a context link's value, "link/"      *)
(* followed by the topic its "@context" names.                             *)
MakeLinkTopic(t) == <<"link/", t>>

(* What a writer Sets: the whole value or one member, with no metadata,    *)
(* or the context JSON of the m-th Notify, under the entity topic of t.    *)
Content(m, part) == [n |-> m, part |-> part, topic |-> NONE]

ContextContent(m, t) == [n |-> m, part |-> "context", topic |-> MakeLinkTopic(t)]

VARIABLES
  alive,           \* the LinkWatcherImpl exists (DropLink not yet run)
  notified,        \* the values Notify was called with, in order
  single,          \* single_entity_node_writer_: its content, or NONE
  entityWriters,   \* entity_node_writers_: member name -> its content
  topicWriters     \* topic_node_writers_: topic -> its content

vars == <<alive, notified, single, entityWriters, topicWriters>>

-----------------------------------------------------------------------------
(* The constructor: the link node is created and watched; no entity yet.   *)
Init ==
  /\ alive = TRUE
  /\ notified = <<>>
  /\ single = NONE
  /\ entityWriters = [k \in {} |-> NONE]
  /\ topicWriters = [t \in {} |-> NONE]

(* Mutation of ProcessNewValue: entity_node_writers_ kept when the value   *)
(* is a single entity.                                                      *)
ProcessNewValueNoClear(v, m) ==
  IF ~v.object THEN UNCHANGED <<single, entityWriters>>
  ELSE IF v.entity
    THEN /\ single' = Content(m, "whole")
         /\ UNCHANGED entityWriters
    ELSE /\ single' = NONE
         /\ entityWriters' = [k \in v.keys |-> Content(m, k)]

(* ProcessNewValue, for the m-th Notify: a non-object is ignored; a single *)
(* entity clears the per-member writers and Sets the single writer (made   *)
(* if unbound); otherwise the single writer is reset, each member holding  *)
(* an entity gets its writer (found or made) Set to that member, and the   *)
(* writers of members that no longer hold one are erased.                  *)
ProcessNewValue(v, m) ==
  IF ~v.object THEN UNCHANGED <<single, entityWriters>>
  ELSE IF v.entity
    THEN /\ single' = Content(m, "whole")
         /\ entityWriters' = [k \in {} |-> NONE]
    ELSE /\ single' = NONE
         /\ entityWriters' = [k \in v.keys |-> Content(m, k)]

(* MaybeProcessContextLink: a non-object, a missing "@context", or one that *)
(* is not an object or does not read, returns; otherwise the value (with   *)
(* "@context" replaced by "@source") is Set on the topic's writer, made on *)
(* first use.  Topic writers are never removed.                            *)
MaybeProcessContextLink(v, m) ==
  IF ~v.object \/ v.topic = NONE THEN UNCHANGED topicWriters
  ELSE topicWriters' = (v.topic :> ContextContent(m, v.topic)) @@ topicWriters

(* Link.Notify from the watched link.                                      *)
Notify(v) ==
  /\ alive
  /\ Len(notified) < MaxNotify
  /\ notified' = Append(notified, v)
  /\ ProcessNewValue(v, Len(notified) + 1)
  /\ MaybeProcessContextLink(v, Len(notified) + 1)
  /\ UNCHANGED alive

(* The watcher binding's connection error: the owner drops the link and    *)
(* the LinkWatcherImpl, with every writer it holds, is destroyed.          *)
DropLink ==
  /\ alive
  /\ alive' = FALSE
  /\ single' = NONE
  /\ entityWriters' = [k \in {} |-> NONE]
  /\ topicWriters' = [t \in {} |-> NONE]
  /\ UNCHANGED notified

Next ==
  \/ \E v \in LinkValues : Notify(v)
  \/ DropLink

Spec == Init /\ [][Next]_vars

-----------------------------------------------------------------------------
(* What the context engine should show, from the link's value history.     *)

(* The index of the last object value notified, 0 if none.                *)
LastObject ==
  LET objs == {i \in 1 .. Len(notified) : notified[i].object}
  IN IF objs = {} THEN 0 ELSE CHOOSE i \in objs : \A j \in objs : j <= i

(* The entities the last object value holds.                               *)
ExpectedEntities ==
  IF LastObject = 0 THEN {}
  ELSE IF notified[LastObject].entity THEN {Content(LastObject, "whole")}
  ELSE {Content(LastObject, k) : k \in notified[LastObject].keys}

PublishedEntities ==
  (IF single = NONE THEN {} ELSE {single}) \cup Range(entityWriters)

-----------------------------------------------------------------------------
(* Properties                                                              *)

(* While the link is watched, the entity values published under the link  *)
(* are exactly the entities of the link's last object value, each member   *)
(* writer holding its own member, whatever sequence of single-entity,      *)
(* multi-entity and non-object values came before (ProcessNewValue's       *)
(* clear, reset and clean-up); once the link is dropped nothing is left.   *)
EntitiesMatchLink ==
  /\ alive => PublishedEntities = ExpectedEntities
  /\ \A k \in DOMAIN entityWriters : entityWriters[k].part = k
  /\ ~alive => PublishedEntities = {}

=============================================================================
