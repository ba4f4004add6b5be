---------------------------- MODULE EventContracts ---------------------------
(***************************************************************************)
(* What the Pi firmware and the cloud agree on about an event clip: its    *)
(* id, the two MQTT messages about it and the life cycle of its row in the *)
(* cloud's `events` table.                                                 *)
(***************************************************************************)

CONSTANT Event   \* event ids: uuid4 values the device draws, one per clip

Kind    == {"announce", "done"}   \* dev/{id}/event/announce, dev/{id}/event/done
Message == Kind \X Event

Status == {"announced", "upload_intent_created", "uploaded", "available", "failed"}

(* EVENT_STATE_TRANSITIONS: the forward transitions the cloud may write. *)
Successors ==
    [announced             |-> {"upload_intent_created", "failed"},
     upload_intent_created |-> {"uploaded", "failed", "upload_intent_created"},
     uploaded              |-> {"available", "failed"},
     available             |-> {},
     failed                |-> {"upload_intent_created"}]

(* is_valid_event_transition: staying put is always accepted. *)
IsValidTransition(src, dst) == src = dst \/ dst \in Successors[src]

Idle == [at |-> "idle"]   \* a task or a request slot with nothing in progress
=============================================================================
