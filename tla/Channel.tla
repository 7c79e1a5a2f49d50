------------------------------- MODULE Channel -------------------------------
(***************************************************************************)
(* The bounded channels of futures::channel::mpsc, as scan/mod.rs and      *)
(* delete_file_index.rs use them: a send puts its message into the queue   *)
(* and, when that leaves more than `buffer' messages there, parks the      *)
(* sender until the receiver has taken a message for it.                   *)
(***************************************************************************)
EXTENDS Integers, Sequences

NewChannel(buffer) ==
    [queue |-> << >>, parked |-> << >>, buffer |-> buffer, open |-> TRUE]

\* Mutant: senders never wait.
PutUnbounded(ch, sender, message) == [ch EXCEPT !.queue = Append(@, message)]

Put(ch, sender, message) ==
    [ch EXCEPT !.queue = Append(@, message),
               !.parked = IF Len(ch.queue) >= ch.buffer THEN Append(@, sender) ELSE @]

(* The receiver takes the first message and unparks the first sender. *)
Take(ch) ==
    [ch EXCEPT !.queue = Tail(@), !.parked = IF @ = << >> THEN @ ELSE Tail(@)]

(* The receiver is dropped: parked senders are woken, later sends fail. *)
Close(ch) == [ch EXCEPT !.queue = << >>, !.parked = << >>, !.open = FALSE]

(* The flush of a send ends once the sender is no longer parked. *)
Flushed(ch, sender) == \A i \in DOMAIN ch.parked : ch.parked[i] # sender
=============================================================================
