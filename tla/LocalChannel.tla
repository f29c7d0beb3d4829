----------------------------- MODULE LocalChannel -----------------------------
(***************************************************************************)
(* fusion-sys/channel: the state that LocalChannel keeps under its mutex,  *)
(* a ring of messages with one producer and several consumers that take    *)
(* messages from one another.  Attachments are numbered from 1.  Callers   *)
(* only try_lock the mutex; what they do when that fails is theirs.        *)
(***************************************************************************)
EXTENDS Integers, Sequences, FiniteSets

None == [empty |-> TRUE]

\* LocalChannelState::new.
NewChannel(capacity, law) ==
    [buffer |-> [i \in 0 .. capacity - 1 |-> None], head |-> 0, tail |-> 0, len |-> 0,
     attachment_law |-> law, next_attachment |-> 1, producer |-> 0, consumers |-> {}]

Capacity(c) == Cardinality(DOMAIN c.buffer)

CanAttachProducer(c) == c.producer = 0
ProducerAttached(c) ==
    [c EXCEPT !.producer = c.next_attachment, !.next_attachment = @ + 1]
ProducerDetached(c) == [c EXCEPT !.producer = 0]

\* The law ExclusiveSpsc admits one consumer, the others fill the slots there are.
CanAttachConsumer(c, slots) ==
    Cardinality(c.consumers) < (IF c.attachment_law = "ExclusiveSpsc" THEN 1 ELSE slots)
ConsumerAttached(c) ==
    [c EXCEPT !.consumers = @ \cup {c.next_attachment}, !.next_attachment = @ + 1]
ConsumerDetached(c, token) == [c EXCEPT !.consumers = @ \ {token}]

\* try_send: RejectWhenFull.
Full(c) == c.len = Capacity(c)

Sent(c, m) ==
    [c EXCEPT !.buffer[c.tail] = m, !.tail = (@ + 1) % Capacity(c), !.len = @ + 1]

\* try_receive.
Oldest(c) == c.buffer[c.head]
Received(c) ==
    [c EXCEPT !.buffer[c.head] = None, !.head = (@ + 1) % Capacity(c), !.len = @ - 1]

\* The messages in the ring, oldest first.
Contents(c) == [k \in 1 .. c.len |-> c.buffer[(c.head + k - 1) % Capacity(c)]]

=============================================================================
