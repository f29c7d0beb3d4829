--------------------------- MODULE AllocatorService ---------------------------
(***************************************************************************)
(* fusion-sys/alloc/service.rs: the audit service of an allocator.  It     *)
(* advertises the domains on one channel, takes requests from a second and *)
(* answers on a third.  pump is a loop over channel calls, one step each.  *)
(* Domain 0 has the pool, the other domains have none.  Clients of the     *)
(* same context run between pumps; with bound.threads they run at any time *)
(* and the service's try_lock may find a channel busy.                     *)
(***************************************************************************)
EXTENDS Allocator, LocalChannel
LOCAL INSTANCE SequencesExt

CONSTANTS Domains,         \* domain_count: the domains are 0 .. Domains - 1
          MAX_CONSUMERS    \* of each channel

VARIABLES
    metadata, control, status,   \* the three channels
    next_metadata,
    pending_status,              \* a reply, or None
    pending_stream,              \* [n, kind, domain, next_index], or None
    pc,                          \* the part of pump that comes next
    again,                       \* pump is in its loop over requests
    asked,                       \* every request sent, in order
    sent,                        \* every reply tried: lost says that the ring refused it
    got                          \* every reply that clients took, in order

channels == <<metadata, control, status>>
service == <<next_metadata, pending_status, pending_stream, pc, again, sent>>
svars == <<channels, service, asked, got>>

\* A reply to the n-th request.  The numbers are not in the messages: they let the
\* properties follow them.
Reply(n, what, index) == [n |-> n, what |-> what, index |-> index]
Try(reply, lost) == sent' = Append(sent, [reply |-> reply, lost |-> lost])

\* new: the service attaches to its end of each channel.
ServiceInit ==
    /\ metadata = ProducerAttached(NewChannel(bound.capacity, "PromotableSpmc"))
    /\ control = ConsumerAttached(NewChannel(bound.capacity, "PromotableSpmc"))
    /\ status = ProducerAttached(NewChannel(bound.capacity, "PromotableSpmc"))
    /\ next_metadata = 0 /\ pending_status = None /\ pending_stream = None
    /\ pc = "idle" /\ again = FALSE
    /\ asked = <<>> /\ sent = <<>> /\ got = <<>>

\* try_send fails: the ring is full, or another thread has the channel's lock.
Refused(c) == Full(c) \/ bound.threads
Accepts(c) == ~Full(c)

\* Where pump goes on after a part.
Afterwards(part) ==
    CASE part = "metadata" /\ ~again -> "status"
      [] part = "status" -> "stream"
      [] part = "stream" /\ again -> "metadata"
      [] OTHER -> IF pending_status' # None \/ pending_stream' # None THEN "idle" ELSE "receive"

Pump ==
    /\ pc = "idle" /\ bound.audit
    /\ pc' = "metadata" /\ again' = FALSE
    /\ UNCHANGED <<channels, next_metadata, pending_status, pending_stream, sent>>

FlushMetadata ==
    /\ pc = "metadata"
    /\ \/ /\ next_metadata < Domains /\ Accepts(metadata)
          /\ metadata' = Sent(metadata, [domain |-> next_metadata])
          /\ next_metadata' = next_metadata + 1
          /\ UNCHANGED <<pc, pending_status, pending_stream>>
       \/ /\ next_metadata = Domains \/ Refused(metadata)
          /\ UNCHANGED <<metadata, next_metadata, pending_status, pending_stream>>
          /\ pc' = Afterwards("metadata")
    /\ UNCHANGED <<control, status, again, sent>>

\* Mutant: the pending reply is taken before the ring has accepted it.
FlushStatus_TakesFirst ==
    /\ pc = "status"
    /\ \/ /\ pending_status # None /\ Accepts(status)
          /\ status' = Sent(status, pending_status) /\ Try(pending_status, FALSE)
       \/ /\ pending_status = None \/ Refused(status)
          /\ UNCHANGED <<status, sent>>
    /\ pending_status' = None
    /\ pc' = "stream"
    /\ UNCHANGED <<metadata, control, next_metadata, pending_stream, again>>

FlushStatus ==
    /\ pc = "status"
    /\ \/ /\ pending_status # None /\ Accepts(status)
          /\ status' = Sent(status, pending_status) /\ Try(pending_status, FALSE)
          /\ pending_status' = None
       \/ /\ pending_status = None \/ Refused(status)
          /\ UNCHANGED <<status, sent, pending_status>>
    /\ pc' = Afterwards("status")
    /\ UNCHANGED <<metadata, control, next_metadata, pending_stream, again>>

\* What member_info_at and extent_info_at count for a domain.
Listed(s) ==
    CASE s.domain # 0 -> 0
      [] s.kind = "members" -> Cardinality(Members)
      [] s.kind = "extents" -> Cardinality(extents)

\* The stream moves on before the item is sent: an item that the ring refuses is lost.
FlushStream ==
    /\ pc = "stream"
    /\ UNCHANGED pending_status
    /\ \/ /\ pending_stream = None /\ UNCHANGED <<status, sent, pending_stream>>
          /\ pc' = Afterwards("stream")
       \/ /\ pending_stream # None
          /\ LET more == pending_stream.next_index < Listed(pending_stream)
                 item == Reply(pending_stream.n, IF more THEN "item" ELSE "complete",
                               pending_stream.next_index)
             IN  /\ pending_stream' = IF more THEN [pending_stream EXCEPT !.next_index = @ + 1]
                                      ELSE None
                 /\ \/ /\ Accepts(status) /\ status' = Sent(status, item) /\ Try(item, FALSE)
                       /\ UNCHANGED pc
                    \/ /\ Refused(status) /\ Try(item, TRUE) /\ UNCHANGED status
                       /\ pc' = Afterwards("stream")
    /\ UNCHANGED <<metadata, control, next_metadata, again>>

Known(r) == r.domain < Domains
Answer(r) == IF r.kind = "republish" \/ Known(r) THEN r.kind ELSE "rejected"
Streamed(r) == r.kind \in {"members", "extents"} /\ Known(r)

\* try_receive and handle_request of the n-th request.
Receive ==
    /\ pc = "receive" /\ control.len > 0
    /\ control' = Received(control)
    /\ LET r == Oldest(control)
           n == Len(asked) - control.len + 1
       IN  \/ /\ Streamed(r)
              /\ pending_stream' = [n |-> n, kind |-> r.kind, domain |-> r.domain, next_index |-> 0]
              /\ UNCHANGED <<pending_status, next_metadata>>
           \/ /\ ~Streamed(r)
              /\ pending_status' = Reply(n, Answer(r), 0)
              /\ next_metadata' = IF r.kind = "republish" THEN 0 ELSE next_metadata
              /\ UNCHANGED pending_stream
    /\ pc' = "status" /\ again' = TRUE
    /\ UNCHANGED <<metadata, status, sent>>

\* pump returns: there is no request, or the channel is busy.  An error ends the fiber
\* that runs the service.
PumpReturns ==
    /\ pc = "receive"
    /\ \/ control.len = 0 /\ pc' = "idle"
       \/ bound.threads /\ pc' = IF bound.fiber THEN "ended" ELSE "idle"
    /\ UNCHANGED <<channels, next_metadata, pending_status, pending_stream, again, sent>>

ServiceNext ==
    /\ Pump \/ FlushMetadata \/ FlushStatus \/ FlushStream \/ Receive \/ PumpReturns
    /\ UNCHANGED <<asked, got>>

-----------------------------------------------------------------------------
(* The clients *)

ClientRuns == bound.audit /\ (pc \in {"idle", "ended"} \/ bound.threads)

\* attach_producer and detach_producer of the control channel.
AttachControl ==
    /\ CanAttachProducer(control) /\ control.next_attachment <= bound.attachments
    /\ control' = ProducerAttached(control) /\ UNCHANGED <<metadata, status, asked, got>>
DetachControl ==
    /\ control.producer # 0
    /\ control' = ProducerDetached(control) /\ UNCHANGED <<metadata, status, asked, got>>

Ask(r) ==
    /\ control.producer # 0 /\ Accepts(control) /\ Len(asked) < bound.asks
    /\ control' = Sent(control, r)
    /\ asked' = Append(asked, r)
    /\ UNCHANGED <<metadata, status, got>>

AttachStatus ==
    /\ CanAttachConsumer(status, MAX_CONSUMERS) /\ status.next_attachment <= bound.attachments
    /\ status' = ConsumerAttached(status) /\ UNCHANGED <<metadata, control, asked, got>>
DetachStatus(token) ==
    /\ status' = ConsumerDetached(status, token) /\ UNCHANGED <<metadata, control, asked, got>>
TakeReply ==
    /\ status.consumers # {} /\ status.len > 0
    /\ status' = Received(status)
    /\ got' = Append(got, Oldest(status))
    /\ UNCHANGED <<metadata, control, asked>>

AttachMetadata ==
    /\ CanAttachConsumer(metadata, 1)
    /\ metadata' = ConsumerAttached(metadata) /\ UNCHANGED <<control, status, asked, got>>
TakeMetadata ==
    /\ metadata.consumers # {} /\ metadata.len > 0
    /\ metadata' = Received(metadata) /\ UNCHANGED <<control, status, asked, got>>

ClientNext ==
    /\ ClientRuns
    /\ \/ AttachControl \/ DetachControl \/ (\E r \in bound.requests : Ask(r))
       \/ AttachStatus \/ (\E token \in status.consumers : DetachStatus(token)) \/ TakeReply
       \/ AttachMetadata \/ TakeMetadata
    /\ UNCHANGED service

-----------------------------------------------------------------------------
(* Callers of the pool itself, of the allocators, and of the service. *)

DomainInit == Init /\ AllocatorInit /\ ServiceInit

DomainNext ==
    \/ bound.direct /\ Next /\ UNCHANGED <<bound, avars, svars>>
    \/ AllocatorNext /\ UNCHANGED svars
    \/ (ServiceNext \/ ClientNext) /\ UNCHANGED <<vars, bound, avars>>

-----------------------------------------------------------------------------
(* Properties *)

Delivered == SelectSeq(sent, LAMBDA t : ~t.lost)
About(n) == SelectSeq(sent, LAMBDA t : t.reply.n = n)
Taken == Len(asked) - control.len
Finished(n) == n < Taken \/ (n = Taken /\ pending_status = None /\ pending_stream = None)

\* What clients get over the rings is what the service sent, in that order, across
\* consumers that come and go; requests are answered in the order they were sent, each
\* by its own reply, never dropped by a full or busy ring and never repeated, or by a
\* stream that lists its items in order up to the completion, of which only what the
\* ring refused is missing.
RepliesExact ==
    /\ [k \in DOMAIN Delivered |-> Delivered[k].reply] = got \o Contents(status)
    /\ \A j, k \in DOMAIN sent : j < k => sent[j].reply.n <= sent[k].reply.n
    /\ \A n \in 1 .. Taken :
        LET r == asked[n]
            tries == About(n)
            ends == IF Finished(n) THEN 1 ELSE 0
        IN  IF Streamed(r)
            THEN /\ Len(tries) >= ends
                 /\ \A k \in DOMAIN tries :
                    tries[k].reply = Reply(n, IF ends = 1 /\ k = Len(tries) THEN "complete"
                                              ELSE "item", k - 1)
            ELSE tries = [k \in 1 .. ends |-> [reply |-> Reply(n, Answer(r), 0), lost |-> FALSE]]
    /\ \A n \in 1 .. Taken :
        asked[n].kind = "members" /\ asked[n].domain = 0 /\ Finished(n)
            => Len(About(n)) = Cardinality(Members) + 1

=============================================================================
