---------------------------- MODULE WakeTickets ----------------------------
(***************************************************************************)
(* The wake tickets of the chat tools (pcwake.py): a chat session reserves *)
(* a one-shot ticket, a thread redeems it, and the wake is queued for the  *)
(* session's long-poll.  Tool threads call in at any time, so the code     *)
(* between taking and releasing _lock is one action; redeem has two such   *)
(* sections.                                                               *)
(*                                                                         *)
(* The dictionaries whose oldest entry is evicted are sequences of ids in  *)
(* order of age.  An id is a fresh uuid.                                   *)
(***************************************************************************)
EXTENDS Naturals, Sequences, FiniteSets, SequencesExt

CONSTANTS
  Ids,             \* wake ids
  Sessions,
  Threads,         \* threads that redeem
  Nothing,         \* no id
  MaxTickets,      \* _MAX_TICKETS
  MaxPerSession    \* _MAX_PER_SESSION

ASSUME LimitAssumption == MaxTickets \in Nat \ {0} /\ MaxPerSession \in Nat \ {0}
ASSUME NothingAssumption == Nothing \notin Ids /\ Sessions # {}

VARIABLES
  tickets,      \* _tickets, oldest first
  session,      \* the session each id was reserved for
  expired,      \* ids reserved more than _TICKET_TTL ago
  redeemed,     \* _redeemed, oldest first
  cancelled,    \* _cancelled, oldest first
  pending,      \* _pending
  hand,         \* the ticket a thread has consumed and not yet queued
  issued,       \* history: ids ever reserved
  delivered,    \* history: ids handed to a long-poll, in order
  withdrawn     \* history: ids whose cancel answered True

bookVars == <<tickets, redeemed, cancelled>>
historyVars == <<issued, delivered, withdrawn>>
wakeVars == <<bookVars, session, expired, pending, hand, historyVars>>

-----------------------------------------------------------------------------
InHand == {hand[t] : t \in Threads} \ {Nothing}
Queued == UNION {ToSet(pending[s]) : s \in Sessions}

\* An id is at most once in a dictionary, and in a queue.
Popped(book, w) == RemoveFirst(book, w)

\* Entry w as the newest of a dictionary of fewer than max others.
Newest(book, w, max) ==
  LET others == Popped(book, w) IN
    Append(IF Len(others) < max THEN others
           ELSE SubSeq(others, Len(others) - max + 2, Len(others)), w)

NothingKept ==
  /\ tickets = <<>> /\ redeemed = <<>> /\ cancelled = <<>>
  /\ pending = [s \in Sessions |-> <<>>]
  /\ hand = [t \in Threads |-> Nothing]

WakeInit ==
  /\ NothingKept
  /\ session = [w \in Ids |-> CHOOSE s \in Sessions : TRUE]
  /\ expired = {}
  /\ issued = {} /\ delivered = <<>> /\ withdrawn = {}

\* reserve: purge what expired (the oldest tickets), evict the oldest, issue
Reserve(w, s) ==
  /\ w \notin issued
  /\ issued' = issued \cup {w}
  /\ session' = [session EXCEPT ![w] = s]
  /\ \E old \in 0 .. Len(tickets) :
       /\ \A i \in 1 .. Len(tickets) : tickets[i] \in expired <=> i <= old
       /\ tickets' = Newest(SubSeq(tickets, old + 1, Len(tickets)), w, MaxTickets)
  /\ UNCHANGED <<redeemed, cancelled, expired, pending, hand, delivered,
                 withdrawn>>

\* A ticket's 24 hours are over; the older ones' are too.
Expire(w) ==
  /\ w \in issued \ expired
  /\ \A i \in 1 .. Len(tickets) :
       tickets[i] = w => \A j \in 1 .. i - 1 : tickets[j] \in expired
  /\ expired' = expired \cup {w}
  /\ UNCHANGED <<bookVars, session, pending, hand, historyVars>>

\* redeem, first section: consume the ticket
RedeemTake(t, w) ==
  /\ hand[t] = Nothing
  /\ w \in ToSet(tickets)
  /\ tickets' = Popped(tickets, w)
  /\ redeemed' = Newest(redeemed, w, MaxTickets)
  /\ hand' = [hand EXCEPT ![t] = w]
  /\ UNCHANGED <<cancelled, session, expired, pending, historyVars>>

\* oldest out
Room(q) == IF Len(q) >= MaxPerSession THEN Tail(q) ELSE q

\* redeem, second section: _enqueue
RedeemEnqueue(t) ==
  /\ hand[t] # Nothing
  /\ pending' = [pending EXCEPT ![session[hand[t]]] = Append(Room(@), hand[t])]
  /\ hand' = [hand EXCEPT ![t] = Nothing]
  /\ UNCHANGED <<bookVars, session, expired, historyVars>>

\* Mutant: only the ticket is withdrawn, not the wake it became.
TicketOnly(q, w) == q
\* what cancel leaves of a session's queue
Without(q, w) == RemoveFirst(q, w)

\* cancel
Cancel(w) ==
  /\ w \in issued
  /\ tickets' = Popped(tickets, w)
  /\ pending' = [s \in Sessions |-> Without(pending[s], w)]
  /\ IF w \in ToSet(tickets) \cup Queued
     THEN /\ redeemed' = Popped(redeemed, w)
          /\ cancelled' = LET later == Append(Popped(cancelled, w), w) IN
               IF Len(later) < MaxTickets THEN later
               ELSE SubSeq(later, Len(later) - MaxTickets + 2, Len(later))
          /\ withdrawn' = withdrawn \cup {w}
     ELSE UNCHANGED <<redeemed, cancelled, withdrawn>>
  /\ UNCHANGED <<session, expired, hand, issued, delivered>>

\* drain: a long-poll takes the whole queue of its session.
Drain(s) ==
  /\ pending[s] # <<>>
  /\ delivered' = delivered \o pending[s]
  /\ pending' = [pending EXCEPT ![s] = <<>>]
  /\ UNCHANGED <<bookVars, session, expired, hand, issued, withdrawn>>

\* The tool server restarts (/reload, crash): all of this is in its memory.
Restart ==
  /\ tickets' = <<>> /\ redeemed' = <<>> /\ cancelled' = <<>>
  /\ pending' = [s \in Sessions |-> <<>>]
  /\ hand' = [t \in Threads |-> Nothing]
  /\ UNCHANGED <<session, expired, historyVars>>

WakeNext ==
  \/ \E w \in Ids, s \in Sessions : Reserve(w, s)
  \/ \E w \in Ids : Expire(w) \/ Cancel(w)
  \/ \E t \in Threads, w \in Ids : RedeemTake(t, w)
  \/ \E t \in Threads : RedeemEnqueue(t)
  \/ \E s \in Sessions : Drain(s)
  \/ Restart

WakeSpec == WakeInit /\ [][WakeNext]_wakeVars

\* status
Status(w) ==
  IF w \in ToSet(tickets) THEN "pending"
  ELSE IF w \in ToSet(redeemed) THEN "redeemed"
  ELSE IF w \in ToSet(cancelled) THEN "cancelled"
  ELSE "unknown"

-----------------------------------------------------------------------------

\* "a second redeem is a no-op, so retries cannot spam the chat": however many
\* threads redeem a ticket, its chat is woken at most once.
WokenAtMostOnce == IsInjective(delivered)

\* "so it will never wake this chat": a cancel that answered True is final.
WithdrawnNeverWakes == withdrawn \cap ToSet(delivered) = {}

\* Tickets, queues and what status answers agree: a queued wake is for the chat
\* that reserved it, was redeemed and not delivered yet, and a ticket answered
\* "cancelled" does not wake its chat any more.
BooksAgree ==
  /\ \A s \in Sessions : \A w \in ToSet(pending[s]) :
       session[w] = s /\ Status(w) # "pending" /\ w \notin ToSet(delivered)
  /\ \A w \in issued : Status(w) = "cancelled" => w \notin InHand \cup Queued

\* What was answered of a ticket stays so: the redeem that was accepted is the only one
\* that wakes, a cancel is final, and what a status said goes on to be true.
AnswersAreKept == WokenAtMostOnce /\ WithdrawnNeverWakes /\ BooksAgree
=============================================================================
