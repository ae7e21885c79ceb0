---------------------------- MODULE Registration ----------------------------
(***************************************************************************)
(* A message server and the ID server: the timer that registers it again   *)
(* and again, and the lookups of the list of servers, at start-up and for  *)
(* the command show_servers.  Time passes in ticks, several to a second,   *)
(* because the timer is kept in whole seconds of the clock and the waiting *)
(* is not.  Datagrams may be lost, late and reordered.  What else the      *)
(* server does takes no time; the sessions are in Cluster.                 *)
(***************************************************************************)
EXTENDS Integers, Sequences

CONSTANTS K,          \* ticks in a second, the wait of one try of a lookup
          R,          \* the argument -r: seconds between registrations
          Tries,      \* UDP_NUM_TRIES
          MaxFlying   \* bound: datagrams on the way or unread when a lookup begins

ASSUME RegistrationAssumption ==
  K \in Nat \ {0} /\ R \in Nat \ {0} /\ Tries \in Nat \ {0} /\ MaxFlying \in Nat

VARIABLES
  pc,        \* "start" and "show" are in COMMMSGSERV_get_servers
  timeout,   \* tv_sec of the timer, as the next select() gets it
  left,      \* ticks until the select() that is waiting gives up
  phase,     \* ticks since time(NULL) last changed
  tries,     \* tries of the lookup that are left
  flight,    \* datagrams on the way, by kind; "old" and "fresh" are answers
  unread,    \* the answers in the socket
  \* history: what the properties speak of
  shown,     \* the answer that the last lookup took
  late,      \* a try was given up before its answer was there
  age,       \* ticks since the last REG was sent, up to LongAge
  events,    \* returns of select() since then that were no timeout, up to 2
  looked     \* a lookup was made since then

timer == <<timeout, left>>
network == <<flight, unread>>
history == <<shown, late, age, events, looked>>
vars == <<pc, timer, phase, tries, network, history>>

\* Beyond this the age makes no difference.
LongAge == (R + 1 + Tries) * K


Flying == flight["request"] + flight["old"] + flight["fresh"] + Len(unread)
-----------------------------------------------------------------------------
\* The timer forgets how long select() was blocked.
set_timeout_forgets(diff) == R

\* The timer after select() returned, diff seconds of the clock after its start.
set_timeout(diff) == R - diff

\* A second that has begun counts as a second.
diff_rounded_up == LET blocked == (timeout * K) - left
                   IN  (((phase - blocked) % K) + blocked + K - 1) \div K

\* time(NULL) - t1: how often the clock changed in the ticks that select() waited.
Diff == LET blocked == (timeout * K) - left
        IN  (((phase - blocked) % K) + blocked) \div K

\* select() waits in the main loop.
WaitFor(seconds) == timeout' = seconds /\ left' = seconds * K

\* COMMMSGSERV_register: a REG, which the ID server does not answer.
register == age' = 0 /\ events' = 0 /\ looked' = FALSE

\* The answers that are there were given to an earlier request.
Old(answers) == [k \in DOMAIN answers |-> "old"]

\* A request that is written twice.
ask_twice(ready) ==
  /\ flight' = [ready EXCEPT !["request"] = @ + 2]
  /\ left' = K

\* One round of the loop of COMMMSGSERV_get_servers, which asks and waits.
ask(ready) ==
  /\ flight' = [ready EXCEPT !["request"] = @ + 1]
  /\ left' = K

-----------------------------------------------------------------------------
\* The timer runs out: the server registers.
expire ==
  /\ pc = "select" /\ left = 0
  /\ register
  /\ WaitFor(set_timeout(0))
  /\ UNCHANGED <<pc, phase, tries, network, shown, late>>

\* select() reports a frame, a request, a connection or a line typed in: the
\* timer is set, then what was reported is served.
interrupted ==
  /\ pc = "select"
  /\ events' = IF events = 2 THEN 2 ELSE events + 1

other ==
  /\ interrupted
  /\ WaitFor(set_timeout(Diff))
  /\ UNCHANGED <<pc, phase, tries, network, shown, late, age, looked>>

join ==
  /\ pc = "select"
  /\ register
  /\ WaitFor(set_timeout(Diff))
  /\ UNCHANGED <<pc, phase, tries, network, shown, late>>

show_servers ==
  /\ interrupted
  /\ Flying <= MaxFlying
  /\ pc' = "show"
  /\ timeout' = set_timeout(Diff)
  /\ tries' = Tries - 1
  /\ ask([flight EXCEPT !["old"] = @ + flight["fresh"], !["fresh"] = 0])
  /\ unread' = Old(unread)
  /\ shown' = "none"
  /\ looked' = TRUE
  /\ UNCHANGED <<phase, late, age>>

exit ==
  /\ pc = "select"
  /\ pc' = "off"
  /\ UNCHANGED <<timer, phase, tries, network, history>>

-----------------------------------------------------------------------------
\* One try more than there are.
retry_once_more ==
  /\ pc \in {"start", "show"} /\ left = 0 /\ unread = <<>>
  /\ tries >= 0
  /\ tries' = tries - 1
  /\ ask(flight)
  /\ late' = TRUE
  /\ UNCHANGED <<pc, timeout, phase, unread, shown, age, events, looked>>

\* A second without an answer: the next try.
retry ==
  /\ pc \in {"start", "show"} /\ left = 0 /\ unread = <<>>
  /\ tries > 0
  /\ tries' = tries - 1
  /\ ask(flight)
  /\ late' = TRUE
  /\ UNCHANGED <<pc, timeout, phase, unread, shown, age, events, looked>>

\* A lookup that waits on after its last try.
give_up_waits ==
  /\ pc \in {"start", "show"} /\ left = 0 /\ unread = <<>>
  /\ tries = 0
  /\ left' = K
  /\ late' = TRUE
  /\ UNCHANGED <<pc, timeout, phase, tries, network, shown, age, events, looked>>

\* The last try is over, and with it the server: main() leaves its loop when
\* show_servers fails, and does not enter it when the list at start-up is not
\* there.
give_up ==
  /\ pc \in {"start", "show"} /\ left = 0 /\ unread = <<>>
  /\ tries = 0
  /\ pc' = "off"
  /\ late' = TRUE
  /\ UNCHANGED <<timer, phase, tries, network, shown, age, events, looked>>

\* Whatever is in the socket is the answer.
take_answer ==
  /\ pc \in {"start", "show"} /\ unread # <<>>
  /\ shown' = Head(unread)
  /\ unread' = Tail(unread)
  /\ pc' = "select"
  /\ left' = timeout * K
  /\ IF pc = "start" THEN register ELSE UNCHANGED <<age, events, looked>>
  /\ UNCHANGED <<timeout, phase, tries, flight, late>>

-----------------------------------------------------------------------------
\* Time passes while select() waits, and it does not wait when it can return.
Tick ==
  /\ pc # "off" /\ left > 0
  /\ pc \in {"start", "show"} => unread = <<>>
  /\ left' = left - 1
  /\ phase' = (phase + 1) % K
  /\ age' = IF age = LongAge THEN age ELSE age + 1
  /\ UNCHANGED <<pc, timeout, tries, network, shown, late, events, looked>>

\* The ID server answers a request.
idserver ==
  /\ flight["request"] > 0
  /\ flight' = [flight EXCEPT !["request"] = @ - 1, !["fresh"] = @ + 1]
  /\ UNCHANGED <<pc, timer, phase, tries, unread, history>>

arrive(answer) ==
  /\ flight[answer] > 0
  /\ flight' = [flight EXCEPT ![answer] = @ - 1]
  /\ unread' = Append(unread, answer)
  /\ UNCHANGED <<pc, timer, phase, tries, history>>

lose(kind) ==
  /\ flight[kind] > 0
  /\ flight' = [flight EXCEPT ![kind] = @ - 1]
  /\ UNCHANGED <<pc, timer, phase, tries, unread, history>>

-----------------------------------------------------------------------------
\* The timer is set and the first request sent.
Init ==
  /\ pc = "start"
  /\ timeout = set_timeout(0)
  /\ left = K
  /\ phase \in 0 .. K - 1
  /\ tries = Tries - 1
  /\ flight = [request |-> 1, old |-> 0, fresh |-> 0]
  /\ unread = <<>>
  /\ shown = "none" /\ late = FALSE
  /\ age = 0 /\ events = 0 /\ looked = FALSE

msgserv == \/ expire \/ other \/ join \/ show_servers \/ exit
           \/ retry \/ give_up \/ take_answer

Next == \/ msgserv
        \/ Tick
        \/ idserver
        \/ \E answer \in {"old", "fresh"} : arrive(answer)
        \/ \E kind \in DOMAIN flight : lose(kind)

\* The clock does not stop, and the server does its part of a lookup.
Spec == Init /\ [][Next]_vars /\ WF_vars(Tick) /\ WF_vars(retry \/ give_up \/ take_answer)
-----------------------------------------------------------------------------
\* Type invariant.
TypeOK ==
  /\ pc \in {"start", "select", "show", "off"}
  /\ timeout \in Int /\ left \in Int
  /\ phase \in 0 .. K - 1
  /\ tries \in 0 .. Tries - 1
  /\ flight \in [{"request", "old", "fresh"} -> Nat]
  /\ unread \in Seq({"old", "fresh"})
  /\ shown \in {"none", "old", "fresh"}
  /\ late \in BOOLEAN /\ looked \in BOOLEAN
  /\ age \in 0 .. LongAge /\ events \in 0 .. 2

\* select() fails on a negative timeout, and the server is gone.  However the
\* seconds of the clock fall on the time that select() waited, main() never
\* takes off more than there is.
TimerNotNegative == timeout >= 0

\* The README: "We set a `timeout` in `select()` so that every `T` seconds the
\* server sends a `REG name;ip;upt;tpt` UDP message to the ID server".
RegEveryR == pc = "select" => age < (R + 1) * K

\* What is left of it: a registration is delayed by less than a second when
\* select() was interrupted once since the one before, and by a lookup.
RegEveryRIfInterruptedOnce ==
  pc = "select" /\ events < 2 => age < (R + 1) * K + (IF looked THEN Tries * K ELSE 0)

\* A lookup takes whatever answer is in the socket.  It is younger than the
\* command as long as no try was ever given up.
FreshUnlessLate == shown = "old" => late

\* A lookup ends, with the list or with the server.
LookupEnds == pc \in {"start", "show"} ~> pc \in {"select", "off"}
=============================================================================
