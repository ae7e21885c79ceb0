------------------------- MODULE RegistrationProofs -------------------------
(***************************************************************************)
(* The types of Registration, and that a list of servers is younger than   *)
(* the command that shows it as long as no try was given up, for any       *)
(* timer, clock and number of tries.                                       *)
(***************************************************************************)
EXTENDS Registration, TLAPS

\* As long as every try was answered in time, a lookup has one datagram
\* somewhere, none of an earlier one, and takes it with it.
OneDatagram ==
  ~ late =>
    /\ flight["old"] = 0
    /\ unread = <<>> \/ unread = <<"fresh">>
    /\ flight["request"] + flight["fresh"] + Len(unread) <= 1
    /\ pc = "select" => Flying = 0
    /\ shown # "old"

\* Products and quotients, which the steps below do not look into.
LEMMA LongAgeOK == LongAge \in Nat /\ 0 \in 0 .. LongAge
<1>1. R + 1 + Tries \in Nat
  BY RegistrationAssumption
<1>2. LongAge \in Nat
  BY <1>1, RegistrationAssumption DEF LongAge
<1> QED
  BY <1>2

LEMMA DiffOK == ASSUME TypeOK PROVE Diff \in Int
<1> DEFINE blocked == (timeout * K) - left
<1>1. blocked \in Int
  BY RegistrationAssumption DEF TypeOK
<1> HIDE DEF blocked
<1>2. (phase - blocked) % K \in Int
  BY <1>1, RegistrationAssumption DEF TypeOK
<1>3. ((phase - blocked) % K) + blocked \in Int
  BY <1>1, <1>2
<1>4. (((phase - blocked) % K) + blocked) \div K \in Int
  BY <1>3, RegistrationAssumption
<1> QED
  BY <1>4 DEF Diff, blocked

\* A timer that is set is a number.
LEMMA WaitForOK ==
  ASSUME NEW seconds \in Int, WaitFor(seconds)
  PROVE  timeout' \in Int /\ left' \in Int
BY RegistrationAssumption DEF WaitFor

\* A REG starts the history anew.
LEMMA RegisterOK ==
  ASSUME register
  PROVE  age' \in 0 .. LongAge /\ events' \in 0 .. 2 /\ looked' \in BOOLEAN
<1>1. age' = 0 /\ events' = 0
  BY DEF register
<1>2. looked' \in BOOLEAN
  BY Zenon DEF register
<1> QED
  BY <1>1, <1>2, LongAgeOK

\* The first request is the only datagram.
LEMMA InitOK == Init => TypeOK /\ OneDatagram
<1> SUFFICES ASSUME Init PROVE TypeOK /\ OneDatagram
  OBVIOUS
<1>1. TypeOK
  <2>1. timeout \in Int /\ left \in Int /\ phase \in 0 .. K - 1 /\ tries \in 0 .. Tries - 1
    BY RegistrationAssumption DEF Init, set_timeout
  <2>2. age \in 0 .. LongAge /\ events \in 0 .. 2
    BY LongAgeOK DEF Init
  <2>3. unread \in Seq({"old", "fresh"})
    BY DEF Init
  <2>4. flight \in [{"request", "old", "fresh"} -> Nat]
    BY DEF Init
  <2> QED
    BY <2>1, <2>2, <2>3, <2>4 DEF Init, TypeOK
<1>2. OneDatagram
  BY DEF Init, OneDatagram
<1> QED
  BY <1>1, <1>2

\* What the main loop does without a lookup.
LEMMA LoopOK ==
  ASSUME TypeOK, OneDatagram, expire \/ other \/ join \/ exit
  PROVE  TypeOK' /\ OneDatagram'
<1>1. CASE expire
  <2>1. timeout' \in Int /\ left' \in Int
    BY <1>1, WaitForOK, RegistrationAssumption DEF expire, set_timeout
  <2>2. age' \in 0 .. LongAge /\ events' \in 0 .. 2 /\ looked' \in BOOLEAN
    BY <1>1, RegisterOK DEF expire
  <2> QED
    BY <1>1, <2>1, <2>2 DEF expire, TypeOK, OneDatagram, network, Flying
<1>2. CASE other
  <2>1. timeout' \in Int /\ left' \in Int
    BY <1>2, DiffOK, WaitForOK, RegistrationAssumption DEF other, set_timeout
  <2> QED
    BY <1>2, <2>1 DEF other, interrupted, TypeOK, OneDatagram, network, Flying
<1>3. CASE join
  <2>1. timeout' \in Int /\ left' \in Int
    BY <1>3, DiffOK, WaitForOK, RegistrationAssumption DEF join, set_timeout
  <2>2. age' \in 0 .. LongAge /\ events' \in 0 .. 2 /\ looked' \in BOOLEAN
    BY <1>3, RegisterOK DEF join
  <2> QED
    BY <1>3, <2>1, <2>2 DEF join, TypeOK, OneDatagram, network, Flying
<1>4. CASE exit
  BY <1>4 DEF exit, TypeOK, OneDatagram, timer, network, history, Flying
<1> QED
  BY <1>1, <1>2, <1>3, <1>4

\* A command that looks the servers up begins with nothing on the way.
LEMMA ShowOK ==
  ASSUME TypeOK, OneDatagram, show_servers
  PROVE  TypeOK' /\ OneDatagram'
<1> DEFINE aged == [flight EXCEPT !["old"] = @ + flight["fresh"], !["fresh"] = 0]
<1>1. timeout' \in Int
  BY DiffOK, RegistrationAssumption DEF show_servers, set_timeout
<1>2. aged \in [{"request", "old", "fresh"} -> Nat]
  BY DEF TypeOK
<1>3. /\ flight' = [aged EXCEPT !["request"] = @ + 1]
      /\ flight' \in [{"request", "old", "fresh"} -> Nat]
      /\ left' = K
  BY <1>2 DEF show_servers, ask
<1>4. unread' \in Seq({"old", "fresh"}) /\ Len(unread') = Len(unread)
  <2>1. unread \in Seq({"old", "fresh"})
    BY DEF TypeOK
  <2>2. unread' = [k \in 1 .. Len(unread) |-> "old"]
    BY <2>1 DEF show_servers, Old
  <2> QED
    BY <2>1, <2>2
<1>5. Tries - 1 \in 0 .. Tries - 1
  BY RegistrationAssumption
<1>6. TypeOK'
  BY <1>1, <1>3, <1>4, <1>5, RegistrationAssumption DEF show_servers, interrupted, TypeOK
<1>7. OneDatagram'
  <2> SUFFICES ASSUME ~ late PROVE OneDatagram'
    BY DEF show_servers, OneDatagram
  <2>1. /\ flight["request"] = 0 /\ flight["old"] = 0 /\ flight["fresh"] = 0
        /\ Len(unread) = 0
    <3>1. Flying = 0 /\ flight \in [{"request", "old", "fresh"} -> Nat] /\ Len(unread) \in Nat
      BY DEF TypeOK, OneDatagram, show_servers, interrupted
    <3> QED
      BY <3>1 DEF Flying
  <2>2. flight'["request"] = 1 /\ flight'["old"] = 0 /\ flight'["fresh"] = 0
    BY <1>3, <2>1 DEF TypeOK
  <2>3. unread' = <<>>
    BY <1>4, <2>1
  <2> QED
    BY <2>2, <2>3 DEF OneDatagram, show_servers
<1> QED
  BY <1>6, <1>7

\* Once a try is given up, nothing is claimed any more.
LEMMA TriesOK ==
  ASSUME TypeOK, OneDatagram, retry \/ give_up
  PROVE  TypeOK' /\ OneDatagram'
<1>1. CASE retry
  <2>1. flight' \in [{"request", "old", "fresh"} -> Nat] /\ left' \in Int
    BY <1>1, RegistrationAssumption DEF retry, ask, TypeOK
  <2>2. tries' \in 0 .. Tries - 1
    BY <1>1, RegistrationAssumption DEF retry, TypeOK
  <2> QED
    BY <1>1, <2>1, <2>2 DEF retry, TypeOK, OneDatagram
<1>2. CASE give_up
  BY <1>2 DEF give_up, TypeOK, OneDatagram, timer, network
<1> QED
  BY <1>1, <1>2

\* The answer that is taken was the only datagram.
LEMMA TakeOK ==
  ASSUME TypeOK, OneDatagram, take_answer
  PROVE  TypeOK' /\ OneDatagram'
<1>1. unread \in Seq({"old", "fresh"}) /\ unread # <<>>
  BY DEF TypeOK, take_answer
<1>2. /\ Head(unread) \in {"old", "fresh"} /\ Tail(unread) \in Seq({"old", "fresh"})
      /\ Len(Tail(unread)) = Len(unread) - 1
  BY <1>1
<1>3. left' \in Int
  BY RegistrationAssumption DEF take_answer, TypeOK
<1>4. age' \in 0 .. LongAge /\ events' \in 0 .. 2 /\ looked' \in BOOLEAN
  <2>1. CASE pc = "start"
    BY <2>1, RegisterOK DEF take_answer
  <2>2. CASE pc # "start"
    BY <2>2 DEF take_answer, TypeOK
  <2> QED
    BY <2>1, <2>2
<1>5. TypeOK'
  BY <1>2, <1>3, <1>4 DEF take_answer, TypeOK
<1>6. OneDatagram'
  <2> SUFFICES ASSUME ~ late PROVE OneDatagram'
    BY DEF take_answer, OneDatagram
  <2>1. unread = <<"fresh">>
    BY <1>1 DEF OneDatagram
  <2>2. shown' = "fresh" /\ unread' = <<>>
    BY <2>1 DEF take_answer
  <2>3. flight["request"] = 0 /\ flight["old"] = 0 /\ flight["fresh"] = 0
    BY <2>1 DEF OneDatagram, TypeOK
  <2> QED
    BY <2>2, <2>3 DEF OneDatagram, Flying, take_answer
<1> QED
  BY <1>5, <1>6

\* Time does not touch the datagrams.
LEMMA TickOK ==
  ASSUME TypeOK, OneDatagram, Tick
  PROVE  TypeOK' /\ OneDatagram'
<1>1. (phase + 1) % K \in 0 .. K - 1
  BY RegistrationAssumption DEF TypeOK
<1>2. age' \in 0 .. LongAge
  BY LongAgeOK DEF TypeOK, Tick
<1> QED
  BY <1>1, <1>2 DEF Tick, TypeOK, OneDatagram, network, Flying

\* The network makes no datagram out of nothing.
LEMMA NetworkOK ==
  ASSUME TypeOK, OneDatagram,
         idserver \/ (\E answer \in {"old", "fresh"} : arrive(answer))
                  \/ (\E kind \in DOMAIN flight : lose(kind))
  PROVE  TypeOK' /\ OneDatagram'
<1>1. CASE idserver
  <2>1. /\ flight'["request"] = flight["request"] - 1 /\ flight'["old"] = flight["old"]
        /\ flight'["fresh"] = flight["fresh"] + 1
        /\ flight' \in [{"request", "old", "fresh"} -> Nat]
    BY <1>1 DEF idserver, TypeOK
  <2> QED
    BY <1>1, <2>1 DEF idserver, TypeOK, OneDatagram, Flying, timer, history
<1>2. ASSUME NEW answer \in {"old", "fresh"}, arrive(answer)
      PROVE  TypeOK' /\ OneDatagram'
  <2>1. /\ \A k \in {"request", "old", "fresh"} :
             flight'[k] = IF k = answer THEN flight[k] - 1 ELSE flight[k]
        /\ flight' \in [{"request", "old", "fresh"} -> Nat]
    BY <1>2 DEF arrive, TypeOK
  <2>2. unread' = Append(unread, answer) /\ unread' \in Seq({"old", "fresh"})
    BY <1>2 DEF arrive, TypeOK
  <2>3. TypeOK'
    BY <1>2, <2>1, <2>2 DEF arrive, TypeOK, timer, history
  <2>4. OneDatagram'
    <3> SUFFICES ASSUME ~ late PROVE OneDatagram'
      BY <1>2 DEF arrive, history, OneDatagram
    <3>1. answer = "fresh" /\ flight["fresh"] = 1 /\ flight["request"] = 0 /\ unread = <<>>
      BY <1>2 DEF arrive, OneDatagram, TypeOK
    <3>2. pc # "select"
      BY <3>1 DEF OneDatagram, TypeOK, Flying
    <3>3. unread' = <<"fresh">> /\ pc' = pc /\ shown' = shown
      BY <1>2, <2>2, <3>1 DEF arrive, history
    <3>4. flight'["request"] = 0 /\ flight'["old"] = 0 /\ flight'["fresh"] = 0
      BY <2>1, <3>1 DEF OneDatagram
    <3> QED
      BY <3>2, <3>3, <3>4 DEF OneDatagram
  <2> QED
    BY <2>3, <2>4
<1>3. ASSUME NEW kind \in DOMAIN flight, lose(kind)
      PROVE  TypeOK' /\ OneDatagram'
  <2>1. kind \in {"request", "old", "fresh"}
    BY DEF TypeOK
  <2>2. /\ \A k \in {"request", "old", "fresh"} :
             flight'[k] = IF k = kind THEN flight[k] - 1 ELSE flight[k]
        /\ flight' \in [{"request", "old", "fresh"} -> Nat]
    BY <1>3, <2>1 DEF lose, TypeOK
  <2> QED
    BY <1>3, <2>1, <2>2 DEF lose, TypeOK, OneDatagram, Flying, timer, history
<1> QED
  BY <1>1, <1>2, <1>3

LEMMA RegistrationInv == Spec => [](TypeOK /\ OneDatagram)
<1>1. ASSUME TypeOK /\ OneDatagram, [Next]_vars PROVE (TypeOK /\ OneDatagram)'
  <2>1. CASE UNCHANGED vars
    BY <1>1, <2>1 DEF vars, TypeOK, OneDatagram, Flying, timer, network, history
  <2> QED
    BY <1>1, <2>1, LoopOK, ShowOK, TriesOK, TakeOK, TickOK, NetworkOK DEF Next, msgserv
<1> QED
  BY <1>1, InitOK, PTL DEF Spec

\* Types.
THEOREM RegistrationTypeOK == Spec => []TypeOK
<1> QED
  BY RegistrationInv, PTL

\* COMMMSGSERV_get_servers takes any answer it finds, whatever it was asked for.
\* The list it returns is younger than the call unless a try was once given up.
THEOREM RegistrationFreshUnlessLate == Spec => []FreshUnlessLate
<1>1. OneDatagram => FreshUnlessLate
  BY DEF OneDatagram, FreshUnlessLate
<1> QED
  BY <1>1, RegistrationInv, PTL
-----------------------------------------------------------------------------
\* How the ticks since the last REG relate to the timer.  What is left of them
\* is bounded by the timer before the first interruption, and by a second and
\* the tries of a lookup more after it.
TimeInv ==
  /\ timeout \in 0 .. R
  /\ left >= 0
  /\ pc = "start" => events = 0 /\ ~ looked
  /\ pc = "select" => left <= timeout * K
  /\ pc = "select" /\ events = 0 => ~ looked /\ age + left <= timeout * K
  /\ pc = "select" /\ events = 1 =>
       age + left <= R * K + K - 1 + (IF looked THEN Tries * K ELSE 0)
  /\ pc = "show" => events # 0 /\ looked
  /\ pc = "show" /\ events = 1 =>
       age + left + tries * K + timeout * K <= R * K + K - 1 + Tries * K

\* Division by the ticks in a second.
LEMMA DivisionByK ==
  ASSUME NEW x \in Nat
  PROVE  /\ x \div K \in Nat
         /\ (x \div K) * K <= x
         /\ x <= (x \div K) * K + K - 1
BY RegistrationAssumption

\* A product by K grows with its factor.
LEMMA FewerSeconds ==
  ASSUME NEW m \in Int, NEW n \in Int, m * K < (n + 1) * K
  PROVE  m <= n
BY RegistrationAssumption

LEMMA NatProduct == ASSUME NEW m \in Nat PROVE m * K \in Nat
BY RegistrationAssumption

\* A tick moves from one summand to the other.
LEMMA OneMoreOneLess ==
  ASSUME NEW a \in Int, NEW b \in Int, NEW c \in Int, NEW d \in Int,
         c <= a + 1, d = b - 1
  PROVE  c + d <= a + b /\ a + b \in Int /\ c + d \in Int
OBVIOUS

LEMMA Distributes ==
  ASSUME NEW m \in Int, NEW n \in Int
  PROVE  /\ (m - n) * K = m * K - n * K
         /\ (m + n) * K = m * K + n * K
         /\ m * K \in Int
         /\ 1 * K = K
BY RegistrationAssumption

\* The clock changes no oftener than there are seconds in the timer, and not a
\* second less than select() waited.
LEMMA DiffBounds ==
  ASSUME TypeOK, TimeInv, pc = "select"
  PROVE  /\ Diff \in 0 .. timeout
         /\ timeout * K - left <= Diff * K + K - 1
<1> DEFINE blocked == (timeout * K) - left
           started == (phase - blocked) % K
<1>1. blocked \in Nat /\ blocked <= timeout * K /\ timeout \in Nat /\ timeout * K \in Int
  BY RegistrationAssumption DEF TypeOK, TimeInv
<1>2. started \in 0 .. K - 1
  <2>1. phase - blocked \in Int
    BY <1>1, RegistrationAssumption DEF TypeOK
  <2> HIDE DEF blocked
  <2> QED
    BY <2>1, RegistrationAssumption
<1>3. Diff = (started + blocked) \div K
  BY DEF Diff
<1> HIDE DEF blocked, started
<1>4. started + blocked \in Nat
  BY <1>1, <1>2, RegistrationAssumption
<1>5. Diff \in Nat /\ Diff * K <= started + blocked /\ started + blocked <= Diff * K + K - 1
  BY <1>3, <1>4, DivisionByK
<1>6. Diff * K < (timeout + 1) * K
  <2>1. (timeout + 1) * K = timeout * K + K
    BY <1>1, Distributes
  <2> QED
    BY <1>1, <1>2, <1>5, <2>1, Distributes, RegistrationAssumption
<1>7. Diff <= timeout
  BY <1>1, <1>5, <1>6, FewerSeconds
<1>8. blocked <= Diff * K + K - 1
  BY <1>1, <1>2, <1>5, Distributes, RegistrationAssumption
<1> QED
  BY <1>1, <1>5, <1>7, <1>8 DEF blocked

\* The first lookup: nothing is registered yet.
LEMMA TimeInit == Init => TimeInv
BY RegistrationAssumption DEF Init, TimeInv, set_timeout

\* The timer runs out, or the user registers: the history starts anew.
LEMMA TimeRegister ==
  ASSUME TypeOK, TimeInv, expire \/ join
  PROVE  TimeInv'
<1>1. pc' = "select" /\ events' = 0 /\ age' = 0 /\ looked' = FALSE
  BY DEF expire, join, register, TypeOK
<1>2. timeout' \in 0 .. R /\ left' = timeout' * K
  <2>1. CASE expire
    BY <2>1, RegistrationAssumption DEF expire, WaitFor, set_timeout
  <2>2. CASE join
    <3>1. Diff \in 0 .. timeout /\ timeout \in 0 .. R
      BY <2>2, DiffBounds DEF join, TimeInv
    <3> QED
      BY <2>2, <3>1, RegistrationAssumption DEF join, WaitFor, set_timeout
  <2> QED
    BY <2>1, <2>2
<1>3. left' >= 0 /\ left' \in Int
  <2>1. timeout' \in Nat
    BY <1>2, RegistrationAssumption
  <2>2. timeout' * K \in Nat
    BY <2>1, NatProduct
  <2> QED
    BY <1>2, <2>2
<1> QED
  BY <1>1, <1>2, <1>3 DEF TimeInv

\* What an interruption leaves on the timer, which starts from R again less the
\* seconds that the clock showed.
LEMMA Interruption ==
  ASSUME TypeOK, TimeInv, pc = "select"
  PROVE  /\ R - Diff \in 0 .. R
         /\ (R - Diff) * K \in Nat
         /\ events = 0 => ~ looked /\ age + (R - Diff) * K <= R * K + K - 1
<1>1. Diff \in 0 .. timeout /\ timeout * K - left <= Diff * K + K - 1 /\ timeout \in 0 .. R
  BY DiffBounds DEF TimeInv
<1>2. R - Diff \in 0 .. R
  BY <1>1, RegistrationAssumption
<1>3. (R - Diff) * K = R * K - Diff * K /\ R * K \in Int /\ Diff * K \in Int /\ timeout * K \in Int
  BY <1>1, Distributes, RegistrationAssumption
<1>4. (R - Diff) * K \in Nat
  BY <1>2, RegistrationAssumption
<1>5. ASSUME events = 0
      PROVE  ~ looked /\ age + (R - Diff) * K <= R * K + K - 1
  <2>1. ~ looked /\ age + left <= timeout * K /\ age \in Int /\ left \in Int
    BY <1>5, LongAgeOK DEF TimeInv, TypeOK
  <2> HIDE DEF Diff
  <2> QED
    BY <1>1, <1>3, <2>1, RegistrationAssumption
<1> QED
  BY <1>2, <1>4, <1>5

\* Any other traffic: the first interruption costs less than a second, of the
\* second nothing is said.
LEMMA TimeOther ==
  ASSUME TypeOK, TimeInv, other
  PROVE  TimeInv'
<1>1. /\ pc = "select" /\ pc' = "select" /\ age' = age /\ looked' = looked
      /\ timeout' = R - Diff /\ left' = timeout' * K
      /\ events' = IF events = 2 THEN 2 ELSE events + 1
  BY DEF other, interrupted, WaitFor, set_timeout
<1>2. timeout' \in 0 .. R /\ left' \in Nat
  BY <1>1, Interruption
<1>3. events' # 0 /\ (events' = 1 => events = 0)
  BY <1>1 DEF TypeOK
<1>4. ASSUME events' = 1
      PROVE  age' + left' <= R * K + K - 1 + (IF looked' THEN Tries * K ELSE 0)
  <2>1. ~ looked /\ age + (R - Diff) * K <= R * K + K - 1
    BY <1>1, <1>3, <1>4, Interruption
  <2> QED
    BY <1>1, <2>1, LongAgeOK, Distributes, RegistrationAssumption DEF TypeOK
<1> QED
  BY <1>1, <1>2, <1>3, <1>4 DEF TimeInv

\* A lookup adds the time of its tries to that.
LEMMA TimeShow ==
  ASSUME TypeOK, TimeInv, show_servers
  PROVE  TimeInv'
<1>1. /\ pc = "select" /\ pc' = "show" /\ age' = age /\ looked' = TRUE
      /\ timeout' = R - Diff /\ left' = K /\ tries' = Tries - 1
      /\ events' = IF events = 2 THEN 2 ELSE events + 1
  BY DEF show_servers, interrupted, ask, set_timeout
<1>2. timeout' \in 0 .. R
  BY <1>1, Interruption
<1>3. events' # 0 /\ (events' = 1 => events = 0)
  BY <1>1 DEF TypeOK
<1>4. ASSUME events' = 1
      PROVE  age' + left' + tries' * K + timeout' * K <= R * K + K - 1 + Tries * K
  <2>1. age + (R - Diff) * K <= R * K + K - 1 /\ (R - Diff) * K \in Nat /\ age \in Int
    BY <1>1, <1>3, <1>4, Interruption, LongAgeOK DEF TypeOK
  <2>2. tries' * K = Tries * K - K /\ Tries * K \in Int /\ R * K \in Int
    BY <1>1, Distributes, RegistrationAssumption
  <2>3. timeout' * K = (R - Diff) * K
    BY <1>1
  <2> QED
    BY <1>1, <2>1, <2>2, <2>3, RegistrationAssumption
<1> QED
  BY <1>1, <1>2, <1>3, <1>4, RegistrationAssumption DEF TimeInv

\* A try that is given up was paid for when the lookup began.
LEMMA TimeRetry ==
  ASSUME TypeOK, TimeInv, retry
  PROVE  TimeInv'
<1>1. /\ pc' = pc /\ pc # "select" /\ left = 0 /\ left' = K /\ tries' = tries - 1
      /\ timeout' = timeout /\ age' = age /\ events' = events /\ looked' = looked
  BY DEF retry, ask
<1>2. tries' * K = tries * K - K /\ tries * K \in Int
  BY <1>1, Distributes, RegistrationAssumption DEF TypeOK
<1>3. ASSUME pc = "show", events = 1
      PROVE  age' + left' + tries' * K + timeout' * K <= R * K + K - 1 + Tries * K
  <2>1. age + left + tries * K + timeout * K <= R * K + K - 1 + Tries * K
    BY <1>3 DEF TimeInv
  <2>2. age \in Int /\ timeout * K \in Int
    BY LongAgeOK, Distributes DEF TypeOK
  <2>3. timeout' * K = timeout * K
    BY <1>1
  <2> QED
    BY <1>1, <1>2, <2>1, <2>2, <2>3, RegistrationAssumption
<1> QED
  BY <1>1, <1>3, RegistrationAssumption DEF TimeInv

\* The main loop waits again, with the timer that was set before the lookup.
LEMMA TimeTake ==
  ASSUME TypeOK, TimeInv, take_answer
  PROVE  TimeInv'
<1>1. /\ pc' = "select" /\ left' = timeout * K /\ timeout' = timeout
      /\ timeout \in 0 .. R /\ timeout * K \in Nat
  <2>1. timeout \in 0 .. R
    BY DEF TimeInv
  <2>2. timeout * K \in Nat
    BY <2>1, RegistrationAssumption
  <2> QED
    BY <2>1, <2>2 DEF take_answer
<1>2. CASE pc = "start"
  <2>1. age' = 0 /\ events' = 0 /\ ~ looked'
    BY <1>2 DEF take_answer, register
  <2> QED
    BY <1>1, <2>1 DEF TimeInv
<1>3. CASE pc = "show"
  <2>1. age' = age /\ events' = events /\ looked' = looked
    BY <1>3 DEF take_answer
  <2>2. events # 0 /\ looked
    BY <1>3 DEF TimeInv
  <2>3. ASSUME events = 1
        PROVE  age + timeout * K <= R * K + K - 1 + Tries * K
    <3>1. age + left + tries * K + timeout * K <= R * K + K - 1 + Tries * K
      BY <1>3, <2>3 DEF TimeInv
    <3>2. tries * K \in Nat /\ left \in Nat /\ age \in Int
      BY LongAgeOK, RegistrationAssumption DEF TypeOK, TimeInv
    <3>3. R * K \in Int /\ Tries * K \in Int
      BY RegistrationAssumption
    <3> QED
      BY <1>1, <3>1, <3>2, <3>3, RegistrationAssumption
  <2> QED
    BY <1>1, <2>1, <2>2, <2>3 DEF TimeInv
<1> QED
  BY <1>2, <1>3 DEF take_answer

\* A tick is one more since the REG and one less to wait.
LEMMA TimeTick ==
  ASSUME TypeOK, TimeInv, Tick
  PROVE  TimeInv'
<1>1. /\ left > 0 /\ left' = left - 1 /\ age' <= age + 1 /\ age' \in Int /\ age \in Int
      /\ pc' = pc /\ timeout' = timeout /\ tries' = tries /\ events' = events
      /\ looked' = looked /\ left \in Int
  BY LongAgeOK DEF Tick, TypeOK
<1>2. /\ timeout * K \in Int /\ tries * K \in Int /\ R * K \in Int /\ Tries * K \in Int
  BY RegistrationAssumption DEF TypeOK
<1>3. timeout' * K = timeout * K /\ tries' * K = tries * K
  BY <1>1
<1>4. age' + left' <= age + left /\ age + left \in Int /\ age' + left' \in Int
  <2>1. left' = left - 1 /\ left' \in Int /\ left \in Int
    BY <1>1
  <2>2. age' <= age + 1 /\ age' \in Int /\ age \in Int
    BY <1>1
  <2> QED
    BY <2>1, <2>2, OneMoreOneLess
<1>5. pc = "select" => left' <= timeout' * K
  BY <1>1, <1>2, <1>3 DEF TimeInv
<1>6. pc = "select" /\ events = 0 => ~ looked /\ age' + left' <= timeout' * K
  BY <1>1, <1>2, <1>3, <1>4 DEF TimeInv
<1>7. pc = "select" /\ events = 1 =>
        age' + left' <= R * K + K - 1 + (IF looked THEN Tries * K ELSE 0)
  <2> DEFINE bound == R * K + K - 1 + (IF looked THEN Tries * K ELSE 0)
  <2>1. bound \in Int
    BY <1>2, RegistrationAssumption
  <2>2. pc = "select" /\ events = 1 => age + left <= bound
    BY DEF TimeInv
  <2> HIDE DEF bound
  <2>3. pc = "select" /\ events = 1 => age' + left' <= bound
    BY <1>4, <2>1, <2>2
  <2> QED
    BY <2>3 DEF bound
<1>8. pc = "show" /\ events = 1 =>
        age' + left' + tries' * K + timeout' * K <= R * K + K - 1 + Tries * K
  BY <1>1, <1>2, <1>3, <1>4, RegistrationAssumption DEF TimeInv
<1> QED
  BY <1>1, <1>5, <1>6, <1>7, <1>8 DEF TimeInv

LEMMA TimeAlways == Spec => []TimeInv
<1>1. ASSUME TypeOK, TimeInv, [Next]_vars PROVE TimeInv'
  <2>1. ASSUME \/ UNCHANGED vars
               \/ idserver
               \/ \E answer \in {"old", "fresh"} : arrive(answer)
               \/ \E kind \in DOMAIN flight : lose(kind)
        PROVE  TimeInv'
    <3>1. /\ pc' = pc /\ timeout' = timeout /\ left' = left /\ tries' = tries
          /\ age' = age /\ events' = events /\ looked' = looked
      BY <2>1 DEF vars, idserver, arrive, lose, timer, history
    <3> QED
      BY <1>1, <3>1 DEF TimeInv
  <2>2. CASE exit \/ give_up
    <3>1. pc' = "off" /\ timeout' = timeout /\ left' = left
      BY <2>2 DEF exit, give_up, timer
    <3> QED
      BY <1>1, <3>1 DEF TimeInv
  <2> QED
    BY <1>1, <2>1, <2>2, TimeRegister, TimeOther, TimeShow, TimeRetry, TimeTake, TimeTick
    DEF Next, msgserv
<1> QED
  BY <1>1, TimeInit, RegistrationTypeOK, PTL DEF Spec

\* select() never gets a negative timeout from the clock's rounding, whatever
\* the argument -r: main() always has a valid timer.
THEOREM RegistrationTimerNotNegative == Spec => []TimerNotNegative
<1>1. TimeInv => TimerNotNegative
  BY DEF TimeInv, TimerNotNegative
<1> QED
  BY <1>1, TimeAlways, PTL

\* The REG of the timer comes less than a second late after one interruption,
\* and less than a second and the tries of its lookup after a show_servers.
THEOREM RegistrationInterruptedOnce == Spec => []RegEveryRIfInterruptedOnce
<1>1. TypeOK /\ TimeInv => RegEveryRIfInterruptedOnce
  <2> SUFFICES ASSUME TypeOK, TimeInv, pc = "select", events < 2
               PROVE  age < (R + 1) * K + (IF looked THEN Tries * K ELSE 0)
    BY DEF RegEveryRIfInterruptedOnce
  <2>1. /\ age \in Int /\ left \in Nat /\ R * K \in Int /\ Tries * K \in Int
        /\ (R + 1) * K = R * K + K
    BY LongAgeOK, Distributes, RegistrationAssumption DEF TypeOK, TimeInv
  <2>2. CASE events = 0
    <3>1. ~ looked /\ age + left <= timeout * K
      BY <2>2 DEF TimeInv
    <3>2. timeout * K <= R * K /\ timeout * K \in Int
      BY RegistrationAssumption DEF TypeOK, TimeInv
    <3> QED
      BY <2>1, <3>1, <3>2, RegistrationAssumption
  <2>3. CASE events = 1
    <3>1. age + left <= R * K + K - 1 + (IF looked THEN Tries * K ELSE 0)
      BY <2>3 DEF TimeInv
    <3> QED
      BY <2>1, <3>1, RegistrationAssumption
  <2> QED
    BY <2>2, <2>3 DEF TypeOK
<1> QED
  BY <1>1, TimeAlways, RegistrationTypeOK, PTL
=============================================================================
