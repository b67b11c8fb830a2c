-------------------------- MODULE CredentialsProofs --------------------------
(***************************************************************************)
(* Proofs about Credentials, for any users and any bounds: a stream that   *)
(* is open speaks for the user of the sync engine, whatever overtakes the  *)
(* token it asked for.                                                     *)
(***************************************************************************)
EXTENDS Credentials, SequenceTheorems, TLAPS

----------------------------------------------------------------------------
(***************************************************************************)
(* Queues.                                                                 *)
(***************************************************************************)
\* A queue without its head.
LEMMA Popped ==
  ASSUME NEW S, NEW s \in Seq(S), s # <<>>
  PROVE  /\ Tail(s) \in Seq(S) /\ Len(Tail(s)) = Len(s) - 1 /\ Len(s) \in Nat \ {0}
         /\ Len(Tail(s)) \in Nat
         /\ \A i \in 1 .. Len(Tail(s)) : i + 1 \in 1 .. Len(s) /\ Tail(s)[i] = s[i + 1]
         /\ Head(s) = s[1] /\ Head(s) \in S /\ 1 \in 1 .. Len(s)
<1>1. /\ Tail(s) \in Seq(S) /\ Len(Tail(s)) = Len(s) - 1 /\ Head(s) \in S
      /\ \A i \in 1 .. Len(Tail(s)) : Tail(s)[i] = s[i + 1]
  BY HeadTailProperties
<1>2. Len(s) \in Nat /\ Head(s) = s[1]
  BY LenProperties
<1>3. Len(s) # 0
  BY EmptySeq
<1> QED
  BY <1>1, <1>2, <1>3

\* A queue with one more element.
LEMMA Appended ==
  ASSUME NEW S, NEW s \in Seq(S), NEW x \in S
  PROVE  /\ Append(s, x) \in Seq(S) /\ Len(Append(s, x)) = Len(s) + 1 /\ Len(s) \in Nat
         /\ \A i \in 1 .. Len(s) : i \in 1 .. Len(Append(s, x)) /\ Append(s, x)[i] = s[i]
         /\ Append(s, x)[Len(s) + 1] = x
         /\ \A i \in 1 .. Len(Append(s, x)) : i \in 1 .. Len(s) \/ i = Len(s) + 1
         /\ Append(s, x) # <<>>
<1>1. /\ Append(s, x) \in Seq(S) /\ Len(Append(s, x)) = Len(s) + 1 /\ Len(s) \in Nat
      /\ \A i \in 1 .. Len(s) : Append(s, x)[i] = s[i]
      /\ Append(s, x)[Len(s) + 1] = x
  BY AppendProperties, LenProperties
<1>2. Append(s, x) # <<>>
  BY <1>1, EmptySeq
<1> QED
  BY <1>1, <1>2

\* Two elements are appended one after the other.
LEMMA TwoAppended ==
  ASSUME NEW S, NEW s \in Seq(S), NEW x \in S, NEW y \in S
  PROVE  s \o <<x, y>> = Append(Append(s, x), y)
OBVIOUS

\* Among the first n elements of s, u is the user of the last one of kind op,
\* or b when there is none.
Latest(s, op, b, n, u) ==
  /\ (\A j \in 1 .. n : s[j].op # op) => u = b
  /\ \A j \in 1 .. n :
       s[j].op = op /\ (\A k \in 1 .. n : k > j => s[k].op # op) => s[j].user = u

\* That does not depend on what is appended behind them,
LEMMA LatestKept ==
  ASSUME NEW S, NEW s \in Seq(S), NEW x \in S, NEW op, NEW b, NEW u,
         NEW n \in 0 .. Len(s), Latest(s, op, b, n, u)
  PROVE  Latest(Append(s, x), op, b, n, u)
<1>1. \A i \in 1 .. n : Append(s, x)[i] = s[i]
  BY Appended
<1> QED
  BY <1>1 DEF Latest

\* nor on an appended element of another kind;
LEMMA LatestAppended ==
  ASSUME NEW S, NEW s \in Seq(S), NEW x \in S, NEW op, NEW b, NEW u,
         Latest(s, op, b, Len(s), u), x.op # op
  PROVE  Latest(Append(s, x), op, b, Len(s) + 1, u)
<1> DEFINE t == Append(s, x)
           n == Len(s)
<1>1. /\ n \in Nat /\ t[n + 1] = x
      /\ \A i \in 1 .. n : i \in 1 .. n + 1 /\ t[i] = s[i]
      /\ \A i \in 1 .. n + 1 : i \in 1 .. n \/ i = n + 1
  BY Appended
<1> HIDE DEF t, n
<1>2. (\A j \in 1 .. n + 1 : t[j].op # op) => u = b
  BY <1>1 DEF Latest, n
<1>3. ASSUME NEW j \in 1 .. n + 1, t[j].op = op,
             \A k \in 1 .. n + 1 : k > j => t[k].op # op
      PROVE  t[j].user = u
  BY <1>1, <1>3 DEF Latest, n
<1>4. Latest(t, op, b, n + 1, u)
  BY <1>2, <1>3 DEF Latest
<1> QED
  BY <1>4 DEF t, n

\* one of its own kind is the last.
LEMMA LatestIsNew ==
  ASSUME NEW S, NEW s \in Seq(S), NEW x \in S, NEW op, NEW b, x.op = op
  PROVE  Latest(Append(s, x), op, b, Len(s) + 1, x.user)
<1> DEFINE t == Append(s, x)
           n == Len(s)
<1>1. n \in Nat /\ t[n + 1] = x /\ (\A i \in 1 .. n + 1 : i \in 1 .. n \/ i = n + 1)
  BY Appended
<1> HIDE DEF t, n
<1>2. n + 1 \in 1 .. n + 1 /\ \A j \in 1 .. n : n + 1 > j
  BY <1>1
<1>3. Latest(t, op, b, n + 1, x.user)
  BY <1>1, <1>2 DEF Latest
<1> QED
  BY <1>3 DEF t, n

\* The head of a queue becomes the base.
LEMMA LatestPopped ==
  ASSUME NEW S, NEW s \in Seq(S), s # <<>>, NEW op, NEW b, NEW u,
         NEW n \in Nat, n + 1 <= Len(s), Latest(s, op, b, n + 1, u)
  PROVE  Latest(Tail(s), op, IF Head(s).op = op THEN Head(s).user ELSE b, n, u)
<1> DEFINE t == Tail(s)
           c == IF Head(s).op = op THEN Head(s).user ELSE b
<1>1. /\ Head(s) = s[1]
      /\ \A i \in 1 .. n : t[i] = s[i + 1] /\ i + 1 \in 1 .. n + 1
      /\ \A i \in 1 .. n + 1 : i = 1 \/ (i - 1 \in 1 .. n /\ t[i - 1] = s[i])
      /\ 1 \in 1 .. n + 1
  <2>1. /\ Len(t) = Len(s) - 1 /\ Len(s) \in Nat /\ Head(s) = s[1]
        /\ \A i \in 1 .. Len(t) : t[i] = s[i + 1]
    BY Popped
  <2> HIDE DEF t
  <2> QED
    BY <2>1
<1> HIDE DEF t
<1>2. ASSUME \A j \in 1 .. n : t[j].op # op PROVE u = c
  <2>1. \A k \in 1 .. n + 1 : k # 1 => s[k].op # op
    BY <1>1, <1>2
  <2>2. CASE Head(s).op = op
    <3>1. \A k \in 1 .. n + 1 : k > 1 => s[k].op # op
      BY <2>1
    <3> QED
      BY <1>1, <2>2, <3>1 DEF Latest
  <2>3. CASE Head(s).op # op
    BY <1>1, <2>1, <2>3 DEF Latest
  <2> QED
    BY <2>2, <2>3
<1> HIDE DEF c
<1>3. ASSUME NEW j \in 1 .. n, t[j].op = op,
             \A k \in 1 .. n : k > j => t[k].op # op
      PROVE  t[j].user = u
  <2>1. s[j + 1].op = op /\ j + 1 \in 1 .. n + 1
    BY <1>1, <1>3
  <2>2. ASSUME NEW k \in 1 .. n + 1, k > j + 1 PROVE s[k].op # op
    <3>1. k # 1 /\ k - 1 > j /\ k - 1 \in 1 .. n
      BY <2>2
    <3>2. t[k - 1].op # op
      BY <1>3, <3>1
    <3>3. t[k - 1] = s[k]
      BY <1>1, <3>1
    <3> QED
      BY <3>2, <3>3
  <2> QED
    BY <1>1, <2>1, <2>2 DEF Latest
<1>4. Latest(t, op, c, n, u)
  BY <1>2, <1>3 DEF Latest
<1> QED
  BY <1>4 DEF t, c

----------------------------------------------------------------------------
(***************************************************************************)
(* The inductive invariant: m, p, wk and s are the values of main,         *)
(* provider, work and stream, as those of asks.                            *)
(***************************************************************************)
Message == [op : {"changed", "signedIn"}, user : Anyone]
           \cup [op : {"token"}, token : Token, closes : Nat, counter : Nat]
Job     == [op : {"user"}, user : Anyone]
           \cup [op : {"write"}, user : Users, heard : BOOLEAN]
           \cup [op : {"resume"}, token : Token, user : Anyone, closes : Nat]
Request == [closes : Nat, counter : Nat, at : {"queued", "fetching"}, user : Anyone]

\* Before its client is created the provider hears of nothing.
Uncreated(p, as, wk, s) ==
  ~p.created => p.counter = 0 /\ as = {} /\ wk = <<>> /\ s.state = "Initial"

\* The provider will know the user of Auth when it has heard all news.
News(m, p, cur) ==
  Latest(m, "changed", IF p.created THEN p.user ELSE cur, Len(m), cur)

\* The callback of a sign-in comes right after its news.
Callbacks(m, p) ==
  \A i \in 1 .. Len(m) : m[i].op = "signedIn" =>
    /\ m[i].user \in Users
    /\ i = 1 /\ p.counter > 0 => p.user = m[1].user
    /\ i > 1 => m[i - 1] = Changed(m[i].user)

NoNews(m, n) == \A j \in 1 .. n : m[j].op # "changed"

\* A request that no news can overtake any longer is for the user of Auth,
Asked(as, m, p, cur) ==
  \A a \in as :
    /\ a.counter <= p.counter
    /\ a.at = "fetching" /\ a.counter = p.counter /\ NoNews(m, Len(m)) => a.user = cur

\* and an answer that none will precede is the token of the provider's user.
Answers(m, p) ==
  \A i \in 1 .. Len(m) : m[i].op = "token" =>
    /\ p.created
    /\ m[i].counter <= p.counter
    /\ m[i].counter = p.counter /\ NoNews(m, i - 1) => m[i].token \in {Failed, p.user}

\* The engine will be for the provider's user when the worker queue has run.
Handed(wk, p, e) == p.created => Latest(wk, "user", e, Len(wk), p.user)

Owned(j) == j.op = "resume" \/ (j.op = "write" /\ j.heard)

\* What is queued for a user finds the engine at that user.
Owners(wk, e) ==
  \A i \in 1 .. Len(wk) : Owned(wk[i]) => Latest(wk, "user", e, i - 1, wk[i].user)

Tokens(wk) ==
  \A i \in 1 .. Len(wk) : wk[i].op = "resume" => wk[i].token \in {Failed, wk[i].user}

\* Requests, answers and resumptions of the close count n.
Answering(m, n, i) == m[i].op = "token" /\ m[i].closes = n

Resuming(wk, n, i) == wk[i].op = "resume" /\ wk[i].closes = n

Nothing(as, m, wk, n) ==
  /\ \A a \in as : a.closes # n
  /\ \A i \in 1 .. Len(m) : ~Answering(m, n, i)
  /\ \A i \in 1 .. Len(wk) : ~Resuming(wk, n, i)

Single(as, m, wk, n) ==
  /\ \A a, b \in as : a.closes = n /\ b.closes = n => a = b
  /\ \A i, j \in 1 .. Len(m) : Answering(m, n, i) /\ Answering(m, n, j) => i = j
  /\ \A i, j \in 1 .. Len(wk) : Resuming(wk, n, i) /\ Resuming(wk, n, j) => i = j
  /\ \A a \in as : a.closes = n =>
       /\ \A i \in 1 .. Len(m) : ~Answering(m, n, i)
       /\ \A i \in 1 .. Len(wk) : ~Resuming(wk, n, i)
  /\ \A i \in 1 .. Len(m), j \in 1 .. Len(wk) : ~(Answering(m, n, i) /\ Resuming(wk, n, j))

UpTo(as, m, wk, n) ==
  /\ \A a \in as : a.closes <= n
  /\ \A i \in 1 .. Len(m) : m[i].op = "token" => m[i].closes <= n
  /\ \A i \in 1 .. Len(wk) : wk[i].op = "resume" => wk[i].closes <= n

\* A stream waits for one token at a time, and only while it is starting.
Waiting(as, m, wk, s) ==
  /\ UpTo(as, m, wk, s.closes)
  /\ s.state = "Starting" => Single(as, m, wk, s.closes)
  /\ s.state # "Starting" => Nothing(as, m, wk, s.closes)

Speaks(s, e) == s.state = "Open" => s.token = e

\* The invariants of the main queue.
Main(m, p, cur, as) ==
  News(m, p, cur) /\ Callbacks(m, p) /\ Asked(as, m, p, cur) /\ Answers(m, p)

\* The invariants of the worker queue.
Worker(wk, p, e) == Handed(wk, p, e) /\ Owners(wk, e) /\ Tokens(wk)

CInv ==
  /\ TypeOK
  /\ Uncreated(provider, asks, work, stream)
  /\ Main(main, provider, current, asks)
  /\ Worker(work, provider, engine)
  /\ Waiting(asks, main, work, stream)
  /\ Speaks(stream, engine)

----------------------------------------------------------------------------
(***************************************************************************)
(* The main queue: what is put there.                                      *)
(***************************************************************************)
\* The messages are told apart by their kinds.
LEMMA MessageKinds ==
  ASSUME NEW x \in Message
  PROVE  /\ x.op \in {"changed", "signedIn", "token"}
         /\ x.op # "token" => x.user \in Anyone
         /\ x.op = "token" => x.token \in Token /\ x.closes \in Nat /\ x.counter \in Nat
<1>1. CASE x \in [op : {"changed", "signedIn"}, user : Anyone]
  BY <1>1
<1>2. CASE x \in [op : {"token"}, token : Token, closes : Nat, counter : Nat]
  BY <1>2
<1> QED
  BY <1>1, <1>2 DEF Message

\* Each message is one.
LEMMA MessagesMade ==
  /\ \A u \in Anyone : /\ Changed(u) \in Message /\ SignedIn(u) \in Message
                       /\ Changed(u).op = "changed" /\ Changed(u).user = u
                       /\ SignedIn(u).op = "signedIn" /\ SignedIn(u).user = u
  /\ \A a \in Request, t \in Token :
       /\ Answer(a, t) \in Message /\ Answer(a, t).op = "token" /\ Answer(a, t).token = t
       /\ Answer(a, t).closes = a.closes /\ Answer(a, t).counter = a.counter
<1>1. ASSUME NEW u \in Anyone
      PROVE  /\ Changed(u) \in [op : {"changed", "signedIn"}, user : Anyone]
             /\ SignedIn(u) \in [op : {"changed", "signedIn"}, user : Anyone]
             /\ Changed(u).op = "changed" /\ Changed(u).user = u
             /\ SignedIn(u).op = "signedIn" /\ SignedIn(u).user = u
  BY DEF Changed, SignedIn
<1>2. ASSUME NEW a \in Request, NEW t \in Token
      PROVE  /\ Answer(a, t) \in [op : {"token"}, token : Token, closes : Nat, counter : Nat]
             /\ Answer(a, t).op = "token" /\ Answer(a, t).token = t
             /\ Answer(a, t).closes = a.closes /\ Answer(a, t).counter = a.counter
  <2>1. a.closes \in Nat /\ a.counter \in Nat
    BY DEF Request
  <2> QED
    BY <2>1 DEF Answer
<1> QED
  BY <1>1, <1>2 DEF Message

\* The announcement of user u: no request is up to date any longer.
LEMMA AnnouncementKeeps ==
  ASSUME NEW m \in Seq(Message), NEW p, NEW cur, NEW as, NEW u \in Anyone,
         Callbacks(m, p), Asked(as, m, p, cur), Answers(m, p)
  PROVE  LET n == Append(m, Changed(u))
         IN  /\ n \in Seq(Message) /\ n # <<>> /\ n[Len(n)] = Changed(u)
             /\ News(n, p, u) /\ Callbacks(n, p) /\ Asked(as, n, p, u) /\ Answers(n, p)
<1> DEFINE x == Changed(u)
           n == Append(m, x)
<1>1. x \in Message /\ x.op = "changed" /\ x.user = u
  BY MessagesMade
<1> HIDE DEF x
<1>2. /\ n \in Seq(Message) /\ Len(n) = Len(m) + 1 /\ Len(m) \in Nat
      /\ \A i \in 1 .. Len(m) : i \in 1 .. Len(n) /\ n[i] = m[i]
      /\ n[Len(m) + 1] = x
      /\ \A i \in 1 .. Len(n) : i \in 1 .. Len(m) \/ i = Len(m) + 1
      /\ n # <<>>
  BY <1>1, Appended
<1>3. Latest(n, "changed", IF p.created THEN p.user ELSE u, Len(m) + 1, u)
  BY <1>1, LatestIsNew
<1> HIDE DEF n
<1>4. News(n, p, u)
  BY <1>2, <1>3 DEF News
<1>5. ~NoNews(n, Len(n))
  BY <1>1, <1>2 DEF NoNews
<1>6. Asked(as, n, p, u)
  BY <1>5 DEF Asked
<1>7. \A i \in 1 .. Len(m) : \A j \in 1 .. i : n[j] = m[j]
  BY <1>2
<1>8. Callbacks(n, p)
  <2> SUFFICES ASSUME NEW i \in 1 .. Len(n), n[i].op = "signedIn"
               PROVE  /\ n[i].user \in Users
                      /\ i = 1 /\ p.counter > 0 => p.user = n[1].user
                      /\ i > 1 => n[i - 1] = Changed(n[i].user)
    BY DEF Callbacks
  <2>1. i \in 1 .. Len(m)
    BY <1>1, <1>2
  <2>2. n[i] = m[i] /\ (i = 1 => n[1] = m[1]) /\ (i > 1 => n[i - 1] = m[i - 1])
    BY <1>7, <2>1
  <2> QED
    BY <2>1, <2>2 DEF Callbacks
<1>9. Answers(n, p)
  <2> SUFFICES ASSUME NEW i \in 1 .. Len(n), n[i].op = "token"
               PROVE  /\ p.created /\ n[i].counter <= p.counter
                      /\ n[i].counter = p.counter /\ NoNews(n, i - 1)
                           => n[i].token \in {Failed, p.user}
    BY DEF Answers
  <2>1. i \in 1 .. Len(m) /\ n[i] = m[i]
    BY <1>1, <1>2
  <2>2. NoNews(n, i - 1) => NoNews(m, i - 1)
    BY <1>7, <2>1 DEF NoNews
  <2> QED
    BY <2>1, <2>2 DEF Answers
<1> QED
  BY <1>2, <1>4, <1>6, <1>8, <1>9 DEF n, x

\* The callback of a sign-in, right after its announcement.
LEMMA CallbackKeeps ==
  ASSUME NEW m \in Seq(Message), NEW p, NEW as, NEW u \in Users,
         m # <<>>, m[Len(m)] = Changed(u),
         News(m, p, u), Callbacks(m, p), Asked(as, m, p, u), Answers(m, p)
  PROVE  LET n == Append(m, SignedIn(u))
         IN  /\ n \in Seq(Message)
             /\ News(n, p, u) /\ Callbacks(n, p) /\ Asked(as, n, p, u) /\ Answers(n, p)
<1> DEFINE x == SignedIn(u)
           n == Append(m, x)
<1>1. x \in Message /\ x.op = "signedIn" /\ x.user = u /\ Changed(u).op = "changed"
  BY MessagesMade DEF Anyone
<1> HIDE DEF x
<1>2. /\ n \in Seq(Message) /\ Len(n) = Len(m) + 1 /\ Len(m) \in Nat
      /\ \A i \in 1 .. Len(m) : i \in 1 .. Len(n) /\ n[i] = m[i]
      /\ n[Len(m) + 1] = x
      /\ \A i \in 1 .. Len(n) : i \in 1 .. Len(m) \/ i = Len(m) + 1
  BY <1>1, Appended
<1>3. Latest(n, "changed", IF p.created THEN p.user ELSE u, Len(m) + 1, u)
  BY <1>1, LatestAppended DEF News
<1> HIDE DEF n
<1>4. News(n, p, u)
  BY <1>2, <1>3 DEF News
<1>5. Len(m) \in 1 .. Len(m)
  BY Popped
<1>6. ~NoNews(n, Len(n))
  BY <1>1, <1>2, <1>5 DEF NoNews
<1>7. Asked(as, n, p, u)
  BY <1>6 DEF Asked
<1>8. \A i \in 1 .. Len(m) : \A j \in 1 .. i : n[j] = m[j]
  BY <1>2
<1>9. Callbacks(n, p)
  <2> SUFFICES ASSUME NEW i \in 1 .. Len(n), n[i].op = "signedIn"
               PROVE  /\ n[i].user \in Users
                      /\ i = 1 /\ p.counter > 0 => p.user = n[1].user
                      /\ i > 1 => n[i - 1] = Changed(n[i].user)
    BY DEF Callbacks
  <2>1. CASE i \in 1 .. Len(m)
    <3>1. n[i] = m[i] /\ (i = 1 => n[1] = m[1]) /\ (i > 1 => n[i - 1] = m[i - 1])
      BY <1>8, <2>1
    <3> QED
      BY <2>1, <3>1 DEF Callbacks
  <2>2. CASE i = Len(m) + 1
    <3>1. i > 1 /\ i - 1 = Len(m) /\ n[Len(m)] = m[Len(m)] /\ n[i] = x
      BY <1>2, <1>5, <2>2
    <3> QED
      BY <1>1, <3>1
  <2> QED
    BY <1>2, <2>1, <2>2
<1>10. Answers(n, p)
  <2> SUFFICES ASSUME NEW i \in 1 .. Len(n), n[i].op = "token"
               PROVE  /\ p.created /\ n[i].counter <= p.counter
                      /\ n[i].counter = p.counter /\ NoNews(n, i - 1)
                           => n[i].token \in {Failed, p.user}
    BY DEF Answers
  <2>1. i \in 1 .. Len(m) /\ n[i] = m[i]
    BY <1>1, <1>2
  <2>2. NoNews(n, i - 1) => NoNews(m, i - 1)
    BY <1>8, <2>1 DEF NoNews
  <2> QED
    BY <2>1, <2>2 DEF Answers
<1> QED
  BY <1>2, <1>4, <1>7, <1>9, <1>10 DEF n, x

\* The answer to a request: t is the token of the provider's user unless the
\* request was overtaken.
LEMMA AnswerKeeps ==
  ASSUME NEW m \in Seq(Message), NEW p, NEW cur, NEW as, NEW a \in Request, NEW t \in Token,
         News(m, p, cur), Callbacks(m, p), Asked(as, m, p, cur), Answers(m, p),
         p.created, a.counter <= p.counter,
         a.counter = p.counter /\ NoNews(m, Len(m)) => t \in {Failed, p.user}
  PROVE  LET n == Append(m, Answer(a, t))
         IN  /\ n \in Seq(Message)
             /\ News(n, p, cur) /\ Callbacks(n, p) /\ Asked(as, n, p, cur) /\ Answers(n, p)
<1> DEFINE x == Answer(a, t)
           n == Append(m, x)
<1>1. /\ x \in Message /\ x.op = "token" /\ x.counter = a.counter /\ x.token = t
  BY MessagesMade
<1> HIDE DEF x
<1>2. /\ n \in Seq(Message) /\ Len(n) = Len(m) + 1 /\ Len(m) \in Nat
      /\ \A i \in 1 .. Len(m) : i \in 1 .. Len(n) /\ n[i] = m[i]
      /\ n[Len(m) + 1] = x
      /\ \A i \in 1 .. Len(n) : i \in 1 .. Len(m) \/ i = Len(m) + 1
  BY <1>1, Appended
<1>3. Latest(n, "changed", IF p.created THEN p.user ELSE cur, Len(m) + 1, cur)
  BY <1>1, LatestAppended DEF News
<1> HIDE DEF n
<1>4. News(n, p, cur)
  BY <1>2, <1>3 DEF News
<1>5. NoNews(n, Len(n)) => NoNews(m, Len(m))
  BY <1>2 DEF NoNews
<1>6. Asked(as, n, p, cur)
  BY <1>5 DEF Asked
<1>7. \A i \in 1 .. Len(m) : \A j \in 1 .. i : n[j] = m[j]
  BY <1>2
<1>8. Callbacks(n, p)
  <2> SUFFICES ASSUME NEW i \in 1 .. Len(n), n[i].op = "signedIn"
               PROVE  /\ n[i].user \in Users
                      /\ i = 1 /\ p.counter > 0 => p.user = n[1].user
                      /\ i > 1 => n[i - 1] = Changed(n[i].user)
    BY DEF Callbacks
  <2>1. i \in 1 .. Len(m)
    BY <1>1, <1>2
  <2>2. n[i] = m[i] /\ (i = 1 => n[1] = m[1]) /\ (i > 1 => n[i - 1] = m[i - 1])
    BY <1>7, <2>1
  <2> QED
    BY <2>1, <2>2 DEF Callbacks
<1>9. Answers(n, p)
  <2> SUFFICES ASSUME NEW i \in 1 .. Len(n), n[i].op = "token"
               PROVE  /\ p.created /\ n[i].counter <= p.counter
                      /\ n[i].counter = p.counter /\ NoNews(n, i - 1)
                           => n[i].token \in {Failed, p.user}
    BY DEF Answers
  <2>1. CASE i \in 1 .. Len(m)
    <3>1. n[i] = m[i] /\ (NoNews(n, i - 1) => NoNews(m, i - 1))
      BY <1>7, <2>1 DEF NoNews
    <3> QED
      BY <2>1, <3>1 DEF Answers
  <2>2. CASE i = Len(m) + 1
    <3>1. i - 1 = Len(m) /\ n[i] = x /\ (NoNews(n, Len(m)) => NoNews(m, Len(m)))
      BY <1>2, <2>2 DEF NoNews
    <3> QED
      BY <1>1, <3>1
  <2> QED
    BY <1>2, <2>1, <2>2
<1> QED
  BY <1>2, <1>4, <1>6, <1>8, <1>9 DEF n, x

----------------------------------------------------------------------------
(***************************************************************************)
(* The way of a token: request, answer, resumption.                        *)
(***************************************************************************)
\* From <<as, m, wk>> to <<bs, n, vk>> a token moves on or is given up, and no
\* other appears.
MovesOn(as, m, wk, bs, n, vk) ==
  \A c : /\ UpTo(as, m, wk, c) => UpTo(bs, n, vk, c)
         /\ Single(as, m, wk, c) => Single(bs, n, vk, c)
         /\ Nothing(as, m, wk, c) => Nothing(bs, n, vk, c)

\* Then the stream still waits for one.
LEMMA StillWaiting ==
  ASSUME NEW as, NEW m, NEW wk, NEW bs, NEW n, NEW vk, NEW s,
         MovesOn(as, m, wk, bs, n, vk), Waiting(as, m, wk, s)
  PROVE  Waiting(bs, n, vk, s)
BY DEF MovesOn, Waiting

\* News and callbacks are put on the main queue.
LEMMA QuietMessage ==
  ASSUME NEW as, NEW m \in Seq(Message), NEW wk, NEW x \in Message, x.op # "token"
  PROVE  MovesOn(as, m, wk, as, Append(m, x), wk)
<1> DEFINE n == Append(m, x)
<1>1. \A c : \A i \in 1 .. Len(n) :
        n[i].op = "token" => i \in 1 .. Len(m) /\ n[i] = m[i]
  BY Appended
<1> HIDE DEF n
<1>2. MovesOn(as, m, wk, as, n, wk)
  BY <1>1 DEF MovesOn, UpTo, Single, Nothing, Answering
<1> QED
  BY <1>2 DEF n

\* A request is answered.
LEMMA RequestAnswered ==
  ASSUME NEW as, NEW m \in Seq(Message), NEW wk, NEW a \in as, NEW x \in Message,
         x.op = "token", x.closes = a.closes
  PROVE  MovesOn(as, m, wk, as \ {a}, Append(m, x), wk)
<1> DEFINE n == Append(m, x)
           bs == as \ {a}
<1>1. \A i \in 1 .. Len(n) : (i \in 1 .. Len(m) /\ n[i] = m[i]) \/ (i = Len(m) + 1 /\ n[i] = x)
  BY Appended
<1>2. \A b \in bs : b \in as /\ b # a
  OBVIOUS
<1> HIDE DEF n, bs
<1>3. ASSUME NEW c, UpTo(as, m, wk, c) PROVE UpTo(bs, n, wk, c)
  BY <1>1, <1>2, <1>3 DEF UpTo
<1>4. ASSUME NEW c, Nothing(as, m, wk, c) PROVE Nothing(bs, n, wk, c)
  BY <1>1, <1>2, <1>4 DEF Nothing, Answering
<1>5. ASSUME NEW c, Single(as, m, wk, c) PROVE Single(bs, n, wk, c)
  <2>1. CASE a.closes = c
    <3>1. \A b \in bs : b.closes # c
      BY <1>2, <1>5, <2>1 DEF Single
    <3>2. \A i \in 1 .. Len(n) : Answering(n, c, i) => i = Len(m) + 1
      BY <1>1, <1>5, <2>1 DEF Single, Answering
    <3>3. \A i \in 1 .. Len(wk) : ~Resuming(wk, c, i)
      BY <1>5, <2>1 DEF Single
    <3> QED
      BY <1>5, <3>1, <3>2, <3>3 DEF Single
  <2>2. CASE a.closes # c
    <3>1. \A i \in 1 .. Len(n) : Answering(n, c, i) => i \in 1 .. Len(m) /\ Answering(m, c, i)
      BY <1>1, <2>2 DEF Answering
    <3> QED
      BY <1>2, <1>5, <3>1 DEF Single
  <2> QED
    BY <2>1, <2>2
<1>6. MovesOn(as, m, wk, bs, n, wk)
  BY <1>3, <1>4, <1>5 DEF MovesOn
<1> QED
  BY <1>6 DEF n, bs

\* A request is taken up.
LEMMA RequestFetched ==
  ASSUME NEW as, NEW m, NEW wk, NEW a \in as, NEW b, b.closes = a.closes
  PROVE  MovesOn(as, m, wk, (as \ {a}) \cup {b}, m, wk)
<1> DEFINE bs == (as \ {a}) \cup {b}
<1>1. \A x \in bs : (x \in as /\ x # a) \/ x = b
  OBVIOUS
<1> HIDE DEF bs
<1>2. ASSUME NEW c, UpTo(as, m, wk, c) PROVE UpTo(bs, m, wk, c)
  BY <1>1, <1>2 DEF UpTo
<1>3. ASSUME NEW c, Nothing(as, m, wk, c) PROVE Nothing(bs, m, wk, c)
  BY <1>1, <1>3 DEF Nothing
<1>4. ASSUME NEW c, Single(as, m, wk, c) PROVE Single(bs, m, wk, c)
  BY <1>1, <1>4 DEF Single
<1>5. MovesOn(as, m, wk, bs, m, wk)
  BY <1>2, <1>3, <1>4 DEF MovesOn
<1> QED
  BY <1>5 DEF bs

\* A message leaves the main queue.
LEMMA MessageGone ==
  ASSUME NEW as, NEW m \in Seq(Message), NEW wk, m # <<>>
  PROVE  MovesOn(as, m, wk, as, Tail(m), wk)
<1> DEFINE n == Tail(m)
<1>1. \A i \in 1 .. Len(n) : i + 1 \in 1 .. Len(m) /\ n[i] = m[i + 1] /\ i \in Nat
  BY Popped
<1> HIDE DEF n
<1>2. \A c : \A i \in 1 .. Len(n) : Answering(n, c, i) <=> Answering(m, c, i + 1)
  BY <1>1 DEF Answering
<1>3. ASSUME NEW c, UpTo(as, m, wk, c) PROVE UpTo(as, n, wk, c)
  BY <1>1, <1>3 DEF UpTo
<1>4. ASSUME NEW c, Nothing(as, m, wk, c) PROVE Nothing(as, n, wk, c)
  BY <1>1, <1>2, <1>4 DEF Nothing
<1>5. ASSUME NEW c, Single(as, m, wk, c) PROVE Single(as, n, wk, c)
  <2>1. ASSUME NEW i \in 1 .. Len(n), NEW j \in 1 .. Len(n),
               Answering(n, c, i), Answering(n, c, j)
        PROVE  i = j
    <3>1. i + 1 = j + 1
      BY <1>1, <1>2, <1>5, <2>1 DEF Single
    <3> QED
      BY <1>1, <3>1
  <2> QED
    BY <1>1, <1>2, <1>5, <2>1 DEF Single
<1>6. MovesOn(as, m, wk, as, n, wk)
  BY <1>3, <1>4, <1>5 DEF MovesOn
<1> QED
  BY <1>6 DEF n

\* The answer at the head of the main queue leaves no other for its stream.
LEMMA AnswerTaken ==
  ASSUME NEW as, NEW m \in Seq(Message), NEW wk, m # <<>>, Head(m).op = "token",
         NEW c, c = Head(m).closes, Single(as, m, wk, c)
  PROVE  Nothing(as, Tail(m), wk, c)
<1> DEFINE n == Tail(m)
<1>1. /\ \A i \in 1 .. Len(n) : i + 1 \in 1 .. Len(m) /\ n[i] = m[i + 1] /\ i + 1 # 1
      /\ 1 \in 1 .. Len(m) /\ Head(m) = m[1]
  BY Popped
<1> HIDE DEF n
<1>2. Answering(m, c, 1)
  BY <1>1 DEF Answering
<1>3. ASSUME NEW i \in 1 .. Len(n), Answering(n, c, i) PROVE FALSE
  <2>1. Answering(m, c, i + 1) /\ i + 1 \in 1 .. Len(m) /\ i + 1 # 1
    BY <1>1, <1>3 DEF Answering
  <2> QED
    BY <1>1, <1>2, <2>1 DEF Single
<1>4. Nothing(as, n, wk, c)
  BY <1>1, <1>2, <1>3 DEF Nothing, Single
<1> QED
  BY <1>4 DEF n

\* An answer that was overtaken is a request again.
LEMMA AskedAgain ==
  ASSUME NEW as, NEW m \in Seq(Message), NEW wk, m # <<>>, Head(m).op = "token",
         NEW b, b.closes = Head(m).closes
  PROVE  MovesOn(as, m, wk, as \cup {b}, Tail(m), wk)
<1> DEFINE n == Tail(m)
           bs == as \cup {b}
<1>1. MovesOn(as, m, wk, as, n, wk)
  BY MessageGone
<1>2. 1 \in 1 .. Len(m) /\ Head(m) = m[1]
  BY Popped
<1>3. \A c : Single(as, m, wk, c) /\ c = b.closes => Nothing(as, n, wk, c)
  BY AnswerTaken
<1>4. \A x \in bs : x \in as \/ x = b
  OBVIOUS
<1> HIDE DEF n, bs
<1>5. ASSUME NEW c, UpTo(as, m, wk, c) PROVE UpTo(bs, n, wk, c)
  BY <1>1, <1>2, <1>4, <1>5 DEF UpTo, MovesOn
<1>6. ASSUME NEW c, Nothing(as, m, wk, c) PROVE Nothing(bs, n, wk, c)
  <2>1. b.closes # c
    BY <1>2, <1>6 DEF Nothing, Answering
  <2> QED
    BY <1>1, <1>4, <1>6, <2>1 DEF Nothing, MovesOn
<1>7. ASSUME NEW c, Single(as, m, wk, c) PROVE Single(bs, n, wk, c)
  <2>1. Single(as, n, wk, c)
    BY <1>1, <1>7 DEF MovesOn
  <2>2. CASE b.closes = c
    <3>1. Nothing(as, n, wk, c)
      BY <1>3, <1>7, <2>2
    <3> QED
      BY <1>4, <2>1, <3>1 DEF Nothing, Single
  <2>3. CASE b.closes # c
    BY <1>4, <2>1, <2>3 DEF Single
  <2> QED
    BY <2>2, <2>3
<1>8. MovesOn(as, m, wk, bs, n, wk)
  BY <1>5, <1>6, <1>7 DEF MovesOn
<1> QED
  BY <1>8 DEF n, bs

\* Any other answer becomes a resumption.
LEMMA AnswerHandedOn ==
  ASSUME NEW as, NEW m \in Seq(Message), NEW wk \in Seq(Job), m # <<>>, Head(m).op = "token",
         NEW r \in Job, r.op = "resume", r.closes = Head(m).closes
  PROVE  MovesOn(as, m, wk, as, Tail(m), Append(wk, r))
<1> DEFINE n == Tail(m)
           vk == Append(wk, r)
<1>1. MovesOn(as, m, wk, as, n, wk)
  BY MessageGone
<1>2. 1 \in 1 .. Len(m) /\ Head(m) = m[1]
  BY Popped
<1>3. \A c : Single(as, m, wk, c) /\ c = r.closes => Nothing(as, n, wk, c)
  BY AnswerTaken
<1>4. \A i \in 1 .. Len(vk) :
        (i \in 1 .. Len(wk) /\ vk[i] = wk[i]) \/ (i = Len(wk) + 1 /\ vk[i] = r)
  BY Appended
<1> HIDE DEF n, vk
<1>5. ASSUME NEW c, UpTo(as, m, wk, c) PROVE UpTo(as, n, vk, c)
  BY <1>1, <1>2, <1>4, <1>5 DEF UpTo, MovesOn
<1>6. ASSUME NEW c, Nothing(as, m, wk, c) PROVE Nothing(as, n, vk, c)
  <2>1. r.closes # c
    BY <1>2, <1>6 DEF Nothing, Answering
  <2> QED
    BY <1>1, <1>4, <1>6, <2>1 DEF Nothing, MovesOn, Resuming
<1>7. ASSUME NEW c, Single(as, m, wk, c) PROVE Single(as, n, vk, c)
  <2>1. Single(as, n, wk, c)
    BY <1>1, <1>7 DEF MovesOn
  <2>2. CASE r.closes = c
    <3>1. Nothing(as, n, wk, c)
      BY <1>3, <1>7, <2>2
    <3>2. \A i \in 1 .. Len(vk) : Resuming(vk, c, i) => i = Len(wk) + 1
      BY <1>4, <3>1 DEF Nothing, Resuming
    <3> QED
      BY <2>1, <3>1, <3>2 DEF Nothing, Single
  <2>3. CASE r.closes # c
    <3>1. \A i \in 1 .. Len(vk) : Resuming(vk, c, i) => i \in 1 .. Len(wk) /\ Resuming(wk, c, i)
      BY <1>4, <2>3 DEF Resuming
    <3> QED
      BY <2>1, <3>1 DEF Single
  <2> QED
    BY <2>2, <2>3
<1>8. MovesOn(as, m, wk, as, n, vk)
  BY <1>5, <1>6, <1>7 DEF MovesOn
<1> QED
  BY <1>8 DEF n, vk

\* Another job is put on the worker queue.
LEMMA QuietJob ==
  ASSUME NEW as, NEW m, NEW wk \in Seq(Job), NEW x \in Job, x.op # "resume"
  PROVE  MovesOn(as, m, wk, as, m, Append(wk, x))
<1> DEFINE vk == Append(wk, x)
<1>1. \A i \in 1 .. Len(vk) : vk[i].op = "resume" => i \in 1 .. Len(wk) /\ vk[i] = wk[i]
  BY Appended
<1> HIDE DEF vk
<1>2. MovesOn(as, m, wk, as, m, vk)
  BY <1>1 DEF MovesOn, UpTo, Single, Nothing, Resuming
<1> QED
  BY <1>2 DEF vk

\* A job leaves the worker queue; a resumption leaves no other for its stream.
LEMMA JobGone ==
  ASSUME NEW as, NEW m, NEW wk \in Seq(Job), wk # <<>>
  PROVE  /\ MovesOn(as, m, wk, as, m, Tail(wk))
         /\ \A c : Single(as, m, wk, c) /\ Head(wk).op = "resume" /\ Head(wk).closes = c
                     => Nothing(as, m, Tail(wk), c)
<1> DEFINE vk == Tail(wk)
<1>1. /\ \A i \in 1 .. Len(vk) : i + 1 \in 1 .. Len(wk) /\ vk[i] = wk[i + 1] /\ i \in Nat
                                 /\ i + 1 # 1
      /\ 1 \in 1 .. Len(wk) /\ Head(wk) = wk[1]
  BY Popped
<1> HIDE DEF vk
<1>2. \A c : \A i \in 1 .. Len(vk) : Resuming(vk, c, i) <=> Resuming(wk, c, i + 1)
  BY <1>1 DEF Resuming
<1>3. ASSUME NEW c, UpTo(as, m, wk, c) PROVE UpTo(as, m, vk, c)
  BY <1>1, <1>3 DEF UpTo
<1>4. ASSUME NEW c, Nothing(as, m, wk, c) PROVE Nothing(as, m, vk, c)
  BY <1>1, <1>2, <1>4 DEF Nothing
<1>5. ASSUME NEW c, Single(as, m, wk, c) PROVE Single(as, m, vk, c)
  <2>1. ASSUME NEW i \in 1 .. Len(vk), NEW j \in 1 .. Len(vk),
               Resuming(vk, c, i), Resuming(vk, c, j)
        PROVE  i = j
    <3>1. i + 1 = j + 1
      BY <1>1, <1>2, <1>5, <2>1 DEF Single
    <3> QED
      BY <1>1, <3>1
  <2> QED
    BY <1>1, <1>2, <1>5, <2>1 DEF Single
<1>6. ASSUME NEW c, Single(as, m, wk, c), Head(wk).op = "resume", Head(wk).closes = c
      PROVE  Nothing(as, m, vk, c)
  <2>1. Resuming(wk, c, 1)
    BY <1>1, <1>6 DEF Resuming
  <2>2. \A i \in 1 .. Len(vk) : ~Resuming(vk, c, i)
    BY <1>1, <1>2, <1>6, <2>1 DEF Single
  <2> QED
    BY <1>1, <1>6, <2>1, <2>2 DEF Nothing, Single
<1>7. MovesOn(as, m, wk, as, m, vk)
  BY <1>3, <1>4, <1>5 DEF MovesOn
<1> QED
  BY <1>6, <1>7 DEF vk

\* A stream that closes waits for nothing.
LEMMA NothingAfterClose ==
  ASSUME NEW as \in SUBSET Request, NEW m \in Seq(Message), NEW wk \in Seq(Job), NEW n \in Nat,
         UpTo(as, m, wk, n)
  PROVE  UpTo(as, m, wk, n + 1) /\ Nothing(as, m, wk, n + 1)
<1>1. \A a \in as : a.closes \in Nat
  BY DEF Request
<1>2. \A i \in 1 .. Len(m) : m[i].op = "token" => m[i].closes \in Nat
  BY ElementOfSeq, MessageKinds
<1>3. \A i \in 1 .. Len(wk) : wk[i].op = "resume" => wk[i].closes \in Nat
  <2> SUFFICES ASSUME NEW i \in 1 .. Len(wk), wk[i].op = "resume" PROVE wk[i].closes \in Nat
    OBVIOUS
  <2>1. wk[i] \in Job
    BY ElementOfSeq
  <2>2. wk[i] \in [op : {"resume"}, token : Token, user : Anyone, closes : Nat]
    BY <2>1 DEF Job
  <2> QED
    BY <2>2
<1>4. \A k \in Nat : k <= n => k <= n + 1 /\ k # n + 1
  OBVIOUS
<1>5. UpTo(as, m, wk, n + 1)
  BY <1>1, <1>2, <1>3, <1>4 DEF UpTo
<1>6. /\ \A a \in as : a.closes # n + 1
      /\ \A i \in 1 .. Len(m) : ~Answering(m, n + 1, i)
      /\ \A i \in 1 .. Len(wk) : ~Resuming(wk, n + 1, i)
  BY <1>1, <1>2, <1>3, <1>4 DEF UpTo, Answering, Resuming
<1> QED
  BY <1>5, <1>6 DEF Nothing

----------------------------------------------------------------------------
(***************************************************************************)
(* The main queue: what is taken from it.                                  *)
(***************************************************************************)
\* Facts about the rest of the main queue.
LEMMA Rest ==
  ASSUME NEW m \in Seq(Message), m # <<>>
  PROVE  LET n == Tail(m)
         IN  /\ n \in Seq(Message) /\ Len(n) \in Nat /\ Len(m) = Len(n) + 1
             /\ \A i \in 1 .. Len(n) : n[i] = m[i + 1] /\ i + 1 \in 1 .. Len(m)
             /\ Head(m) = m[1] /\ Head(m) \in Message /\ 1 \in 1 .. Len(m)
             /\ \A k \in 0 .. Len(n) :
                  Head(m).op # "changed" /\ NoNews(n, k) => NoNews(m, k + 1)
<1> DEFINE n == Tail(m)
<1>1. /\ n \in Seq(Message) /\ Len(n) \in Nat /\ Len(m) = Len(n) + 1
      /\ \A i \in 1 .. Len(n) : n[i] = m[i + 1] /\ i + 1 \in 1 .. Len(m)
      /\ Head(m) = m[1] /\ Head(m) \in Message /\ 1 \in 1 .. Len(m)
  BY Popped
<1> HIDE DEF n
<1>2. ASSUME NEW k \in 0 .. Len(n), Head(m).op # "changed", NoNews(n, k)
      PROVE  NoNews(m, k + 1)
  <2> SUFFICES ASSUME NEW j \in 1 .. k + 1 PROVE m[j].op # "changed"
    BY DEF NoNews
  <2>1. CASE j = 1
    BY <1>1, <1>2, <2>1
  <2>2. CASE j # 1
    <3>1. j - 1 \in 1 .. k /\ j - 1 \in 1 .. Len(n) /\ (j - 1) + 1 = j
      BY <1>1, <2>2
    <3>2. n[j - 1] = m[j]
      BY <1>1, <3>1
    <3> QED
      BY <1>2, <3>1, <3>2 DEF NoNews
  <2> QED
    BY <2>1, <2>2
<1> QED
  BY <1>1, <1>2 DEF n

\* A message other than news leaves the queue, and the provider as it is.
LEMMA MessageHeard ==
  ASSUME NEW m \in Seq(Message), m # <<>>, NEW p, NEW cur, NEW as, Main(m, p, cur, as),
         Head(m).op # "changed"
  PROVE  Main(Tail(m), p, cur, as)
<1> DEFINE n == Tail(m)
           b == IF p.created THEN p.user ELSE cur
<1>1. /\ n \in Seq(Message) /\ Len(n) \in Nat /\ Len(m) = Len(n) + 1
      /\ \A i \in 1 .. Len(n) : n[i] = m[i + 1] /\ i + 1 \in 1 .. Len(m)
      /\ Head(m) = m[1]
      /\ \A k \in 0 .. Len(n) : NoNews(n, k) => NoNews(m, k + 1)
  BY Rest
<1>2. Latest(m, "changed", b, Len(n) + 1, cur)
  BY <1>1 DEF Main, News
<1> HIDE DEF b
<1>3. Latest(n, "changed", b, Len(n), cur)
  <2>1. Len(n) + 1 <= Len(m)
    BY <1>1
  <2> QED
    BY <1>1, <1>2, <2>1, LatestPopped
<1> HIDE DEF n
<1>4. News(n, p, cur)
  BY <1>3 DEF News, b
<1>5. Callbacks(n, p)
  <2> SUFFICES ASSUME NEW i \in 1 .. Len(n), n[i].op = "signedIn"
               PROVE  /\ n[i].user \in Users
                      /\ i = 1 /\ p.counter > 0 => p.user = n[1].user
                      /\ i > 1 => n[i - 1] = Changed(n[i].user)
    BY DEF Callbacks
  <2>1. m[i + 1] = n[i] /\ i + 1 \in 1 .. Len(m) /\ i + 1 > 1 /\ (i + 1) - 1 = i
    BY <1>1
  <2>2. n[i].user \in Users /\ m[i] = Changed(n[i].user)
    BY <2>1 DEF Main, Callbacks
  <2>3. i # 1
    BY <1>1, <2>2 DEF Changed
  <2>4. i - 1 \in 1 .. Len(n) /\ (i - 1) + 1 = i
    BY <1>1, <2>3
  <2>5. n[i - 1] = m[i]
    BY <1>1, <2>4
  <2> QED
    BY <2>2, <2>3, <2>5
<1>6. Asked(as, n, p, cur)
  <2>1. NoNews(n, Len(n)) => NoNews(m, Len(m))
    BY <1>1
  <2> QED
    BY <2>1 DEF Main, Asked
<1>7. Answers(n, p)
  <2> SUFFICES ASSUME NEW i \in 1 .. Len(n), n[i].op = "token"
               PROVE  /\ p.created /\ n[i].counter <= p.counter
                      /\ n[i].counter = p.counter /\ NoNews(n, i - 1)
                           => n[i].token \in {Failed, p.user}
    BY DEF Answers
  <2>1. m[i + 1] = n[i] /\ i + 1 \in 1 .. Len(m)
    BY <1>1
  <2>2. i - 1 \in 0 .. Len(n) /\ (i - 1) + 1 = (i + 1) - 1
    BY <1>1
  <2>3. NoNews(n, i - 1) => NoNews(m, (i + 1) - 1)
    BY <1>1, <2>2
  <2> QED
    BY <2>1, <2>3 DEF Main, Answers
<1> QED
  BY <1>4, <1>5, <1>6, <1>7 DEF Main, n

\* News leave the queue and the provider counts them.
LEMMA NewsHeard ==
  ASSUME NEW m \in Seq(Message), m # <<>>, NEW p, NEW cur, NEW as \in SUBSET Request,
         Main(m, p, cur, as), p.counter \in Nat, p.created \in BOOLEAN,
         ~p.created => as = {} /\ p.counter = 0,
         Head(m).op = "changed", NEW r, r.created = p.created,
         p.created => r.user = Head(m).user /\ r.counter = p.counter + 1,
         ~p.created => r = p
  PROVE  Main(Tail(m), r, cur, as)
<1> DEFINE n == Tail(m)
           u == Head(m).user
           b == IF p.created THEN p.user ELSE cur
           c == IF p.created THEN u ELSE cur
<1>1. /\ n \in Seq(Message) /\ Len(n) \in Nat /\ Len(m) = Len(n) + 1
      /\ \A i \in 1 .. Len(n) : n[i] = m[i + 1] /\ i + 1 \in 1 .. Len(m)
      /\ Head(m) = m[1]
  BY Rest
<1>2. Latest(m, "changed", b, Len(n) + 1, cur)
  BY <1>1 DEF Main, News
<1> HIDE DEF b
<1>3. Latest(n, "changed", u, Len(n), cur)
  <2>1. Len(n) + 1 <= Len(m)
    BY <1>1
  <2>2. Latest(n, "changed", IF Head(m).op = "changed" THEN u ELSE b, Len(n), cur)
    BY <1>1, <1>2, <2>1, LatestPopped
  <2> QED
    BY <2>2
<1> HIDE DEF n, u
<1>4. Latest(n, "changed", c, Len(n), cur)
  BY <1>3 DEF Latest
<1>5. c = IF r.created THEN r.user ELSE cur
  BY DEF u
<1> HIDE DEF c
<1>6. News(n, r, cur)
  BY <1>4, <1>5 DEF News
<1>7. Callbacks(n, r)
  <2> SUFFICES ASSUME NEW i \in 1 .. Len(n), n[i].op = "signedIn"
               PROVE  /\ n[i].user \in Users
                      /\ i = 1 /\ r.counter > 0 => r.user = n[1].user
                      /\ i > 1 => n[i - 1] = Changed(n[i].user)
    BY DEF Callbacks
  <2>1. m[i + 1] = n[i] /\ i + 1 \in 1 .. Len(m) /\ i + 1 > 1 /\ (i + 1) - 1 = i
    BY <1>1
  <2>2. n[i].user \in Users /\ m[i] = Changed(n[i].user)
    BY <2>1 DEF Main, Callbacks
  <2>3. ASSUME i = 1, r.counter > 0 PROVE r.user = n[1].user
    <3>1. Head(m).user = n[1].user
      BY <1>1, <2>2, <2>3 DEF Changed
    <3>2. p.created
      <4> SUFFICES ASSUME ~p.created PROVE FALSE
        OBVIOUS
      <4>1. r = p /\ p.counter = 0
        OBVIOUS
      <4>2. r.counter = 0
        BY <4>1
      <4> QED
        BY <2>3, <4>2
    <3> QED
      BY <3>1, <3>2
  <2>4. ASSUME i > 1 PROVE n[i - 1] = Changed(n[i].user)
    <3>1. i - 1 \in 1 .. Len(n) /\ (i - 1) + 1 = i
      BY <1>1, <2>4
    <3>2. n[i - 1] = m[i]
      BY <1>1, <3>1
    <3> QED
      BY <2>2, <3>2
  <2> QED
    BY <2>2, <2>3, <2>4
<1>8. Asked(as, n, r, cur)
  <2> SUFFICES ASSUME NEW a \in as
               PROVE  a.counter <= r.counter /\ a.counter # r.counter
    BY DEF Asked
  <2>1. a.counter \in Nat /\ a.counter <= p.counter /\ p.created
    BY DEF Main, Asked, Request
  <2> QED
    BY <2>1
<1>9. Answers(n, r)
  <2> SUFFICES ASSUME NEW i \in 1 .. Len(n), n[i].op = "token"
               PROVE  r.created /\ n[i].counter <= r.counter /\ n[i].counter # r.counter
    BY DEF Answers
  <2>1. m[i + 1] = n[i] /\ i + 1 \in 1 .. Len(m)
    BY <1>1
  <2>2. p.created /\ n[i].counter <= p.counter
    BY <2>1 DEF Main, Answers
  <2>3. n[i].counter \in Nat
    BY <1>1, ElementOfSeq, MessageKinds
  <2> QED
    BY <2>2, <2>3
<1> QED
  BY <1>6, <1>7, <1>8, <1>9 DEF Main, n

\* The provider is created for the user of Auth; nothing was asked for before.
LEMMA CreationKeeps ==
  ASSUME NEW m, NEW p, NEW cur, Main(m, p, cur, {}), ~p.created, p.counter = 0,
         NEW r, r.user = cur, r.counter = 0, r.created = TRUE
  PROVE  Main(m, r, cur, {})
BY SMTT(30) DEF Main, News, Callbacks, Asked, Answers

----------------------------------------------------------------------------
(***************************************************************************)
(* The worker queue.                                                       *)
(***************************************************************************)
\* The jobs are told apart by their kinds.
LEMMA JobKinds ==
  ASSUME NEW x \in Job
  PROVE  /\ x.op \in {"user", "write", "resume"} /\ x.user \in Anyone
         /\ x.op = "write" => x.user \in Users /\ x.heard \in BOOLEAN
         /\ x.op = "resume" => x.token \in Token /\ x.closes \in Nat
<1>1. CASE x \in [op : {"user"}, user : Anyone]
  BY <1>1
<1>2. CASE x \in [op : {"write"}, user : Users, heard : BOOLEAN]
  BY <1>2 DEF Anyone
<1>3. CASE x \in [op : {"resume"}, token : Token, user : Anyone, closes : Nat]
  BY <1>3
<1> QED
  BY <1>1, <1>2, <1>3 DEF Job

\* The jobs of a queue keep their owners when another is appended.
LEMMA OwnersKept ==
  ASSUME NEW wk \in Seq(Job), NEW e, NEW x \in Job, Owners(wk, e), Tokens(wk),
         x.op = "resume" => x.token \in {Failed, x.user}
  PROVE  LET vk == Append(wk, x)
         IN  /\ vk \in Seq(Job) /\ Len(vk) = Len(wk) + 1 /\ Tokens(vk)
             /\ (Owned(x) => Latest(wk, "user", e, Len(wk), x.user)) => Owners(vk, e)
<1> DEFINE vk == Append(wk, x)
<1>1. /\ vk \in Seq(Job) /\ Len(vk) = Len(wk) + 1 /\ Len(wk) \in Nat
      /\ \A i \in 1 .. Len(wk) : vk[i] = wk[i]
      /\ vk[Len(wk) + 1] = x
      /\ \A i \in 1 .. Len(vk) : i \in 1 .. Len(wk) \/ i = Len(wk) + 1
  BY Appended
<1>2. \A n \in 0 .. Len(wk), u \in Anyone :
        Latest(wk, "user", e, n, u) => Latest(vk, "user", e, n, u)
  BY LatestKept
<1> HIDE DEF vk
<1>3. Tokens(vk)
  BY <1>1 DEF Tokens
<1>4. ASSUME Owned(x) => Latest(wk, "user", e, Len(wk), x.user) PROVE Owners(vk, e)
  <2> SUFFICES ASSUME NEW i \in 1 .. Len(vk), Owned(vk[i])
               PROVE  Latest(vk, "user", e, i - 1, vk[i].user)
    BY DEF Owners
  <2>1. vk[i].user \in Anyone /\ i - 1 \in 0 .. Len(wk)
    BY <1>1, ElementOfSeq, JobKinds
  <2>2. CASE i \in 1 .. Len(wk)
    <3>1. Latest(wk, "user", e, i - 1, vk[i].user)
      BY <1>1, <2>2 DEF Owners
    <3> QED
      BY <1>2, <2>1, <3>1
  <2>3. CASE i = Len(wk) + 1
    <3>1. vk[i] = x /\ i - 1 = Len(wk)
      BY <1>1, <2>3
    <3> QED
      BY <1>2, <1>4, <2>1, <3>1
  <2> QED
    BY <1>1, <2>2, <2>3
<1> QED
  BY <1>1, <1>3, <1>4 DEF vk

\* A new user is handed to the worker queue.
LEMMA UserQueued ==
  ASSUME NEW wk \in Seq(Job), NEW e, Owners(wk, e), Tokens(wk), NEW u \in Anyone,
         NEW r, r.user = u
  PROVE  LET vk == Append(wk, [op |-> "user", user |-> u])
         IN  vk \in Seq(Job) /\ Worker(vk, r, e)
<1> DEFINE x == [op |-> "user", user |-> u]
           vk == Append(wk, x)
<1>1. x \in Job /\ x.op = "user" /\ x.user = u
  BY DEF Job
<1> HIDE DEF x
<1>2. vk \in Seq(Job) /\ Len(vk) = Len(wk) + 1 /\ Tokens(vk) /\ Owners(vk, e)
  BY <1>1, OwnersKept DEF Owned
<1>3. Latest(vk, "user", e, Len(wk) + 1, x.user)
  BY <1>1, LatestIsNew
<1> HIDE DEF vk
<1>4. Worker(vk, r, e)
  BY <1>1, <1>2, <1>3 DEF Worker, Handed
<1> QED
  BY <1>2, <1>4 DEF x, vk

\* A job for the provider's user is.
LEMMA JobQueued ==
  ASSUME NEW wk \in Seq(Job), NEW e, NEW p, p.created, Worker(wk, p, e),
         NEW x \in Job, x.op # "user", Owned(x) => x.user = p.user,
         x.op = "resume" => x.token \in {Failed, x.user}
  PROVE  LET vk == Append(wk, x)
         IN  vk \in Seq(Job) /\ Worker(vk, p, e)
<1> DEFINE vk == Append(wk, x)
<1>1. Latest(wk, "user", e, Len(wk), p.user) /\ Owners(wk, e) /\ Tokens(wk)
  BY DEF Worker, Handed
<1>2. vk \in Seq(Job) /\ Len(vk) = Len(wk) + 1 /\ Tokens(vk) /\ Owners(vk, e)
  BY <1>1, OwnersKept
<1>3. Latest(vk, "user", e, Len(wk) + 1, p.user)
  BY <1>1, LatestAppended
<1> HIDE DEF vk
<1>4. Worker(vk, p, e)
  BY <1>2, <1>3 DEF Worker, Handed
<1> QED
  BY <1>2, <1>4 DEF vk

\* A job is run: the engine changes with a new user only.
LEMMA JobRun ==
  ASSUME NEW wk \in Seq(Job), wk # <<>>, NEW e, NEW p, Worker(wk, p, e)
  PROVE  /\ Tail(wk) \in Seq(Job)
         /\ Worker(Tail(wk), p, IF Head(wk).op = "user" THEN Head(wk).user ELSE e)
         /\ Owned(Head(wk)) => Head(wk).user = e
         /\ Head(wk).op = "resume" => Head(wk).token \in {Failed, Head(wk).user}
<1> DEFINE vk == Tail(wk)
           f == IF Head(wk).op = "user" THEN Head(wk).user ELSE e
<1>1. /\ vk \in Seq(Job) /\ Len(vk) \in Nat /\ Len(wk) = Len(vk) + 1
      /\ \A i \in 1 .. Len(vk) : vk[i] = wk[i + 1] /\ i + 1 \in 1 .. Len(wk)
      /\ Head(wk) = wk[1] /\ 1 \in 1 .. Len(wk)
  BY Popped
<1>2. \A n \in Nat : \A u : n + 1 <= Len(wk) /\ Latest(wk, "user", e, n + 1, u)
                             => Latest(vk, "user", f, n, u)
  BY LatestPopped
<1> HIDE DEF vk, f
<1>3. Handed(vk, p, f)
  <2> SUFFICES ASSUME p.created PROVE Latest(vk, "user", f, Len(vk), p.user)
    BY DEF Handed
  <2>1. Latest(wk, "user", e, Len(vk) + 1, p.user) /\ Len(vk) + 1 <= Len(wk)
    BY <1>1 DEF Worker, Handed
  <2> QED
    BY <1>1, <1>2, <2>1
<1>4. Owners(vk, f)
  <2> SUFFICES ASSUME NEW i \in 1 .. Len(vk), Owned(vk[i])
               PROVE  Latest(vk, "user", f, i - 1, vk[i].user)
    BY DEF Owners
  <2>1. /\ vk[i] = wk[i + 1] /\ i + 1 \in 1 .. Len(wk) /\ (i + 1) - 1 = (i - 1) + 1
        /\ i - 1 \in Nat /\ (i - 1) + 1 <= Len(wk)
    BY <1>1
  <2>2. Latest(wk, "user", e, (i + 1) - 1, vk[i].user)
    BY <2>1 DEF Worker, Owners
  <2>3. Latest(wk, "user", e, (i - 1) + 1, vk[i].user)
    BY <2>1, <2>2
  <2> QED
    BY <1>2, <2>1, <2>3
<1>5. Tokens(vk)
  BY <1>1 DEF Worker, Tokens
<1>6. ASSUME Owned(Head(wk)) PROVE Head(wk).user = e
  <2>1. Latest(wk, "user", e, 1 - 1, wk[1].user)
    BY <1>1, <1>6 DEF Worker, Owners
  <2> QED
    BY <1>1, <2>1 DEF Latest
<1>7. Head(wk).op = "resume" => Head(wk).token \in {Failed, Head(wk).user}
  BY <1>1 DEF Worker, Tokens
<1> QED
  BY <1>1, <1>3, <1>4, <1>5, <1>6, <1>7 DEF Worker, vk, f

----------------------------------------------------------------------------
(***************************************************************************)
(* The stream.                                                             *)
(***************************************************************************)
Stream == [state : {"Initial", "Starting", "Open", "Backoff"}, closes : Nat, token : Anyone]

\* The types, with names.
LEMMA Types ==
  ASSUME TypeOK
  PROVE  /\ current \in Anyone /\ engine \in Anyone
         /\ asks \in SUBSET Request /\ main \in Seq(Message) /\ work \in Seq(Job)
         /\ provider \in [created : BOOLEAN, user : Anyone, counter : Nat]
         /\ provider.created \in BOOLEAN /\ provider.user \in Anyone /\ provider.counter \in Nat
         /\ stream \in Stream /\ changes \in 0 .. MaxChanges /\ turns \in 0 .. MaxTurns
BY DEF TypeOK, Request, Message, Job, Stream

\* A stream that waits for nothing starts and waits for its one request.
LEMMA StartKeeps ==
  ASSUME NEW as \in SUBSET Request, NEW m, NEW wk, NEW p, NEW cur,
         p.counter \in Nat, Main(m, p, cur, as),
         NEW s \in Stream, UpTo(as, m, wk, s.closes), Nothing(as, m, wk, s.closes),
         NEW c \in {p.counter, p.counter - 1} \cap Nat
  PROVE  LET bs == as \cup {Ask(s.closes, c)}
             t == [s EXCEPT !.state = "Starting"]
         IN  /\ bs \in SUBSET Request /\ t \in Stream /\ t.state = "Starting"
             /\ Main(m, p, cur, bs) /\ Waiting(bs, m, wk, t)
<1> DEFINE a == Ask(s.closes, c)
           bs == as \cup {a}
           t == [s EXCEPT !.state = "Starting"]
<1>1. t \in Stream /\ t.state = "Starting" /\ t.closes = s.closes /\ s.closes \in Nat
  BY DEF Stream
<1>2. /\ a \in Request /\ a.closes = s.closes /\ a.counter = c /\ a.at = "queued"
  BY <1>1 DEF Ask, Request, Anyone
<1>3. c <= p.counter
  OBVIOUS
<1> HIDE DEF a
<1>4. \A x \in bs : x \in as \/ x = a
  OBVIOUS
<1>5. bs \in SUBSET Request
  BY <1>2
<1> HIDE DEF bs, t
<1>6. Main(m, p, cur, bs)
  BY <1>2, <1>3, <1>4 DEF Main, Asked
<1>7. UpTo(bs, m, wk, s.closes)
  <2>1. a.closes <= s.closes
    BY <1>1, <1>2
  <2> QED
    BY <1>4, <2>1 DEF UpTo
<1>8. Single(bs, m, wk, s.closes)
  BY <1>4 DEF Nothing, Single
<1>9. Waiting(bs, m, wk, t)
  BY <1>1, <1>7, <1>8 DEF Waiting
<1> QED
  BY <1>1, <1>5, <1>6, <1>9 DEF a, bs, t

\* A stream that closes, or is found closed.
LEMMA CloseKeeps ==
  ASSUME NEW as \in SUBSET Request, NEW m \in Seq(Message), NEW wk \in Seq(Job),
         NEW s \in Stream, Waiting(as, m, wk, s), NEW state \in {"Initial", "Backoff"}
  PROVE  LET t == Close(s, state)
         IN  t \in Stream /\ t.state = state /\ Waiting(as, m, wk, t)
             /\ UpTo(as, m, wk, t.closes) /\ Nothing(as, m, wk, t.closes)
<1> DEFINE t == Close(s, state)
<1>1. t \in Stream /\ t.state = state /\ t.closes = s.closes + 1 /\ s.closes \in Nat
  <2> DEFINE n == s.closes + 1
  <2>1. s.closes \in Nat /\ n \in Nat
    BY DEF Stream
  <2>2. t = [s EXCEPT !.state = state, !.closes = n, !.token = NoUser]
    BY DEF Stream, Close
  <2> HIDE DEF n, t
  <2>3. t \in Stream /\ t.state = state /\ t.closes = n
    BY <2>1, <2>2 DEF Stream, Anyone
  <2> QED
    BY <2>1, <2>3 DEF n
<1>2. UpTo(as, m, wk, s.closes + 1) /\ Nothing(as, m, wk, s.closes + 1)
  BY <1>1, NothingAfterClose DEF Waiting
<1> HIDE DEF t
<1>3. Waiting(as, m, wk, t)
  BY <1>1, <1>2 DEF Waiting
<1> QED
  BY <1>1, <1>2, <1>3 DEF t

\* Stopping does so too.
LEMMA StoppedKeeps ==
  ASSUME NEW as \in SUBSET Request, NEW m \in Seq(Message), NEW wk \in Seq(Job),
         NEW s \in Stream, Waiting(as, m, wk, s)
  PROVE  LET t == Stopped(s)
         IN  t \in Stream /\ t.state = "Initial" /\ Waiting(as, m, wk, t)
             /\ UpTo(as, m, wk, t.closes) /\ Nothing(as, m, wk, t.closes)
<1>1. CASE IsStarted(s)
  BY <1>1, CloseKeeps DEF Stopped
<1>2. CASE ~IsStarted(s)
  <2>1. Stopped(s) = s /\ s.state = "Initial"
    BY <1>2 DEF Stopped, IsStarted, Stream
  <2> QED
    BY <2>1 DEF Waiting
<1> QED
  BY <1>1, <1>2

----------------------------------------------------------------------------
(***************************************************************************)
(* Every step keeps the invariant.                                         *)
(***************************************************************************)
\* Initially nothing is queued and nothing runs.
LEMMA InitSound == Init => CInv
<1> SUFFICES ASSUME Init PROVE CInv
  OBVIOUS
<1>1. /\ main = <<>> /\ work = <<>> /\ asks = {} /\ Len(<<>>) = 0
      /\ ~provider.created /\ provider.counter = 0
      /\ stream.state = "Initial" /\ stream.closes = 0
  BY EmptySeq DEF Init
<1>2. TypeOK
  <2>1. <<>> \in Seq(Message) /\ <<>> \in Seq(Job) /\ 0 \in 0 .. MaxChanges /\ 0 \in 0 .. MaxTurns
    BY EmptySeq, CredentialsAssumption
  <2>2. main \in Seq(Message) /\ work \in Seq(Job)
    BY <1>1, <2>1
  <2>3. /\ provider \in [created : BOOLEAN, user : Anyone, counter : Nat]
        /\ stream \in [state : {"Initial", "Starting", "Open", "Backoff"}, closes : Nat,
                       token : Anyone]
    BY DEF Init, Anyone
  <2>4. current \in Anyone /\ engine \in Anyone
    BY DEF Init, Anyone
  <2> QED
    BY <1>1, <2>1, <2>2, <2>3, <2>4 DEF TypeOK, Message, Job, Init
<1>3. 1 .. 0 = {}
  OBVIOUS
<1>4. Uncreated(provider, asks, work, stream)
  BY <1>1 DEF Uncreated
<1>5. Main(main, provider, current, asks)
  BY <1>1, <1>3 DEF Main, News, Latest, Callbacks, Asked, Answers
<1>6. Worker(work, provider, engine)
  BY <1>1, <1>3 DEF Worker, Handed, Owners, Tokens
<1>7. Waiting(asks, main, work, stream)
  BY <1>1, <1>3 DEF Waiting, UpTo, Nothing
<1>8. Speaks(stream, engine)
  BY <1>1 DEF Speaks
<1> QED
  BY <1>2, <1>4, <1>5, <1>6, <1>7, <1>8 DEF CInv

\* What is left to show of a step of Auth.
LEMMA AuthSteps ==
  ASSUME CInv, UNCHANGED <<provider, work, engine, stream>>,
         changes' \in 0 .. MaxChanges, turns' \in 0 .. MaxTurns,
         current' \in Anyone, main' \in Seq(Message), asks' \in SUBSET Request,
         ~provider.created => asks' = {},
         Main(main', provider, current', asks'), Waiting(asks', main', work, stream)
  PROVE  CInv'
<1>1. TypeOK'
  BY DEF CInv, TypeOK, Message, Request
<1>2. Uncreated(provider, asks, work, stream)'
  BY DEF CInv, Uncreated
<1>3. Main(main, provider, current, asks)'
  BY DEF Main, News, Callbacks, Asked, Answers
<1>4. Worker(work, provider, engine)' /\ Speaks(stream, engine)'
  BY DEF CInv, Worker, Handed, Owners, Tokens, Speaks
<1>5. Waiting(asks, main, work, stream)'
  BY DEF Waiting, UpTo, Single, Nothing
<1> QED
  BY <1>1, <1>2, <1>3, <1>4, <1>5 DEF CInv

\* A sign-in: announcement and callback.
LEMMA SignInKeeps ==
  ASSUME CInv, NEW u \in Users, SignIn(u)
  PROVE  CInv'
<1> DEFINE n == Append(main, Changed(u))
           k == Append(n, SignedIn(u))
<1>1. /\ main \in Seq(Message) /\ u \in Anyone /\ asks \in SUBSET Request
      /\ changes' \in 0 .. MaxChanges /\ turns' \in 0 .. MaxTurns
      /\ Changed(u) \in Message /\ SignedIn(u) \in Message
      /\ Changed(u).op # "token" /\ SignedIn(u).op # "token"
  <2>1. TypeOK /\ u \in Anyone
    BY DEF CInv, Anyone
  <2>2. main \in Seq(Message) /\ asks \in SUBSET Request
    BY <2>1, Types
  <2>3. changes' \in 0 .. MaxChanges /\ turns' \in 0 .. MaxTurns
    BY <2>1, Types, CredentialsAssumption DEF SignIn, Change
  <2>4. /\ Changed(u) \in Message /\ SignedIn(u) \in Message
        /\ Changed(u).op # "token" /\ SignedIn(u).op # "token"
    BY <2>1, MessagesMade
  <2> QED
    BY <2>1, <2>2, <2>3, <2>4
<1>2. main' = k
  BY <1>1, TwoAppended DEF SignIn, SignInFlow
<1>3. /\ n \in Seq(Message) /\ n # <<>> /\ n[Len(n)] = Changed(u)
      /\ Main(n, provider, u, asks)
  BY <1>1, AnnouncementKeeps DEF CInv, Main
<1>4. Waiting(asks, n, work, stream)
  BY <1>1, QuietMessage, StillWaiting DEF CInv
<1> HIDE DEF n
<1>5. k \in Seq(Message) /\ Main(k, provider, u, asks)
  BY <1>3, CallbackKeeps DEF Main
<1>6. Waiting(asks, k, work, stream)
  BY <1>1, <1>3, <1>4, QuietMessage, StillWaiting
<1> HIDE DEF k
<1> QED
  BY <1>1, <1>2, <1>5, <1>6, AuthSteps DEF SignIn, CInv, Uncreated

\* A sign-out: an announcement.
LEMMA SignOutKeeps ==
  ASSUME CInv, SignOut
  PROVE  CInv'
<1> DEFINE n == Append(main, Changed(NoUser))
<1>1. /\ main \in Seq(Message) /\ NoUser \in Anyone /\ asks \in SUBSET Request
      /\ changes' \in 0 .. MaxChanges /\ turns' \in 0 .. MaxTurns
      /\ Changed(NoUser) \in Message /\ Changed(NoUser).op # "token"
  <2>1. TypeOK /\ NoUser \in Anyone
    BY DEF CInv, Anyone
  <2>2. main \in Seq(Message) /\ asks \in SUBSET Request
    BY <2>1, Types
  <2>3. changes' \in 0 .. MaxChanges /\ turns' \in 0 .. MaxTurns
    BY <2>1, Types, CredentialsAssumption DEF SignOut, Change
  <2>4. Changed(NoUser) \in Message /\ Changed(NoUser).op # "token"
    BY <2>1, MessagesMade
  <2> QED
    BY <2>1, <2>2, <2>3, <2>4
<1>2. n \in Seq(Message) /\ Main(n, provider, NoUser, asks)
  BY <1>1, AnnouncementKeeps DEF CInv, Main
<1>3. Waiting(asks, n, work, stream)
  BY <1>1, QuietMessage, StillWaiting DEF CInv
<1>4. main' = n /\ current' = NoUser
  BY DEF SignOut
<1> HIDE DEF n
<1> QED
  BY <1>1, <1>2, <1>3, <1>4, AuthSteps DEF SignOut, CInv, Uncreated

\* Auth takes up a request: with nobody signed in it answers at once.
LEMMA FetchKeeps ==
  ASSUME CInv, NEW a \in asks, FetchToken(a)
  PROVE  CInv'
<1>1. /\ main \in Seq(Message) /\ current \in Anyone /\ asks \in SUBSET Request
      /\ changes' \in 0 .. MaxChanges /\ turns' \in 0 .. MaxTurns /\ a \in Request
      /\ NoUser \in Token /\ provider.created /\ current' = current
      /\ UNCHANGED <<provider, work, engine, stream>>
  BY Types DEF CInv, Uncreated, FetchToken, Anyone, Token
<1>2. CASE current = NoUser
  <2> DEFINE x == Answer(a, NoUser)
             n == Append(main, x)
             bs == asks \ {a}
  <2>1. x \in Message /\ x.op = "token" /\ x.closes = a.closes
    BY <1>1, MessagesMade
  <2>2. Waiting(bs, n, work, stream)
    BY <1>1, <2>1, RequestAnswered, StillWaiting DEF CInv
  <2>3. Main(main, provider, current, bs)
    BY DEF CInv, Main, Asked
  <2>4. ASSUME NoNews(main, Len(main)) PROVE provider.user = NoUser
    BY <1>1, <1>2, <2>4 DEF CInv, Main, News, Latest, NoNews
  <2>5. a.counter <= provider.counter
    BY DEF CInv, Main, Asked
  <2> HIDE DEF bs
  <2>6. n \in Seq(Message) /\ Main(n, provider, current, bs)
    BY <1>1, <2>3, <2>4, <2>5, AnswerKeeps DEF Main
  <2>7. main' = n /\ asks' = bs /\ bs \in SUBSET Request
    BY <1>1, <1>2 DEF FetchToken, bs
  <2> HIDE DEF n
  <2> QED
    BY <1>1, <2>2, <2>6, <2>7, AuthSteps
<1>3. CASE current # NoUser
  <2> DEFINE b == [a EXCEPT !.at = "fetching", !.user = current]
             bs == (asks \ {a}) \cup {b}
  <2>1. b \in Request /\ b.closes = a.closes /\ b.counter = a.counter /\ b.user = current
    BY <1>1 DEF Request
  <2>2. asks' = bs /\ main' = main
    BY <1>3 DEF FetchToken
  <2> HIDE DEF b
  <2>3. Waiting(bs, main, work, stream)
    <3>1. MovesOn(asks, main, work, bs, main, work)
      BY <2>1, RequestFetched
    <3> QED
      BY <3>1, StillWaiting DEF CInv
  <2>4. bs \in SUBSET Request /\ (\A x \in bs : x \in asks \/ x = b)
    BY <1>1, <2>1
  <2> HIDE DEF bs
  <2>5. a.counter <= provider.counter
    BY DEF CInv, Main, Asked
  <2>6. Main(main, provider, current, bs)
    BY <2>1, <2>4, <2>5 DEF CInv, Main, Asked
  <2> QED
    BY <1>1, <2>2, <2>3, <2>4, <2>6, AuthSteps
<1> QED
  BY <1>2, <1>3

\* A token arrives, or does not; a renewed one is announced first.
LEMMA ArrivalKeeps ==
  ASSUME CInv, NEW a \in asks, TokenArrives(a)
  PROVE  CInv'
<1> DEFINE bs == asks \ {a}
<1>1. /\ main \in Seq(Message) /\ current \in Anyone /\ asks \in SUBSET Request
      /\ a \in Request /\ a.user \in Anyone /\ a.user \in Token /\ Failed \in Token
      /\ provider.created /\ current' = current /\ asks' = bs /\ bs \in SUBSET Request
      /\ UNCHANGED <<provider, work, engine, stream>>
  BY Types DEF CInv, Uncreated, TokenArrives, Token, Request
<1>2. changes' \in 0 .. MaxChanges /\ turns' \in 0 .. MaxTurns
  BY Types, CredentialsAssumption DEF CInv, TokenArrives, Change, Turn
<1>3. Main(main, provider, current, bs)
  BY DEF CInv, Main, Asked
<1>4. a.counter <= provider.counter
  BY DEF CInv, Main, Asked
<1>5. ASSUME NEW t \in Token, main' = Append(main, Answer(a, t)), t \in {Failed, a.user}
      PROVE  CInv'
  <2> DEFINE x == Answer(a, t)
             n == Append(main, x)
  <2>1. x \in Message /\ x.op = "token" /\ x.closes = a.closes
    BY <1>1, MessagesMade
  <2>2. Waiting(bs, n, work, stream)
    BY <1>1, <2>1, RequestAnswered, StillWaiting DEF CInv
  <2>3. ASSUME a.counter = provider.counter, NoNews(main, Len(main))
        PROVE  t \in {Failed, provider.user}
    <3>1. a.user = current
      BY <2>3 DEF CInv, Main, Asked, TokenArrives
    <3>2. provider.user = current
      BY <1>1, <2>3 DEF CInv, Main, News, Latest, NoNews
    <3> QED
      BY <1>5, <3>1, <3>2
  <2> HIDE DEF bs
  <2>4. n \in Seq(Message) /\ Main(n, provider, current, bs)
    BY <1>1, <1>3, <1>4, <2>3, AnswerKeeps DEF Main
  <2>5. main' = n
    BY <1>5
  <2> HIDE DEF n
  <2> QED
    BY <1>1, <1>2, <2>2, <2>4, <2>5, AuthSteps
<1>6. ASSUME a.user = current, main' = main \o <<Changed(a.user), Answer(a, a.user)>>
      PROVE  CInv'
  <2> DEFINE y == Changed(a.user)
             x == Answer(a, a.user)
             n == Append(main, y)
             k == Append(n, x)
  <2>1. /\ x \in Message /\ x.op = "token" /\ x.closes = a.closes
        /\ y \in Message /\ y.op = "changed"
    BY <1>1, MessagesMade
  <2>2. main' = k
    BY <1>1, <1>6, <2>1, TwoAppended
  <2>3. n \in Seq(Message) /\ n # <<>> /\ n[Len(n)] = y /\ Main(n, provider, current, bs)
    BY <1>1, <1>3, <1>6, AnnouncementKeeps DEF Main
  <2>4. Waiting(asks, n, work, stream)
    <3>1. MovesOn(asks, main, work, asks, n, work)
      BY <1>1, <2>1, QuietMessage
    <3> QED
      BY <3>1, StillWaiting DEF CInv
  <2>5. ~NoNews(n, Len(n))
    <3>1. Len(n) \in 1 .. Len(n)
      BY <2>3, Popped
    <3> QED
      BY <2>1, <2>3, <3>1 DEF NoNews
  <2> HIDE DEF n
  <2>6. Waiting(bs, k, work, stream)
    <3>1. MovesOn(asks, n, work, bs, k, work)
      BY <2>1, <2>3, RequestAnswered
    <3> QED
      BY <2>4, <3>1, StillWaiting
  <2> HIDE DEF bs
  <2>7. k \in Seq(Message) /\ Main(k, provider, current, bs)
    BY <1>1, <1>4, <2>3, <2>5, AnswerKeeps DEF Main
  <2> HIDE DEF k
  <2> QED
    BY <1>1, <1>2, <2>2, <2>6, <2>7, AuthSteps
<1> QED
  BY <1>1, <1>5, <1>6 DEF TokenArrives

\* What is left to show of a step of the main queue.
LEMMA MainSteps ==
  ASSUME CInv, UNCHANGED <<current, engine, stream, changes, turns>>,
         provider' \in [created : BOOLEAN, user : Anyone, counter : Nat],
         main' \in Seq(Message), asks' \in SUBSET Request, work' \in Seq(Job),
         Uncreated(provider', asks', work', stream),
         Main(main', provider', current, asks'), Worker(work', provider', engine),
         Waiting(asks', main', work', stream)
  PROVE  CInv'
<1>1. TypeOK'
  BY DEF CInv, TypeOK, Message, Request, Job
<1>2. Uncreated(provider, asks, work, stream)'
  BY DEF Uncreated
<1>3. Main(main, provider, current, asks)'
  BY DEF Main, News, Callbacks, Asked, Answers
<1>4. Worker(work, provider, engine)' /\ Speaks(stream, engine)'
  BY DEF CInv, Worker, Handed, Owners, Tokens, Speaks
<1>5. Waiting(asks, main, work, stream)'
  BY DEF Waiting, UpTo, Single, Nothing
<1> QED
  BY <1>1, <1>2, <1>3, <1>4, <1>5 DEF CInv

\* The client is created: its first job is the user of Auth.
LEMMA CreateKeeps ==
  ASSUME CInv, CreateClient
  PROVE  CInv'
<1> DEFINE x == [op |-> "user", user |-> current]
           vk == Append(work, x)
<1>1. /\ main \in Seq(Message) /\ current \in Anyone /\ asks = {} /\ work \in Seq(Job)
      /\ ~provider.created /\ provider.counter = 0
      /\ UNCHANGED <<current, asks, main, engine, stream, changes, turns>>
      /\ work' = vk
  BY Types DEF CInv, Uncreated, CreateClient
<1>2. /\ provider' \in [created : BOOLEAN, user : Anyone, counter : Nat]
      /\ provider'.created = TRUE /\ provider'.user = current /\ provider'.counter = 0
  BY <1>1, Types DEF CInv, CreateClient, Created
<1>3. Main(main, provider', current, {})
  BY <1>1, <1>2, CreationKeeps DEF CInv
<1>4. vk \in Seq(Job) /\ Worker(vk, provider', engine)
  BY <1>1, <1>2, UserQueued DEF CInv, Worker
<1>5. x \in Job /\ x.op # "resume"
  BY <1>1 DEF Job
<1>6. MovesOn(asks, main, work, asks, main, vk)
  BY <1>1, <1>5, QuietJob
<1> HIDE DEF vk
<1>7. Waiting(asks, main, vk, stream)
  BY <1>6, StillWaiting DEF CInv
<1>8. Uncreated(provider', asks', work', stream)
  BY <1>2 DEF Uncreated
<1> QED
  BY <1>1, <1>2, <1>3, <1>4, <1>7, <1>8, MainSteps

\* News: the provider and the worker queue hear of the user.
LEMMA NewsKeep ==
  ASSUME CInv, main # <<>>, main' = Tail(main), Head(main).op = "changed",
         CredentialChanged(Head(main).user),
         UNCHANGED <<current, engine, stream, changes, turns>>
  PROVE  CInv'
<1> DEFINE u == Head(main).user
           x == [op |-> "user", user |-> u]
           vk == Append(work, x)
           n == Tail(main)
<1>1. /\ main \in Seq(Message) /\ asks \in SUBSET Request /\ work \in Seq(Job)
      /\ provider \in [created : BOOLEAN, user : Anyone, counter : Nat]
      /\ provider.created \in BOOLEAN /\ provider.counter \in Nat /\ asks' = asks
      /\ ~provider.created => asks = {} /\ provider.counter = 0
  BY Types DEF CInv, Uncreated, CredentialChanged
<1>2. n \in Seq(Message) /\ Head(main) \in Message
  BY <1>1, Popped
<1>3. u \in Anyone
  BY <1>2, MessageKinds
<1>4. provider' \in [created : BOOLEAN, user : Anyone, counter : Nat]
  <2> DEFINE k == provider.counter + 1
             r == [provider EXCEPT !.user = u, !.counter = k]
  <2>1. k \in Nat
    BY <1>1
  <2>2. provider' = IF provider.created THEN r ELSE provider
    BY <1>1 DEF CredentialChanged
  <2> HIDE DEF k, u
  <2>3. r \in [created : BOOLEAN, user : Anyone, counter : Nat]
    BY <1>1, <1>3, <2>1
  <2> HIDE DEF r
  <2> QED
    BY <1>1, <2>2, <2>3
<1>5. /\ provider.created => /\ provider'.created = provider.created /\ provider'.user = u
                             /\ provider'.counter = provider.counter + 1 /\ work' = vk
      /\ ~provider.created => provider' = provider /\ work' = work
  BY <1>1 DEF CredentialChanged
<1>6. Main(n, provider', current, asks)
  <2>1. provider'.created = provider.created
    BY <1>1, <1>5
  <2> QED
    BY <1>1, <1>5, <2>1, NewsHeard DEF CInv
<1>7. MovesOn(asks, main, work, asks, n, work)
  BY <1>1, MessageGone
<1> HIDE DEF n
<1>8. Waiting(asks, n, work, stream)
  BY <1>7, StillWaiting DEF CInv
<1>9. CASE ~provider.created
  <2>1. /\ provider' = provider /\ work' = work
    BY <1>5, <1>9
  <2>2. Uncreated(provider', asks, work, stream)
    BY <2>1 DEF CInv
  <2>3. Worker(work, provider', engine)
    BY <2>1 DEF CInv
  <2> QED
    BY <1>1, <1>2, <1>4, <1>6, <1>8, <2>1, <2>2, <2>3, MainSteps DEF n
<1>10. CASE provider.created
  <2>1. provider'.user = u /\ work' = vk /\ provider'.created
    BY <1>5, <1>10
  <2>2. vk \in Seq(Job) /\ Worker(vk, provider', engine)
    BY <1>1, <1>3, <2>1, UserQueued DEF CInv, Worker
  <2>3. x \in Job /\ x.op # "resume"
    BY <1>3 DEF Job
  <2>4. MovesOn(asks, n, work, asks, n, vk)
    BY <1>1, <2>3, QuietJob
  <2> HIDE DEF vk
  <2>5. Waiting(asks, n, vk, stream)
    BY <1>8, <2>4, StillWaiting
  <2>6. Uncreated(provider', asks, vk, stream)
    BY <2>1 DEF Uncreated
  <2> QED
    BY <1>1, <1>2, <1>4, <1>6, <2>1, <2>2, <2>5, <2>6, MainSteps DEF n
<1> QED
  BY <1>9, <1>10

\* The callback of a sign-in: its write is for the user the provider has heard
\* of last.
LEMMA SignedInKeeps ==
  ASSUME CInv, main # <<>>, main' = Tail(main), Head(main).op = "signedIn",
         SignInCallback(Head(main).user),
         UNCHANGED <<current, engine, stream, changes, turns>>
  PROVE  CInv'
<1> DEFINE u == Head(main).user
           x == [op |-> "user", user |-> current]
           y == [op |-> "write", user |-> u, heard |-> provider.counter > 0]
           n == Tail(main)
<1>1. /\ main \in Seq(Message) /\ asks \in SUBSET Request /\ work \in Seq(Job)
      /\ provider \in [created : BOOLEAN, user : Anyone, counter : Nat]
      /\ provider.created \in BOOLEAN /\ provider.counter \in Nat /\ asks' = asks
      /\ current \in Anyone
  BY Types DEF CInv, SignInCallback
<1>2. /\ n \in Seq(Message) /\ Head(main) = main[1] /\ 1 \in 1 .. Len(main)
  BY <1>1, Popped
<1>3. u \in Users /\ (provider.counter > 0 => provider.user = u)
  BY <1>2 DEF CInv, Main, Callbacks
<1>4. /\ y \in Job /\ y.op = "write" /\ y.user = u /\ y.heard = (provider.counter > 0)
      /\ x \in Job /\ x.op = "user"
  <2>1. (provider.counter > 0) \in BOOLEAN
    OBVIOUS
  <2> QED
    BY <1>1, <1>3, <2>1 DEF Job
<1>5. Main(n, provider, current, asks)
  BY <1>1, MessageHeard DEF CInv
<1>6. MovesOn(asks, main, work, asks, n, work)
  BY <1>1, MessageGone
<1>7. main' = n
  OBVIOUS
<1> HIDE DEF n
<1>8. Waiting(asks, n, work, stream)
  BY <1>6, StillWaiting DEF CInv
<1>9. CASE provider.created
  <2> DEFINE vk == Append(work, y)
  <2>1. work' = vk /\ provider' = provider
    BY <1>9 DEF SignInCallback
  <2> HIDE DEF y
  <2>2. vk \in Seq(Job) /\ Worker(vk, provider, engine)
    <3>1. Owned(y) => y.user = provider.user
      BY <1>3, <1>4 DEF Owned
    <3> QED
      BY <1>1, <1>4, <1>9, <3>1, JobQueued DEF CInv
  <2>3. MovesOn(asks, n, work, asks, n, vk)
    BY <1>1, <1>4, QuietJob
  <2> HIDE DEF vk
  <2>4. Waiting(asks, n, vk, stream)
    BY <1>8, <2>3, StillWaiting
  <2>5. Uncreated(provider, asks, vk, stream)
    BY <1>9 DEF Uncreated
  <2> QED
    BY <1>1, <1>2, <1>5, <1>7, <2>1, <2>2, <2>4, <2>5, MainSteps
<1>10. CASE ~provider.created
  <2> DEFINE vk == Append(work, x)
             wk == Append(vk, y)
  <2>1. asks = {} /\ provider.counter = 0
    BY <1>10 DEF CInv, Uncreated
  <2>2. work' = wk
    <3>1. work' = work \o <<x, y>>
      BY <1>10 DEF SignInCallback
    <3> HIDE DEF x, y
    <3>2. x \in Job /\ y \in Job
      BY <1>4
    <3>3. work \o <<x, y>> = Append(Append(work, x), y)
      BY <1>1, <3>2, TwoAppended
    <3> QED
      BY <3>1, <3>3
  <2>3. /\ provider' \in [created : BOOLEAN, user : Anyone, counter : Nat]
        /\ provider'.created = TRUE /\ provider'.user = current /\ provider'.counter = 0
    BY <1>1, <1>10, <2>1 DEF SignInCallback, Created
  <2>4. Main(n, provider', current, {})
    BY <1>5, <1>10, <2>1, <2>3, CreationKeeps
  <2>5. vk \in Seq(Job) /\ Worker(vk, provider', engine)
    BY <1>1, <2>3, UserQueued DEF CInv, Worker
  <2> HIDE DEF x, y
  <2>6. MovesOn(asks, n, work, asks, n, vk)
    BY <1>1, <1>4, QuietJob
  <2> HIDE DEF vk
  <2>7. Waiting(asks, n, vk, stream)
    BY <1>8, <2>6, StillWaiting
  <2>8. ~Owned(y) /\ y.op # "resume" /\ y.op # "user"
    <3>1. ~(provider.counter > 0)
      BY <2>1
    <3>2. ~y.heard
      BY <1>4, <3>1
    <3> QED
      BY <1>4, <3>2 DEF Owned
  <2>9. wk \in Seq(Job) /\ Worker(wk, provider', engine)
    BY <1>4, <2>3, <2>5, <2>8, JobQueued
  <2>10. MovesOn(asks, n, vk, asks, n, wk)
    BY <1>4, <2>5, <2>8, QuietJob
  <2> HIDE DEF wk
  <2>11. Waiting(asks, n, wk, stream)
    BY <2>7, <2>10, StillWaiting
  <2>12. Uncreated(provider', asks, wk, stream)
    BY <2>3 DEF Uncreated
  <2> QED
    BY <1>1, <1>2, <1>7, <2>1, <2>2, <2>3, <2>4, <2>9, <2>11, <2>12, MainSteps
<1> QED
  BY <1>9, <1>10

\* The callback of GetToken: the token of a request that was not overtaken is
\* the provider's user's.
LEMMA TokenKeeps ==
  ASSUME CInv, main # <<>>, main' = Tail(main), Head(main).op = "token",
         TokenCallback(Head(main)),
         UNCHANGED <<current, engine, stream, changes, turns>>
  PROVE  CInv'
<1> DEFINE m == Head(main)
           n == Tail(main)
<1>1. /\ main \in Seq(Message) /\ asks \in SUBSET Request /\ work \in Seq(Job)
      /\ provider \in [created : BOOLEAN, user : Anyone, counter : Nat]
      /\ provider.user \in Anyone /\ provider.counter \in Nat /\ provider' = provider
  BY Types DEF CInv, TokenCallback
<1>2. n \in Seq(Message) /\ m = main[1] /\ 1 \in 1 .. Len(main) /\ m \in Message
  BY <1>1, Popped
<1>3. m.token \in Token /\ m.closes \in Nat /\ m.counter \in Nat
  BY <1>2, MessageKinds
<1>4. /\ provider.created
      /\ m.counter = provider.counter => m.token \in {Failed, provider.user}
  <2>1. NoNews(main, 1 - 1)
    BY DEF NoNews
  <2> QED
    BY <1>2, <2>1 DEF CInv, Main, Answers
<1>5. Main(n, provider, current, asks)
  BY <1>1, MessageHeard DEF CInv
<1>6. CASE m.counter # provider.counter
  <2> DEFINE b == Ask(m.closes, provider.counter)
             bs == asks \cup {b}
  <2>1. /\ b \in Request /\ b.closes = m.closes /\ b.counter = provider.counter
        /\ b.at = "queued"
    BY <1>1, <1>3 DEF Ask, Request, Anyone
  <2>2. work' = work /\ asks' = bs
    BY <1>6 DEF TokenCallback
  <2> HIDE DEF b
  <2>3. MovesOn(asks, main, work, bs, n, work)
    BY <1>1, <2>1, AskedAgain
  <2>4. bs \in SUBSET Request /\ (\A a \in bs : a \in asks \/ a = b)
    BY <1>1, <2>1
  <2> HIDE DEF bs, n, m
  <2>5. Waiting(bs, n, work, stream)
    BY <2>3, StillWaiting DEF CInv
  <2>6. Main(n, provider, current, bs)
    <3>1. Asked(bs, n, provider, current)
      <4> SUFFICES ASSUME NEW a \in bs
                   PROVE  /\ a.counter <= provider.counter
                          /\ a.at = "fetching" /\ a.counter = provider.counter
                               /\ NoNews(n, Len(n)) => a.user = current
        BY DEF Asked
      <4>1. CASE a \in asks
        BY <1>5, <4>1 DEF Main, Asked
      <4>2. CASE a = b
        BY <1>1, <2>1, <4>2
      <4> QED
        BY <2>4, <4>1, <4>2
    <3> QED
      BY <1>5, <3>1 DEF Main
  <2>7. Uncreated(provider, bs, work, stream)
    BY <1>4 DEF Uncreated
  <2>8. Worker(work, provider, engine)
    BY DEF CInv
  <2> QED
    BY <1>1, <1>2, <2>2, <2>4, <2>5, <2>6, <2>7, <2>8, MainSteps DEF n
<1>7. CASE m.counter = provider.counter
  <2> DEFINE r == Resume(m)
             vk == Append(work, r)
  <2>1. /\ r \in Job /\ r.op = "resume" /\ r.closes = m.closes /\ r.token = m.token
        /\ r.user = provider.user
    BY <1>1, <1>3 DEF Resume, Job
  <2>2. work' = vk /\ asks' = asks
    BY <1>7 DEF TokenCallback
  <2> HIDE DEF r
  <2>3. MovesOn(asks, main, work, asks, n, vk)
    BY <1>1, <2>1, AnswerHandedOn
  <2>4. vk \in Seq(Job) /\ Worker(vk, provider, engine)
    BY <1>1, <1>4, <1>7, <2>1, JobQueued DEF CInv
  <2> HIDE DEF vk, n, m
  <2>5. Waiting(asks, n, vk, stream)
    BY <2>3, StillWaiting DEF CInv
  <2>6. Uncreated(provider, asks, vk, stream)
    BY <1>4 DEF Uncreated
  <2> QED
    BY <1>1, <1>2, <1>5, <2>2, <2>4, <2>5, <2>6, MainSteps DEF n
<1> QED
  BY <1>6, <1>7

\* What is left to show of a step of the worker queue.
LEMMA WorkerSteps ==
  ASSUME CInv, UNCHANGED <<current, main, provider, changes>>, provider.created,
         turns' \in 0 .. MaxTurns, engine' \in Anyone, stream' \in Stream,
         asks' \in SUBSET Request, work' \in Seq(Job),
         Main(main, provider, current, asks'), Worker(work', provider, engine'),
         Waiting(asks', main, work', stream'), Speaks(stream', engine')
  PROVE  CInv'
<1>1. TypeOK'
  BY DEF CInv, TypeOK, Message, Request, Job, Stream
<1>2. Uncreated(provider, asks, work, stream)'
  BY DEF Uncreated
<1>3. Main(main, provider, current, asks)'
  BY DEF Main, News, Callbacks, Asked, Answers
<1>4. Worker(work, provider, engine)' /\ Speaks(stream, engine)'
  BY DEF Worker, Handed, Owners, Tokens, Speaks
<1>5. Waiting(asks, main, work, stream)'
  BY DEF Waiting, UpTo, Single, Nothing
<1> QED
  BY <1>1, <1>2, <1>3, <1>4, <1>5 DEF CInv

\* A job of the worker queue.
LEMMA WorkerKeeps ==
  ASSUME CInv, WorkerStep
  PROVE  CInv'
<1> DEFINE j == Head(work)
           vk == Tail(work)
<1>1. /\ main \in Seq(Message) /\ asks \in SUBSET Request /\ work \in Seq(Job)
      /\ engine \in Anyone /\ stream \in Stream /\ work # <<>> /\ work' = vk
      /\ turns' \in 0 .. MaxTurns /\ provider.counter \in Nat
      /\ UNCHANGED <<current, main, provider, changes>>
  BY Types DEF CInv, WorkerStep
<1>2. provider.created
  BY <1>1 DEF CInv, Uncreated
<1>3. j \in Job /\ j.user \in Anyone
  BY <1>1, Popped, JobKinds
<1>4. /\ vk \in Seq(Job)
      /\ j.op = "user" => Worker(vk, provider, j.user)
      /\ j.op # "user" => Worker(vk, provider, engine)
      /\ Owned(j) => j.user = engine
      /\ j.op = "resume" => j.token \in {Failed, j.user}
  BY <1>1, JobRun DEF CInv
<1>5. MovesOn(asks, main, work, asks, main, vk)
  BY <1>1, JobGone
<1>6. Single(asks, main, work, stream.closes) /\ j.op = "resume" /\ j.closes = stream.closes
        => Nothing(asks, main, vk, stream.closes)
  BY <1>1, JobGone
<1> HIDE DEF vk
<1>7. Waiting(asks, main, vk, stream) /\ Main(main, provider, current, asks)
  BY <1>5, StillWaiting DEF CInv
<1>8. CASE j.op = "user" /\ HandleCredentialChange(j.user)
  <2> DEFINE s == Stopped(stream)
  <2>1. /\ s \in Stream /\ s.state = "Initial" /\ Waiting(asks, main, vk, s)
        /\ UpTo(asks, main, vk, s.closes) /\ Nothing(asks, main, vk, s.closes)
    BY <1>1, <1>4, <1>7, StoppedKeeps
  <2>2. engine' = j.user /\ (Start(s) \/ (stream' = s /\ asks' = asks))
    BY <1>8 DEF HandleCredentialChange
  <2> HIDE DEF s, j
  <2>3. CASE stream' = s /\ asks' = asks
    BY <1>1, <1>2, <1>3, <1>4, <1>7, <1>8, <2>1, <2>2, <2>3, WorkerSteps DEF Speaks
  <2>4. CASE Start(s)
    <3>1. PICK c \in {provider.counter, provider.counter - 1} \cap Nat :
            asks' = asks \cup {Ask(s.closes, c)}
      BY <2>4 DEF Start
    <3>2. /\ asks' \in SUBSET Request /\ stream' \in Stream /\ stream'.state = "Starting"
          /\ Main(main, provider, current, asks') /\ Waiting(asks', main, vk, stream')
      BY <1>1, <1>7, <2>1, <2>4, <3>1, StartKeeps DEF Start
    <3> QED
      BY <1>1, <1>2, <1>3, <1>4, <1>8, <2>2, <3>2, WorkerSteps DEF Speaks
  <2> QED
    BY <2>2, <2>3, <2>4
<1>9. CASE j.op = "write" /\ WriteMutations
  BY <1>1, <1>2, <1>4, <1>7, <1>9, WorkerSteps DEF WriteMutations, CInv
<1>10. CASE j.op = "resume" /\ ResumeStartWithCredentials(j)
  <2>1. engine' = engine /\ asks' = asks /\ Worker(vk, provider, engine) /\ j.user = engine
    BY <1>4, <1>10 DEF ResumeStartWithCredentials, Owned
  <2>2. CASE j.closes # stream.closes
    <3>1. stream' = stream
      BY <1>10, <2>2 DEF ResumeStartWithCredentials
    <3> QED
      BY <1>1, <1>2, <1>4, <1>7, <2>1, <3>1, WorkerSteps DEF CInv
  <2>3. CASE j.closes = stream.closes /\ j.token = Failed
    <3>1. stream' = Close(stream, "Backoff")
      BY <1>10, <2>3 DEF ResumeStartWithCredentials
    <3>2. stream' \in Stream /\ stream'.state = "Backoff" /\ Waiting(asks, main, vk, stream')
      BY <1>1, <1>4, <1>7, <3>1, CloseKeeps
    <3> QED
      BY <1>1, <1>2, <1>4, <1>7, <2>1, <3>2, WorkerSteps DEF Speaks
  <2>4. CASE j.closes = stream.closes /\ j.token # Failed
    <3>1. stream' = [stream EXCEPT !.state = "Open", !.token = j.token] /\ j.token = engine
      BY <1>4, <1>10, <2>1, <2>4 DEF ResumeStartWithCredentials
    <3>2. /\ stream' \in Stream /\ stream'.state = "Open" /\ stream'.closes = stream.closes
          /\ stream'.token = engine
      BY <1>1, <3>1 DEF Stream
    <3>3. 1 \in 1 .. Len(work) /\ work[1] = j
      BY <1>1, Popped
    <3>4. Resuming(work, stream.closes, 1)
      BY <1>10, <2>4, <3>3 DEF Resuming
    <3>5. Single(asks, main, work, stream.closes)
      BY <3>3, <3>4 DEF CInv, Waiting, Nothing
    <3>6. Nothing(asks, main, vk, stream.closes) /\ UpTo(asks, main, vk, stream.closes)
      BY <1>6, <1>7, <1>10, <2>4, <3>5 DEF Waiting
    <3>7. Waiting(asks, main, vk, stream')
      BY <3>2, <3>6 DEF Waiting
    <3> QED
      BY <1>1, <1>2, <1>4, <1>7, <2>1, <3>2, <3>7, WorkerSteps DEF Speaks
  <2> QED
    BY <2>2, <2>3, <2>4
<1> QED
  BY <1>8, <1>9, <1>10 DEF WorkerStep

\* What the stream does by itself.
LEMMA StreamKeeps ==
  ASSUME CInv, StreamNeeded \/ StreamEnds \/ BackoffElapsed
  PROVE  CInv'
<1>1. /\ main \in Seq(Message) /\ asks \in SUBSET Request /\ work \in Seq(Job)
      /\ engine \in Anyone /\ stream \in Stream /\ provider.counter \in Nat
      /\ UNCHANGED <<current, main, provider, work, engine, changes>>
  BY Types DEF CInv, StreamNeeded, StreamEnds, BackoffElapsed
<1>2. turns' \in 0 .. MaxTurns
  BY Types, CredentialsAssumption, SMTT(30) DEF CInv, StreamNeeded, StreamEnds, BackoffElapsed, Turn
<1>3. provider.created
  BY DEF CInv, Uncreated, StreamNeeded, StreamEnds, BackoffElapsed
<1>4. CASE StreamEnds
  <2>1. PICK state \in {"Backoff", "Initial"} : stream' = Close(stream, state)
    BY <1>4 DEF StreamEnds
  <2>2. stream' \in Stream /\ stream'.state = state /\ Waiting(asks, main, work, stream')
    <3>1. state \in {"Initial", "Backoff"} /\ Waiting(asks, main, work, stream)
      BY DEF CInv
    <3> DEFINE t == Close(stream, state)
    <3>2. t \in Stream /\ t.state = state /\ Waiting(asks, main, work, t)
      BY <1>1, <3>1, CloseKeeps
    <3>3. stream' = t
      BY <2>1
    <3> HIDE DEF t
    <3> QED
      BY <3>2, <3>3
  <2> QED
    BY <1>1, <1>2, <1>3, <1>4, <2>2, WorkerSteps DEF StreamEnds, CInv, Speaks
<1>5. CASE StreamNeeded \/ BackoffElapsed
  <2>1. Start(stream) /\ stream.state # "Starting"
    BY <1>5 DEF StreamNeeded, BackoffElapsed
  <2>2. PICK c \in {provider.counter, provider.counter - 1} \cap Nat :
          asks' = asks \cup {Ask(stream.closes, c)}
    BY <2>1 DEF Start
  <2>3. UpTo(asks, main, work, stream.closes) /\ Nothing(asks, main, work, stream.closes)
    BY <2>1 DEF CInv, Waiting
  <2>4. stream' = [stream EXCEPT !.state = "Starting"] /\ Main(main, provider, current, asks)
    BY <2>1 DEF Start, CInv
  <2>5. /\ asks' \in SUBSET Request /\ stream' \in Stream /\ stream'.state = "Starting"
        /\ Main(main, provider, current, asks') /\ Waiting(asks', main, work, stream')
    BY <1>1, <2>2, <2>3, <2>4, StartKeeps
  <2> QED
    BY <1>1, <1>2, <1>3, <2>5, WorkerSteps DEF CInv, Speaks
<1> QED
  BY <1>4, <1>5

\* Every step, and every step that changes nothing.
LEMMA StepSound == CInv /\ [Next]_vars => CInv'
<1> SUFFICES ASSUME CInv, [Next]_vars PROVE CInv'
  OBVIOUS
<1>1. ASSUME NEW u \in Users, SignIn(u) PROVE CInv'
  BY <1>1, SignInKeeps
<1>2. CASE SignOut
  BY <1>2, SignOutKeeps
<1>3. ASSUME NEW a \in asks, FetchToken(a) PROVE CInv'
  BY <1>3, FetchKeeps
<1>4. ASSUME NEW a \in asks, TokenArrives(a) PROVE CInv'
  BY <1>4, ArrivalKeeps
<1>5. CASE CreateClient
  BY <1>5, CreateKeeps
<1>6. CASE MainStep
  BY <1>6, NewsKeep, SignedInKeeps, TokenKeeps DEF MainStep
<1>7. CASE WorkerStep
  BY <1>7, WorkerKeeps
<1>8. CASE StreamNeeded \/ StreamEnds \/ BackoffElapsed
  BY <1>8, StreamKeeps
<1>9. CASE UNCHANGED vars
  <2>1. UNCHANGED <<current, asks, main, provider, work, engine, stream, changes, turns>>
    BY <1>9 DEF vars
  <2>2. TypeOK' /\ Uncreated(provider, asks, work, stream)'
    BY <2>1 DEF CInv, TypeOK, Uncreated
  <2>3. Main(main, provider, current, asks)'
    BY <2>1 DEF CInv, Main, News, Callbacks, Asked, Answers
  <2>4. Worker(work, provider, engine)' /\ Speaks(stream, engine)'
    BY <2>1 DEF CInv, Worker, Handed, Owners, Tokens, Speaks
  <2>5. Waiting(asks, main, work, stream)'
    BY <2>1 DEF CInv, Waiting, UpTo, Single, Nothing
  <2> QED
    BY <2>2, <2>3, <2>4, <2>5 DEF CInv
<1> QED
  BY <1>1, <1>2, <1>3, <1>4, <1>5, <1>6, <1>7, <1>8, <1>9 DEF Next

\* The inductive invariant holds in every reachable state.
LEMMA CredentialsSound == Spec => []CInv
BY InitSound, StepSound, PTL DEF Spec

----------------------------------------------------------------------------
(***************************************************************************)
(* The theorems.                                                           *)
(***************************************************************************)
\* Every variable keeps its type.
THEOREM TypeCorrect == Spec => []TypeOK
<1>1. CInv => TypeOK
  BY DEF CInv
<1> QED
  BY <1>1, CredentialsSound, PTL

\* The callback of GetToken passes a token on with the user it belongs to.
THEOREM TokensSound == Spec => []TokenIsOfItsUser
<1>1. CInv => TokenIsOfItsUser
  <2> SUFFICES ASSUME CInv, NEW i \in DOMAIN work, work[i].op = "resume",
                      work[i].token # Failed
               PROVE  work[i].token = work[i].user
    BY DEF TokenIsOfItsUser
  <2>1. i \in 1 .. Len(work)
    BY Types DEF CInv
  <2> QED
    BY <2>1 DEF CInv, Worker, Tokens
<1> QED
  BY <1>1, CredentialsSound, PTL

\* An open call carries the token of the sync engine's user, whatever changes
\* of the user overtook its start.
THEOREM StreamsSpeakForUser == Spec => []OpenStreamSpeaksForUser
<1>1. CInv => OpenStreamSpeaksForUser
  BY DEF CInv, Speaks, OpenStreamSpeaksForUser
<1> QED
  BY <1>1, CredentialsSound, PTL

\* The assertion of ResumeStartWithCredentials holds: a token whose close count
\* is the stream's finds the stream starting.
THEOREM ResumesSound == Spec => []ResumeFindsStarting
<1>1. CInv => ResumeFindsStarting
  <2> SUFFICES ASSUME CInv, NEW i \in DOMAIN work, work[i].op = "resume",
                      work[i].closes = stream.closes
               PROVE  stream.state = "Starting"
    BY DEF ResumeFindsStarting
  <2>1. i \in 1 .. Len(work)
    BY Types DEF CInv
  <2> QED
    BY <2>1 DEF CInv, Waiting, Nothing, Resuming
<1> QED
  BY <1>1, CredentialsSound, PTL

\* What the callback of a sign-in writes joins the queue of the user who signed
\* in, although Auth, the provider and the engine change users one after
\* another.
THEOREM WritesSound == Spec => []WritesOwnedBySignedIn
<1>1. CInv => WritesOwnedBySignedIn
  <2> SUFFICES ASSUME CInv, work # <<>>, Head(work).op = "write", Head(work).heard
               PROVE  engine = Head(work).user
    BY DEF WritesOwnedBySignedIn
  <2>1. Owned(Head(work)) /\ work \in Seq(Job)
    BY Types DEF Owned, CInv
  <2> QED
    BY <2>1, JobRun DEF CInv
<1> QED
  BY <1>1, CredentialsSound, PTL
==============================================================================
