-------------------------- MODULE HandleWidthProofs --------------------------
(***************************************************************************)
(* Proofs about HandleWidth, for every Half: what survives the conversions *)
(* of a handle, and that the list works for the handles which do.          *)
(***************************************************************************)
EXTENDS HandleWidth, TLAPS

(* Taking away the upper half of an int64_t leaves the lower one.          *)
LEMMA LowerHalf ==
    ASSUME NEW v \in 0 .. Half - 1, NEW k \in Int
    PROVE  (v + k * Half) % Half = v
<1> DEFINE x == v + k * Half
           q == x \div Half
           r == x % Half
<1>1. Half \in Int /\ Half > 1 /\ v \in Int
  BY ConstantsAssumption
<1>2. x \in Int
  BY <1>1
<1>3. q \in Int /\ r \in 0 .. Half - 1 /\ x = Half * q + r
  BY <1>1, <1>2
<1> HIDE DEF q, r
<1>4. v - r = Half * (q - k)
  BY <1>1, <1>3
<1>5. q - k = 0
  <2>1. CASE q - k >= 1
    <3>1. Half * (q - k) >= Half
      BY <1>1, <1>3, <2>1
    <3> QED BY <1>1, <1>3, <1>4, <3>1
  <2>2. CASE q - k <= -1
    <3>1. Half * (q - k) <= -Half
      BY <1>1, <1>3, <2>2
    <3> QED BY <1>1, <1>3, <1>4, <3>1
  <2> QED BY <1>3, <2>1, <2>2
<1>6. v = r
  BY <1>1, <1>3, <1>4, <1>5
<1> QED BY <1>6 DEF r

(* The two ways in which 32 bits become 64 and are cut again.              *)
LEMMA SignExtended ==
    ASSUME NEW v \in 0 .. Half - 1
    PROVE  /\ ToInt64(32, v) % Half = v
           /\ v % Half = v
           /\ ToInt64(32, v) \in 0 .. Full - 1
<1>1. Half \in Int /\ Half > 1 /\ v \in Int
  BY ConstantsAssumption
<1>2. (v + 0 * Half) % Half = v /\ v + 0 * Half = v
  BY LowerHalf, <1>1
<1>3. (v + (Half - 1) * Half) % Half = v /\ v + (Half - 1) * Half = v + Full - Half
  BY LowerHalf, <1>1 DEF Full
<1>4. Full >= Half
  BY <1>1 DEF Full
<1> QED BY <1>1, <1>2, <1>3, <1>4 DEF ToInt64, Full

(* What the client is given fits its HANDLE, and unless it has lost its    *)
(* upper half, a request on it is applied to the handle it stands for.     *)
LEMMA RoundTrip ==
    ASSUME TypeOK, NEW c \in Clients, NEW v \in Handles(server)
    PROVE  /\ Given(c, v) \in Handles(width[c])
           /\ Given(c, v) \in Values
           /\ ~LosesUpperHalf(c, v) => Applied(c, Given(c, v)) = v
<1> USE ConstantsAssumption DEF TypeOK, Handles, Values, Given, Applied, ToHandle,
        SafeHandle, LosesUpperHalf, Widths
<1>1. Full \in Int /\ Full >= Half /\ Half \in Int /\ Half > 1
  BY DEF Full
<1>2. CASE server = 32
  <2>1. v \in 0 .. Half - 1
    BY <1>1, <1>2
  <2>2. /\ ToInt64(32, v) % Half = v
        /\ v % Half = v
        /\ ToInt64(32, v) \in 0 .. Full - 1
    BY <2>1, SignExtended
  <2>3. CASE width[c] = 32
    BY <1>1, <1>2, <2>1, <2>2, <2>3
  <2>4. CASE width[c] = 64
    BY <1>1, <1>2, <2>1, <2>2, <2>4
  <2> QED BY <2>3, <2>4
<1>3. CASE server = 64 /\ width[c] = 32
  <2>1. v \in 0 .. Full - 1 /\ ToInt64(64, v) = v
    BY <1>1, <1>3 DEF ToInt64
  <2>2. v % Half \in 0 .. Half - 1
    BY <1>1, <2>1
  <2>3. CASE v >= Half
    BY <1>1, <1>3, <2>1, <2>2, <2>3
  <2>4. CASE v < Half
    <3>1. v \in 0 .. Half - 1
      BY <1>1, <2>1, <2>4
    <3>2. ToInt64(32, v) % Half = v /\ v % Half = v
      BY <3>1, SignExtended
    <3> QED BY <1>1, <1>3, <2>1, <3>1, <3>2
  <2> QED BY <1>1, <2>1, <2>3, <2>4
<1>4. CASE server = 64 /\ width[c] = 64
  BY <1>1, <1>4 DEF ToInt64
<1> QED BY <1>2, <1>3, <1>4

-----------------------------------------------------------------------------
LEMMA Initially == Init => IInv
BY ConstantsAssumption DEF Init, IInv, TypeOK, HeldAsGiven, ReachesTheHandle, HandlesStayListed,
   OpenIsHeldOnce

LEMMA OpenKeeps ==
    ASSUME IInv, NEW c \in Clients, Open(c)
    PROVE  IInv'
<1> USE DEF IInv, TypeOK
<1>1. PICK v \in Handles(server) \ ({0} \cup open) :
          /\ open' = open \cup {v}
          /\ bx' = [bx EXCEPT ![c] = @ \cup {Listed(c, v)}]
          /\ held' = [held EXCEPT ![c] = @ \cup {[h |-> Given(c, v), v |-> v]}]
          /\ cut' = IF LosesUpperHalf(c, v) THEN cut \cup {c} ELSE cut
  BY DEF Open
<1>2. UNCHANGED <<server, width, asked>>
  BY DEF Open
<1> DEFINE new == [h |-> Given(c, v), v |-> v]
<1>3. Given(c, v) \in Handles(width[c]) /\ Given(c, v) \in Values
  BY RoundTrip
<1>4. Handles(server) \subseteq Values
  BY ConstantsAssumption DEF Handles, Values, Full, Widths
<1>5. new \in Held /\ new.h = Given(c, v) /\ new.v = v
  BY <1>3, <1>4 DEF Held
<1>6. \A d \in Clients : held'[d] = IF d = c THEN held[c] \cup {new} ELSE held[d]
  BY <1>1
<1>7. \A d \in Clients : bx'[d] = IF d = c THEN bx[c] \cup {Given(c, v)} ELSE bx[d]
  BY <1>1 DEF Listed
<1> HIDE DEF new
<1>8. TypeOK'
  <2>1. bx' \in [Clients -> SUBSET Values] /\ held' \in [Clients -> SUBSET Held]
    BY <1>1, <1>3, <1>5 DEF Listed, new
  <2>2. open' \in SUBSET Handles(server') /\ cut' \in SUBSET Clients
    BY <1>1, <1>2
  <2>3. \A d \in Clients : \A p \in held'[d] :
            p.h \in Handles(width'[d]) /\ p.v \in Handles(server')
    BY <1>2, <1>3, <1>5, <1>6
  <2> QED BY <1>2, <2>1, <2>2, <2>3 DEF Handles, Values, Held
<1>9. HeldAsGiven'
  <2>1. LosesUpperHalf(c, v) => c \in cut'
    BY <1>1
  <2>2. cut \subseteq cut'
    BY <1>1
  <2> QED BY <1>2, <1>5, <1>6, <2>1, <2>2
          DEF HeldAsGiven, Given, LosesUpperHalf, ToHandle, ToInt64
<1>10. ReachesTheHandle'
  BY <1>1, <1>2 DEF ReachesTheHandle
<1>11. HandlesStayListed'
  <2>1. SUFFICES ASSUME NEW d \in Clients \ cut'
                 PROVE  /\ \A p, q \in held'[d] : p.h = q.h => p = q
                        /\ \A p \in held'[d] : p.h \in bx'[d]
    BY DEF HandlesStayListed
  <2>2. d \notin cut
    BY <1>1, <2>1
  <2>3. CASE d # c
    BY <1>6, <1>7, <2>2, <2>3 DEF HandlesStayListed
  <2>4. CASE d = c
    <3>1. ~LosesUpperHalf(c, v)
      BY <1>1, <2>1, <2>4
    <3>2. \A q \in held[c] : q.h = new.h => q = new
      <4>1. TAKE q \in held[c]
      <4>2. HAVE q.h = new.h
      <4>3. q.h = Given(c, q.v) /\ ~LosesUpperHalf(c, q.v)
        BY <2>2, <2>4 DEF HeldAsGiven
      <4>4. Applied(c, q.h) = q.v
        BY <4>3, RoundTrip
      <4>5. Applied(c, new.h) = v
        BY <1>5, <3>1, RoundTrip
      <4>6. q \in Held
        OBVIOUS
      <4> QED BY <1>5, <4>2, <4>4, <4>5, <4>6 DEF Held
    <3>3. \A p, q \in held'[c] : p.h = q.h => p = q
      BY <1>6, <2>2, <2>4, <3>2 DEF HandlesStayListed
    <3>4. \A p \in held'[c] : p.h \in bx'[c]
      BY <1>5, <1>6, <1>7, <2>2, <2>4 DEF HandlesStayListed
    <3> QED BY <2>4, <3>3, <3>4
  <2> QED BY <2>3, <2>4
<1>12. OpenIsHeldOnce'
  <2>1. SUFFICES ASSUME cut' = {}
                 PROVE  /\ \A x \in open' : \E d \in Clients : \E p \in held'[d] : p.v = x
                        /\ \A d, e \in Clients : \A p \in held'[d], q \in held'[e] :
                              p.v = q.v => d = e /\ p.v \in open'
    BY DEF OpenIsHeldOnce
  <2>2. cut = {}
    BY <1>1, <2>1
  <2>3. /\ \A x \in open : \E d \in Clients : \E p \in held[d] : p.v = x
        /\ \A d, e \in Clients : \A p \in held[d], q \in held[e] :
              p.v = q.v => d = e /\ p.v \in open
    BY <2>2 DEF OpenIsHeldOnce
  <2>4. \A d \in Clients : \A p \in held[d] : p.v \in open /\ p.v # v
    BY <2>3
  <2>5. \A x \in open' : \E d \in Clients : \E p \in held'[d] : p.v = x
    BY SMTT(30), <1>1, <1>5, <1>6, <2>3
  <2>6. \A d, e \in Clients : \A p \in held'[d], q \in held'[e] :
            p.v = q.v => d = e /\ p.v \in open'
    BY <1>1, <1>5, <1>6, <2>3, <2>4
  <2> QED BY <2>5, <2>6
<1> QED BY <1>8, <1>9, <1>10, <1>11, <1>12

(* A request on a held and listed handle reaches the server's handle it    *)
(* was given for, whose number is an int64_t's.                            *)
LEMMA RequestsReach ==
    ASSUME IInv, NEW c \in Clients, NEW p \in held[c]
    PROVE  /\ Request(c, p) \in [client : Clients, v : Values, to : Values]
           /\ c \notin cut => Applied(c, p.h) = p.v
<1> USE DEF IInv, TypeOK
<1>1. p \in Held /\ p.h \in Handles(width[c]) /\ p.v \in Handles(server)
  OBVIOUS
<1>2. c \notin cut => Applied(c, p.h) = p.v
  BY <1>1, RoundTrip DEF HeldAsGiven
<1>3. Applied(c, p.h) \in Values
  <2>1. Half \in Int /\ Half > 1 /\ Full \in Int /\ Full >= Half
    BY ConstantsAssumption DEF Full
  <2>2. SafeHandle(width[c], p.h) \in Values
    <3>1. CASE width[c] = 32
      <4>1. p.h \in 0 .. Half - 1
        BY <1>1, <3>1 DEF Handles
      <4>2. ToInt64(32, p.h) % Half = p.h
        BY <4>1, SignExtended
      <4> QED BY <2>1, <3>1, <4>1, <4>2 DEF SafeHandle, Values, Handles
    <3>2. CASE width[c] = 64
      BY <1>1, <3>2 DEF SafeHandle, Values, Handles
    <3> QED BY <3>1, <3>2 DEF Widths
  <2>3. \A x \in Values : x % Half \in Values
    BY <2>1 DEF Values, Handles
  <2> QED BY <2>2, <2>3 DEF Applied, ToHandle
<1> QED BY <1>1, <1>2, <1>3 DEF Request, Held

LEMMA UseKeeps ==
    ASSUME IInv, NEW c \in Clients, NEW p \in held[c], Use(c, p)
    PROVE  IInv'
<1> USE DEF IInv
<1>1. asked' = Request(c, p) /\ UNCHANGED <<server, width, open, bx, held, cut>>
  BY DEF Use
<1>2. Request(c, p) \in [client : Clients, v : Values, to : Values]
  BY RequestsReach
<1>3. TypeOK'
  BY <1>1, <1>2 DEF TypeOK, Handles, Values, Held
<1>4. HeldAsGiven'
  BY <1>1 DEF HeldAsGiven, Given, LosesUpperHalf, ToHandle, ToInt64
<1>5. ReachesTheHandle'
  BY <1>1, RequestsReach DEF ReachesTheHandle, Request
<1>6. HandlesStayListed' /\ OpenIsHeldOnce'
  BY <1>1 DEF HandlesStayListed, OpenIsHeldOnce
<1> QED BY <1>3, <1>4, <1>5, <1>6

LEMMA CloseKeeps ==
    ASSUME IInv, NEW c \in Clients, NEW p \in held[c], Close(c, p)
    PROVE  IInv'
<1> USE DEF IInv
<1>1. /\ asked' = Request(c, p)
      /\ open' = open \ {Applied(c, p.h)}
      /\ UNCHANGED <<server, width, cut>>
  BY DEF Close
<1>2. \A d \in Clients : held'[d] = IF d = c THEN held[c] \ {p} ELSE held[d]
  BY DEF Close, TypeOK
<1>3. \A d \in Clients : bx'[d] = IF d = c THEN bx[c] \ {p.h} ELSE bx[d]
  BY DEF Close, TypeOK
<1>4. Request(c, p) \in [client : Clients, v : Values, to : Values]
  BY RequestsReach
<1>5. TypeOK'
  <2>1. bx' \in [Clients -> SUBSET Values] /\ held' \in [Clients -> SUBSET Held]
    BY DEF Close, TypeOK
  <2>2. \A d \in Clients : \A q \in held'[d] :
            q.h \in Handles(width'[d]) /\ q.v \in Handles(server')
    BY <1>1, <1>2 DEF TypeOK
  <2> QED BY <1>1, <1>4, <2>1, <2>2 DEF TypeOK, Handles, Values, Held
<1>6. HeldAsGiven'
  BY <1>1, <1>2 DEF HeldAsGiven, Given, LosesUpperHalf, ToHandle, ToInt64
<1>7. ReachesTheHandle'
  BY <1>1, RequestsReach DEF ReachesTheHandle, Request
<1>8. HandlesStayListed'
  BY <1>1, <1>2, <1>3 DEF HandlesStayListed
<1>9. OpenIsHeldOnce'
  <2>1. SUFFICES ASSUME cut = {}
                 PROVE  /\ \A x \in open' : \E d \in Clients : \E q \in held'[d] : q.v = x
                        /\ \A d, e \in Clients : \A q \in held'[d], r \in held'[e] :
                              q.v = r.v => d = e /\ q.v \in open'
    BY <1>1 DEF OpenIsHeldOnce
  <2>2. Applied(c, p.h) = p.v
    BY <2>1, RequestsReach
  <2>3. /\ \A x \in open : \E d \in Clients : \E q \in held[d] : q.v = x
        /\ \A d, e \in Clients : \A q \in held[d], r \in held[e] :
              q.v = r.v => d = e /\ q.v \in open
    BY <2>1 DEF OpenIsHeldOnce
  <2>4. \A d \in Clients : \A q \in held'[d] : q.v # p.v
    <3>1. SUFFICES ASSUME NEW d \in Clients, NEW q \in held'[d], q.v = p.v
                   PROVE  FALSE
      OBVIOUS
    <3>2. q \in held[d]
      BY <1>2
    <3>3. d = c
      BY <2>3, <3>1, <3>2
    <3>4. q.h = Given(c, q.v) /\ p.h = Given(c, p.v)
      BY <3>2, <3>3 DEF HeldAsGiven
    <3>5. q = p
      BY <2>1, <3>1, <3>2, <3>3, <3>4 DEF HandlesStayListed
    <3> QED BY <1>2, <3>3, <3>5
  <2>5. \A x \in open' : \E d \in Clients : \E q \in held'[d] : q.v = x
    BY <1>1, <1>2, <2>2, <2>3
  <2>6. \A d, e \in Clients : \A q \in held'[d], r \in held'[e] :
            q.v = r.v => d = e /\ q.v \in open'
    BY <1>1, <1>2, <2>2, <2>3, <2>4
  <2> QED BY <2>5, <2>6
<1> QED BY <1>5, <1>6, <1>7, <1>8, <1>9

(* Only a client whose handles have been cut gets here.                    *)
LEMMA CloseLocallyKeeps ==
    ASSUME IInv, NEW c \in Clients, NEW p \in held[c], CloseLocally(c, p)
    PROVE  IInv'
<1> USE DEF IInv
<1>1. UNCHANGED <<server, width, open, bx, asked, cut>>
  BY DEF CloseLocally
<1>2. \A d \in Clients : held'[d] = IF d = c THEN held[c] \ {p} ELSE held[d]
  BY DEF CloseLocally, TypeOK
<1>3. c \in cut
  BY DEF CloseLocally, HandlesStayListed
<1>4. TypeOK'
  <2>1. held' \in [Clients -> SUBSET Held]
    BY DEF CloseLocally, TypeOK
  <2>2. \A d \in Clients : \A q \in held'[d] :
            q.h \in Handles(width'[d]) /\ q.v \in Handles(server')
    BY <1>1, <1>2 DEF TypeOK
  <2> QED BY <1>1, <2>1, <2>2 DEF TypeOK, Handles, Values, Held
<1>5. HeldAsGiven'
  BY <1>1, <1>2 DEF HeldAsGiven, Given, LosesUpperHalf, ToHandle, ToInt64
<1>6. ReachesTheHandle'
  BY <1>1 DEF ReachesTheHandle
<1>7. HandlesStayListed'
  BY <1>1, <1>2 DEF HandlesStayListed
<1>8. OpenIsHeldOnce'
  BY <1>1, <1>3 DEF OpenIsHeldOnce
<1> QED BY <1>4, <1>5, <1>6, <1>7, <1>8

(* Handles keep their meaning through the conversions and the list, for    *)
(* every width of word: the invariant holds of every behaviour.            *)
THEOREM HandlesKeepMeaning == Spec => []IInv
<1>1. IInv /\ [Next]_vars => IInv'
  <2>1. SUFFICES ASSUME IInv, [Next]_vars PROVE IInv'
    OBVIOUS
  <2>2. ASSUME NEW c \in Clients, Open(c) PROVE IInv'
    BY <2>1, <2>2, OpenKeeps
  <2>3. ASSUME NEW c \in Clients, NEW p \in held[c], Use(c, p) PROVE IInv'
    BY <2>1, <2>3, UseKeeps
  <2>4. ASSUME NEW c \in Clients, NEW p \in held[c], Close(c, p) PROVE IInv'
    BY <2>1, <2>4, CloseKeeps
  <2>5. ASSUME NEW c \in Clients, NEW p \in held[c], CloseLocally(c, p) PROVE IInv'
    BY <2>1, <2>5, CloseLocallyKeeps
  <2>6. CASE UNCHANGED vars
    BY <2>1, <2>6 DEF vars, IInv, TypeOK, HeldAsGiven, ReachesTheHandle, HandlesStayListed,
       OpenIsHeldOnce, Handles, Values, Held, Given, LosesUpperHalf, ToHandle, ToInt64
  <2> QED BY <2>1, <2>2, <2>3, <2>4, <2>5, <2>6 DEF Next
<1> QED BY Initially, <1>1, PTL DEF Spec

(* Requests of a client whose handles are whole reach the handles they are *)
(* meant for, from and to processes of either width.                       *)
THEOREM RequestsReachTheirHandles == Spec => []ReachesTheHandle
<1>1. IInv => ReachesTheHandle
  BY DEF IInv
<1> QED BY <1>1, HandlesKeepMeaning, PTL

(* Such a client finds every handle it holds on its list until it closes   *)
(* that very handle.                                                       *)
THEOREM HandlesListedUntilClosed == Spec => []HandlesStayListed
<1>1. IInv => HandlesStayListed
  BY DEF IInv
<1> QED BY <1>1, HandlesKeepMeaning, PTL

(* While no handle has been cut, exactly one client can close each handle  *)
(* which is open on the server.                                            *)
THEOREM OpenHandlesHeldOnce == Spec => []OpenIsHeldOnce
<1>1. IInv => OpenIsHeldOnce
  BY DEF IInv
<1> QED BY <1>1, HandlesKeepMeaning, PTL

=============================================================================
