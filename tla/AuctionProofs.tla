---------------------------- MODULE AuctionProofs ----------------------------
(***************************************************************************)
(* For any bids, settings, period and latency of an auction: what is       *)
(* cleared comes into force when its time has come, and what is announced  *)
(* is what comes next; the curves list the bids in force; and a clearing   *)
(* that trades calls on the better bids.                                   *)
(*                                                                         *)
(* Sums over sets of places, sorting by rank and the walk along both       *)
(* curves are reasoned about by counting up: an injection of a finite set  *)
(* into itself is a surjection, which says that a set of numbers with 0 in *)
(* it, and with each number's successor, has them all.                     *)
(***************************************************************************)
EXTENDS Auction, FiniteSetTheorems, TLAPS

-----------------------------------------------------------------------------
(* The latency queue *)

Room == LatencyCount(config.latency)

\* How many frames a ring of room slots holds from the slot front to the slot back, and
\* the slot of the k-th of them, counted from 0.
Size(front, back, room) == IF front <= back THEN back - front ELSE back - front + room
At(front, k, room) == IF front + k < room THEN front + k ELSE front + k - room

Waiting == Size(latency_front, latency_back, Room)
Held(k) == framedata[At(latency_front, k, Room)]

\* Markets are cleared a period apart.
Clocked ==
    /\ config \in Markets /\ clock \in Int /\ clearat \in Int
    /\ clock < clearat /\ clearat % period = 0
    /\ cleared # {} => clearat = clock + period

\* The queue holds the frames to come, a period apart, the one cleared last at its end.
Queue ==
    /\ latency_front \in 0..(Room - 1) /\ latency_back \in 0..(Room - 1)
    /\ framedata = [n \in 0..(Room - 1) |-> framedata[n]]
    /\ config.latency = 0 => Waiting = 0
    /\ \A k \in 0..(Waiting - 1) :
         /\ Held(k).start_time = (clock + config.latency) - (Waiting - 1 - k) * period
         /\ Held(k).start_time > clock
         /\ Held(k) \in cleared

\* Each frame cleared is in the queue, or its time has come and the one in force is no older.
Filed ==
    \A f \in cleared :
        /\ f.start_time \in Int
        /\ f.start_time > clock => \E k \in 0..(Waiting - 1) : f = Held(k)
        /\ f.start_time <= clock => /\ current_frame \in cleared
                                    /\ current_frame.start_time <= clock
                                    /\ f.start_time <= current_frame.start_time

Announced ==
    config.latency > 0 =>
        \A f \in cleared : f.start_time > clock /\ f.start_time <= clock + period => f = next_frame

FrameInv == Clocked /\ Queue /\ Filed /\ Announced

-----------------------------------------------------------------------------
(* Arithmetic of times and of the ring of slots *)

\* There is room for what waits.
LEMMA RoomFits ==
    ASSUME NEW l \in Nat
    PROVE  LatencyCount(l) \in Nat /\ LatencyCount(l) >= 2 /\ l < (LatencyCount(l) - 1) * period
<1>1. period \in Nat /\ period > 0
  BY AuctionAssumption
<1> DEFINE q == l \div period
<1>2. q \in Int /\ l >= period * q /\ l < period * q + period
  BY <1>1, Z3
<1>4. LatencyCount(l) = q + 2
  BY DEF LatencyCount
<1> HIDE DEF q
<1>3. q \in Nat
  <2>1. q < 0 => period * q + period <= 0
    BY <1>1, <1>2, Z3
  <2> QED  BY <1>1, <1>2, <2>1
<1>5. period * q + period = (q + 1) * period
  BY <1>1, <1>3, Z3
<1> QED  BY <1>2, <1>3, <1>4, <1>5

\* The next clearing is at the next multiple of the period.
LEMMA NextClear ==
    ASSUME NEW t \in Int
    PROVE  /\ nextclear(t) \in Int /\ nextclear(t) > t /\ nextclear(t) % period = 0
           /\ t % period = 0 => nextclear(t) = t + period
<1>1. period \in Nat /\ period > 0
  BY AuctionAssumption
<1> DEFINE r == (t + period) % period
           q == (t + period) \div period
<1>2. r \in Nat /\ r < period /\ q \in Int /\ t + period = period * q + r
  BY <1>1, Z3
<1>3. nextclear(t) = t + period - r
  BY DEF nextclear
<1>4. ASSUME t % period = 0 PROVE r = 0
  <2> DEFINE x == t \div period
  <2>1. x \in Int /\ t = period * x
    BY <1>1, <1>4, Z3
  <2> HIDE DEF x
  <2>2. t + period = period * (x + 1)
    BY <1>1, <2>1, Z3
  <2>3. (period * (x + 1)) % period = 0
    BY <1>1, <2>1, Z3
  <2> QED  BY <2>2, <2>3
<1>5. (t + period - r) % period = 0
  <2>1. t + period - r = period * q
    BY <1>1, <1>2
  <2> HIDE DEF q, r
  <2>2. (period * q) % period = 0
    BY <1>1, <1>2, Z3
  <2> QED  BY <2>1, <2>2
<1> HIDE DEF q, r
<1> QED  BY <1>1, <1>2, <1>3, <1>4, <1>5

\* The slot after a slot.
LEMMA NextSlot ==
    ASSUME NEW L \in Nat, L > 0, NEW n \in 0..(L - 1)
    PROVE  (n + 1) % L = (IF n + 1 = L THEN 0 ELSE n + 1) /\ (n + 1) % L \in 0..(L - 1)
<1>1. CASE n + 1 = L
  <2>1. (n + 1) % L = 0
    BY <1>1, Z3
  <2> QED  BY <1>1, <2>1
<1>2. CASE n + 1 # L
  <2>1. (n + 1) % L = n + 1
    BY <1>2, Z3
  <2> QED  BY <1>2, <2>1
<1> QED  BY <1>1, <1>2

\* What the ring holds is in different slots.
LEMMA Ring ==
    ASSUME NEW room \in Nat, room >= 2, NEW front \in 0..(room - 1), NEW back \in 0..(room - 1)
    PROVE  /\ Size(front, back, room) \in 0..(room - 1)
           /\ Size(front, back, room) = 0 <=> front = back
           /\ At(front, 0, room) = front
           /\ At(front, Size(front, back, room), room) = back
           /\ \A k \in 0..(Size(front, back, room) - 1) :
                At(front, k, room) \in 0..(room - 1) /\ At(front, k, room) # back
BY DEF Size, At

\* Taking the first one leaves the others.
LEMMA RingPop ==
    ASSUME NEW room \in Nat, room >= 2, NEW front \in 0..(room - 1), NEW back \in 0..(room - 1),
           front # back, NEW n, n = (front + 1) % room
    PROVE  /\ n \in 0..(room - 1)
           /\ Size(n, back, room) = Size(front, back, room) - 1
           /\ \A k \in 0..(Size(front, back, room) - 2) : At(n, k, room) = At(front, k + 1, room)
<1>1. n = (IF front + 1 = room THEN 0 ELSE front + 1) /\ n \in 0..(room - 1)
  BY NextSlot
<1> QED  BY <1>1 DEF Size, At

\* There is a slot for one more, unless all but one are taken.
LEMMA RingPush ==
    ASSUME NEW room \in Nat, room >= 2, NEW front \in 0..(room - 1), NEW back \in 0..(room - 1),
           NEW n, n = (back + 1) % room
    PROVE  /\ n \in 0..(room - 1)
           /\ n = front => Size(front, back, room) = room - 1
           /\ n # front => Size(front, n, room) = Size(front, back, room) + 1
<1>1. n = (IF back + 1 = room THEN 0 ELSE back + 1) /\ n \in 0..(room - 1)
  BY NextSlot
<1> QED  BY <1>1 DEF Size

\* Of n + 1 frames a period apart, all but the first start a period after it or later.
LEMMA Earlier ==
    ASSUME NEW last \in Int, NEW n \in Int, NEW k \in Int, k >= 1
    PROVE  last - (n - k) * period >= last - n * period + period
<1>1. period \in Nat
  BY AuctionAssumption
<1> DEFINE x == k * period
           y == n * period
<1>2. x \in Int /\ y \in Int /\ (n - k) * period = y - x
  BY <1>1, Z3
<1>3. x >= period
  BY <1>1, Z3
<1> HIDE DEF x, y
<1> QED  BY <1>1, <1>2, <1>3 DEF y

\* Times a period apart.
LEMMA Apart ==
    ASSUME NEW last \in Int, NEW n \in Int, NEW k \in Int
    PROVE  /\ last - (n - 1 - k) * period \in Int
           /\ last - (n - 1 - (k + 1)) * period = last - (n - 1 - k) * period + period
           /\ (last + period) - ((n + 1) - 1 - k) * period = last - (n - 1 - k) * period
           /\ (last + period) - ((n + 1) - 1 - n) * period = last + period
           /\ k >= 1 => last - (n - 1 - k) * period >= last - (n - 1) * period + period
<1>1. period \in Nat /\ period > 0
  BY AuctionAssumption
<1> DEFINE m == n - 1
<1>2. m \in Int
  OBVIOUS
<1> HIDE DEF m
<1>3. /\ (m - k) * period = m * period - k * period
      /\ (m - (k + 1)) * period = m * period - k * period - period
      /\ ((m + 1) - k) * period = m * period - k * period + period
      /\ m * period \in Int /\ k * period \in Int
  BY <1>1, <1>2, Z3
<1>4. k >= 1 => k * period >= period
  BY <1>1, Z3
<1>5. (n + 1) - 1 - k = (m + 1) - k /\ (n + 1) - 1 - n = 0 /\ n - 1 - k = m - k
      /\ n - 1 - (k + 1) = m - (k + 1)
  BY DEF m
<1>6. 0 * period = 0
  BY <1>1
<1>7. n - 1 = m
  BY DEF m
<1> QED  BY <1>1, <1>3, <1>4, <1>5, <1>6, <1>7

-----------------------------------------------------------------------------
(* The steps *)

\* The constants and the room of the queue.
LEMMA Settings ==
    ASSUME Clocked
    PROVE  /\ config.latency \in Nat /\ period \in Nat /\ period > 0
           /\ Room \in Nat /\ Room >= 2 /\ config.latency < (Room - 1) * period
<1>1. config.latency \in Nat
  BY AuctionAssumption DEF Clocked
<1> QED  BY <1>1, RoomFits, AuctionAssumption DEF Room

\* Everything but a clearing leaves the frames as they are.
LEMMA FrameStay ==
    ASSUME FrameInv, UNCHANGED <<config, clock, clearat, frames, cleared>>
    PROVE  FrameInv'
<1>1. Room' = Room /\ Waiting' = Waiting /\ \A k : Held(k)' = Held(k)
  BY DEF Room, Waiting, Held, frames
<1>2. Clocked'
  BY DEF FrameInv, Clocked
<1>3. Queue'
  BY <1>1 DEF FrameInv, Queue, frames
<1>4. Filed' /\ Announced'
  BY <1>1 DEF FrameInv, Filed, Announced, frames
<1> QED  BY <1>2, <1>3, <1>4 DEF FrameInv

\* A clearing makes a frame that starts when the latency has passed.
LEMMA ClearingMakes ==
    ASSUME ClearMarket
    PROVE  /\ clock' = clearat /\ clearat' = nextclear(clearat) /\ config' = config
           /\ \E frame : /\ frame.start_time = clearat + config.latency
                         /\ cleared' = cleared \cup {frame}
                         /\ IF config.latency > 0 THEN Delayed(frame, clearat) ELSE Immediate(frame)
<1>1. clock' = clearat /\ clearat' = nextclear(clearat) /\ config' = config
  BY DEF ClearMarket
<1>2. \E price, quantity, type, margin :
         LET frame == Frame(market_id, clearat + config.latency, price, quantity, type, margin)
         IN /\ cleared' = cleared \cup {frame}
            /\ IF config.latency > 0 THEN Delayed(frame, clearat) ELSE Immediate(frame)
  BY DEF ClearMarket
<1>3. \A price, quantity, type, margin :
        Frame(market_id, clearat + config.latency, price, quantity, type, margin).start_time
          = clearat + config.latency
  BY DEF Frame
<1> QED  BY <1>1, <1>2, <1>3

\* Without latency the frame is in force at once.
LEMMA ImmediateStep ==
    ASSUME FrameInv, ClearMarket, ~(config.latency > 0)
    PROVE  FrameInv'
<1>1. PICK frame : /\ frame.start_time = clearat + config.latency
                   /\ cleared' = cleared \cup {frame} /\ Immediate(frame)
  BY ClearingMakes
<1>2. clock' = clearat /\ clearat' = nextclear(clearat) /\ config' = config
  BY ClearingMakes
<1>3. config.latency = 0 /\ Clocked /\ clock \in Int /\ clearat \in Int /\ clock < clearat
  BY Settings DEF FrameInv, Clocked
<1>4. Clocked'
  BY <1>1, <1>2, <1>3, NextClear DEF Clocked
<1>5. Waiting = 0 /\ Room' = Room /\ UNCHANGED <<framedata, latency_front, latency_back, next_frame>>
  BY <1>1, <1>2, <1>3 DEF FrameInv, Queue, Immediate, Room
<1>6. Waiting' = 0
  BY <1>5 DEF Waiting
<1>7. Queue'
  BY <1>5, <1>6 DEF FrameInv, Queue
<1>8. Filed'
  <2>1. current_frame' = frame /\ frame \in cleared' /\ frame.start_time = clearat
    BY <1>1, <1>3 DEF Immediate
  <2>2. \A f \in cleared : f.start_time \in Int /\ f.start_time <= clock
    BY <1>3, <1>5 DEF FrameInv, Filed
  <2>3. \A f \in cleared' : f.start_time \in Int /\ f.start_time <= clearat
    BY <1>1, <1>3, <2>1, <2>2
  <2> QED  BY <1>2, <1>3, <2>1, <2>3 DEF Filed
<1>9. Announced'
  BY <1>2, <1>3 DEF Announced
<1> QED  BY <1>4, <1>7, <1>8, <1>9 DEF FrameInv

\* What a delayed clearing does: at most one frame leaves the queue, and one joins it
\* unless it is full.
LEMMA DelayedMakes ==
    ASSUME NEW frame, NEW t, Delayed(frame, t)
    PROVE  /\ \/ /\ latency_front # latency_back /\ framedata[latency_front].start_time <= t
                 /\ latency_front' = (latency_front + 1) % Room /\ current_frame' = framedata[latency_front]
              \/ /\ ~(latency_front # latency_back /\ t >= framedata[latency_front].start_time)
                 /\ latency_front' = latency_front /\ current_frame' = current_frame
           /\ (latency_back + 1) % Room # latency_front' =>
                /\ framedata' = [framedata EXCEPT ![latency_back] = frame]
                /\ latency_back' = (latency_back + 1) % Room
           /\ next_frame' = Upcoming(framedata', latency_front', t)
<1> QED  BY DEF Delayed, Popped, Pushed, Applicable, Room

\* The queue after the first frame, if its time has come, has left it: the others are
\* still to come, and there is room for one more.
LEMMA PopStep ==
    ASSUME FrameInv, config.latency > 0, NEW front, NEW current,
           \/ /\ latency_front # latency_back /\ framedata[latency_front].start_time <= clearat
              /\ front = (latency_front + 1) % Room /\ current = framedata[latency_front]
           \/ /\ ~(latency_front # latency_back /\ clearat >= framedata[latency_front].start_time)
              /\ front = latency_front /\ current = current_frame,
           NEW n, n = Size(front, latency_back, Room)
    PROVE  /\ front \in 0..(Room - 1) /\ n \in 0..(Room - 2)
           /\ \A k \in 0..(n - 1) :
                LET f == framedata[At(front, k, Room)]
                IN /\ f.start_time = (clearat - period + config.latency) - (n - 1 - k) * period
                   /\ f.start_time > clearat /\ f \in cleared
           /\ \A f \in cleared :
                /\ f.start_time > clearat => \E k \in 0..(n - 1) : f = framedata[At(front, k, Room)]
                /\ f.start_time <= clearat => /\ current \in cleared
                                              /\ current.start_time <= clearat
                                              /\ f.start_time <= current.start_time
<1> DEFINE last == clock + config.latency
           Q == Waiting
<1>1. /\ config.latency \in Nat /\ period \in Nat /\ period > 0
      /\ Room \in Nat /\ Room >= 2 /\ config.latency < (Room - 1) * period
  BY Settings DEF FrameInv
<1>2. /\ latency_front \in 0..(Room - 1) /\ latency_back \in 0..(Room - 1)
      /\ clock \in Int /\ clearat \in Int /\ clock < clearat
      /\ cleared # {} => clearat = clock + period
      /\ \A f \in cleared : f.start_time \in Int
  BY DEF FrameInv, Queue, Clocked, Filed
<1>3. /\ Q \in 0..(Room - 1) /\ (Q = 0 <=> latency_front = latency_back)
      /\ At(latency_front, 0, Room) = latency_front
  BY <1>1, <1>2 DEF Waiting, Size, At
<1>4. \A k \in 0..(Q - 1) : /\ Held(k).start_time = last - (Q - 1 - k) * period
                            /\ Held(k).start_time > clock /\ Held(k) \in cleared
  BY DEF FrameInv, Queue
<1>5. last \in Int
  BY <1>1, <1>2
<1> HIDE DEF last, Q
\* The frames behind the first one start a period later at least.
<1>6. \A k \in 1..(Q - 1) : Held(k).start_time >= Held(0).start_time + period
  <2> SUFFICES ASSUME NEW k \in 1..(Q - 1) PROVE Held(k).start_time >= Held(0).start_time + period
    OBVIOUS
  <2>1. Q \in Int /\ k \in Int /\ k >= 1 /\ k \in 0..(Q - 1) /\ 0 \in 0..(Q - 1)
    BY <1>3
  <2>2. last - (Q - 1 - k) * period >= last - (Q - 1) * period + period
    BY <1>5, <2>1, Apart
  <2>3. Held(0).start_time = last - (Q - 1 - 0) * period /\ Q - 1 - 0 = Q - 1
    BY <1>3, <1>4, <2>1
  <2>4. Held(k).start_time = last - (Q - 1 - k) * period
    BY <1>4, <2>1
  <2> QED  BY <2>2, <2>3, <2>4
<1>7. Q > 0 => /\ clearat = clock + period /\ Held(0).start_time \in Int /\ Held(0) \in cleared
               /\ Held(0) = framedata[latency_front] /\ Held(0).start_time > clock
  BY <1>2, <1>3, <1>4 DEF Held
<1>8. \A f \in cleared : /\ f.start_time > clock => \E k \in 0..(Q - 1) : f = Held(k)
                         /\ f.start_time <= clock => /\ current_frame \in cleared
                                                     /\ current_frame.start_time <= clock
                                                     /\ f.start_time <= current_frame.start_time
  BY DEF FrameInv, Filed, Q
<1>9. CASE /\ latency_front # latency_back /\ framedata[latency_front].start_time <= clearat
           /\ front = (latency_front + 1) % Room /\ current = framedata[latency_front]
  <2>1. /\ front \in 0..(Room - 1) /\ n = Q - 1
        /\ \A k \in 0..(Q - 2) : At(front, k, Room) = At(latency_front, k + 1, Room)
    BY <1>1, <1>2, <1>9, RingPop DEF Q, Waiting
  <2>2. Q > 0 /\ current = Held(0) /\ Held(0).start_time <= clearat
    BY <1>3, <1>7, <1>9
  <2>3. \A k \in 0..(n - 1) : k + 1 \in 1..(Q - 1) /\ k + 1 \in 0..(Q - 1)
                              /\ framedata[At(front, k, Room)] = Held(k + 1)
    BY <1>3, <2>1 DEF Held
  <2>4. \A k \in 1..(Q - 1) : Held(k).start_time > clearat
    <3> SUFFICES ASSUME NEW k \in 1..(Q - 1) PROVE Held(k).start_time > clearat
      OBVIOUS
    <3>1. Held(k) \in cleared
      BY <1>3, <1>4
    <3> QED  BY <1>1, <1>2, <1>6, <1>7, <2>2, <3>1
  <2>5. \A k \in 0..(n - 1) :
          LET f == framedata[At(front, k, Room)]
          IN /\ f.start_time = (clearat - period + config.latency) - (n - 1 - k) * period
             /\ f.start_time > clearat /\ f \in cleared
    <3> SUFFICES ASSUME NEW k \in 0..(n - 1)
                 PROVE  /\ Held(k + 1).start_time = (clearat - period + config.latency) - (n - 1 - k) * period
                        /\ Held(k + 1).start_time > clearat /\ Held(k + 1) \in cleared
      BY <2>3
    <3> DEFINE x == (n - 1 - k) * period
    <3>1. Q - 1 - (k + 1) = n - 1 - k
      BY <1>3, <2>1
    <3>2. Held(k + 1).start_time = last - x
      BY <1>4, <2>3, <3>1
    <3>3. x \in Int
      BY <1>1, <1>3, <2>1
    <3> HIDE DEF x
    <3>4. Held(k + 1).start_time = (clearat - period + config.latency) - x
      BY <1>1, <1>2, <1>7, <2>2, <3>2, <3>3 DEF last
    <3> QED  BY <1>4, <2>3, <2>4, <3>4 DEF x
  <2>6. ASSUME NEW f \in cleared, f.start_time > clearat
        PROVE  \E k \in 0..(n - 1) : f = framedata[At(front, k, Room)]
    <3>1. PICK k \in 0..(Q - 1) : f = Held(k)
      BY <1>2, <1>8, <2>6
    <3>2. k # 0
      BY <1>2, <1>7, <2>2, <2>6, <3>1
    <3>3. k - 1 \in 0..(n - 1) /\ (k - 1) + 1 = k
      BY <1>3, <2>1, <3>2
    <3>4. framedata[At(front, k - 1, Room)] = Held((k - 1) + 1)
      BY <2>3, <3>3
    <3> QED  BY <3>1, <3>3, <3>4
  <2>7. ASSUME NEW f \in cleared, f.start_time <= clearat PROVE f.start_time <= current.start_time
    <3>1. CASE f.start_time <= clock
      BY <1>2, <1>7, <2>2, <3>1
    <3>2. CASE f.start_time > clock
      <4>1. PICK k \in 0..(Q - 1) : f = Held(k)
        BY <1>8, <3>2
      <4>2. k = 0
        <5>1. k \notin 1..(Q - 1)
          BY <1>2, <2>4, <2>7, <4>1
        <5> QED  BY <1>3, <5>1
      <4> QED  BY <1>2, <2>2, <4>1, <4>2
    <3> QED  BY <1>2, <3>1, <3>2
  <2>8. n \in 0..(Room - 2)
    BY <1>1, <1>3, <2>1, <2>2
  <2> QED  BY <1>7, <2>1, <2>2, <2>5, <2>6, <2>7, <2>8
<1>10. CASE /\ ~(latency_front # latency_back /\ clearat >= framedata[latency_front].start_time)
            /\ front = latency_front /\ current = current_frame
  <2>1. n = Q /\ \A k \in 0..(Q - 1) : framedata[At(front, k, Room)] = Held(k)
    BY <1>10 DEF Q, Waiting, Held
  <2>2. Q > 0 => Held(0).start_time > clearat
    BY <1>2, <1>3, <1>7, <1>10
  <2>3. \A k \in 0..(Q - 1) : Held(k).start_time > clearat
    <3> SUFFICES ASSUME NEW k \in 0..(Q - 1) PROVE Held(k).start_time > clearat
      OBVIOUS
    <3>1. Held(k) \in cleared /\ Q > 0
      BY <1>3, <1>4
    <3>2. k = 0 \/ k \in 1..(Q - 1)
      BY <1>3
    <3> QED  BY <1>1, <1>2, <1>6, <1>7, <2>2, <3>1, <3>2
  <2>4. \A k \in 0..(n - 1) :
          LET f == framedata[At(front, k, Room)]
          IN /\ f.start_time = (clearat - period + config.latency) - (n - 1 - k) * period
             /\ f.start_time > clearat /\ f \in cleared
    <3> SUFFICES ASSUME NEW k \in 0..(n - 1)
                 PROVE  /\ Held(k).start_time = (clearat - period + config.latency) - (n - 1 - k) * period
                        /\ Held(k).start_time > clearat /\ Held(k) \in cleared
      BY <2>1
    <3> DEFINE x == (n - 1 - k) * period
    <3>1. Q > 0
      BY <1>3, <2>1
    <3>2. Held(k).start_time = last - x
      BY <1>4, <2>1
    <3>3. x \in Int
      BY <1>1, <1>3, <2>1
    <3> HIDE DEF x
    <3>4. Held(k).start_time = (clearat - period + config.latency) - x
      BY <1>1, <1>2, <1>7, <3>1, <3>2, <3>3 DEF last
    <3> QED  BY <1>4, <2>1, <2>3, <3>4 DEF x
  <2>5. ASSUME NEW f \in cleared, f.start_time > clearat
        PROVE  \E k \in 0..(n - 1) : f = framedata[At(front, k, Room)]
    BY <1>2, <1>8, <2>1, <2>5
  <2>6. ASSUME NEW f \in cleared, f.start_time <= clearat
        PROVE  /\ current \in cleared /\ current.start_time <= clearat
               /\ f.start_time <= current.start_time
    <3>1. ~(f.start_time > clock)
      BY <1>2, <1>8, <2>3, <2>6
    <3>2. /\ current_frame \in cleared /\ current_frame.start_time <= clock
          /\ f.start_time <= current_frame.start_time
      BY <1>2, <1>8, <3>1
    <3> QED  BY <1>2, <1>10, <3>2
  <2>7. n \in 0..(Room - 2)
    <3>1. CASE Q = 0
      BY <1>1, <2>1, <3>1
    <3>2. CASE Q > 0
      <4>1. last - (Q - 1 - 0) * period > clearat
        BY <1>3, <1>4, <2>2, <3>2
      <4>2. clearat = clock + period /\ last = clock + config.latency
        BY <1>7, <3>2 DEF last
      <4>3. (Q - 1 - 0) * period = Q * period - period /\ Q * period \in Int
        BY <1>1, <1>3, Z3
      <4>4. Q * period < config.latency
        BY <1>1, <1>2, <4>1, <4>2, <4>3
      <4>5. Q * period < (Room - 1) * period
        <5>1. (Room - 1) * period \in Int
          BY <1>1
        <5> QED  BY <1>1, <4>3, <4>4, <5>1
      <4>6. Q < Room - 1
        BY <1>1, <1>3, <4>5, Z3
      <4> QED  BY <1>1, <1>3, <2>1, <4>6
    <3> QED  BY <1>3, <3>1, <3>2
  <2> QED  BY <1>2, <1>10, <2>4, <2>5, <2>6, <2>7
<1> QED  BY <1>9, <1>10

\* The frame joins the queue, which is not full, and the first one is announced when it
\* starts in the next period.
LEMMA DelayedStep ==
    ASSUME FrameInv, ClearMarket, config.latency > 0
    PROVE  FrameInv'
<1>1. PICK frame : /\ frame.start_time = clearat + config.latency
                   /\ cleared' = cleared \cup {frame} /\ Delayed(frame, clearat)
  BY ClearingMakes
<1>2. clock' = clearat /\ clearat' = nextclear(clearat) /\ config' = config /\ Room' = Room
  BY ClearingMakes DEF Room
<1>3. /\ config.latency \in Nat /\ period \in Nat /\ period > 0
      /\ Room \in Nat /\ Room >= 2
      /\ config \in Markets /\ clock \in Int /\ clearat \in Int /\ clock < clearat
      /\ clearat % period = 0
      /\ latency_back \in 0..(Room - 1) /\ framedata = [m \in 0..(Room - 1) |-> framedata[m]]
      /\ \A f \in cleared : f.start_time \in Int
  BY Settings DEF FrameInv, Clocked, Queue, Filed
<1> DEFINE front == latency_front'
           current == current_frame'
           n == Size(front, latency_back, Room)
           before(k) == framedata[At(front, k, Room)]
           after(k) == framedata'[At(front, k, Room)]
           last == clearat + config.latency
<1>4. /\ \/ /\ latency_front # latency_back /\ framedata[latency_front].start_time <= clearat
            /\ front = (latency_front + 1) % Room /\ current = framedata[latency_front]
         \/ /\ ~(latency_front # latency_back /\ clearat >= framedata[latency_front].start_time)
            /\ front = latency_front /\ current = current_frame
      /\ (latency_back + 1) % Room # front =>
           /\ framedata' = [framedata EXCEPT ![latency_back] = frame]
           /\ latency_back' = (latency_back + 1) % Room
      /\ next_frame' = Upcoming(framedata', front, clearat)
  BY <1>1, DelayedMakes
<1>5. /\ front \in 0..(Room - 1) /\ n \in 0..(Room - 2)
      /\ \A k \in 0..(n - 1) :
           /\ before(k).start_time = (clearat - period + config.latency) - (n - 1 - k) * period
           /\ before(k).start_time > clearat /\ before(k) \in cleared
      /\ \A f \in cleared :
           /\ f.start_time > clearat => \E k \in 0..(n - 1) : f = before(k)
           /\ f.start_time <= clearat => /\ current \in cleared
                                         /\ current.start_time <= clearat
                                         /\ f.start_time <= current.start_time
  BY <1>4, PopStep
<1>6. /\ framedata' = [framedata EXCEPT ![latency_back] = frame]
      /\ latency_back' \in 0..(Room - 1) /\ Waiting' = n + 1
  <2>1. (latency_back + 1) % Room # front
    BY <1>3, <1>5, RingPush
  <2>2. latency_back' = (latency_back + 1) % Room
    BY <1>4, <2>1
  <2>3. latency_back' \in 0..(Room - 1) /\ Size(front, latency_back', Room) = n + 1
    BY <1>3, <1>5, <2>1, <2>2, RingPush
  <2> QED  BY <1>2, <1>4, <2>1, <2>3 DEF Waiting
<1>7. /\ \A k \in 0..n : Held(k)' = after(k)
      /\ \A k \in 0..(n - 1) : after(k) = before(k)
      /\ after(n) = frame
  <2>1. /\ At(front, n, Room) = latency_back
        /\ \A k \in 0..(n - 1) : At(front, k, Room) \in 0..(Room - 1) /\ At(front, k, Room) # latency_back
    BY <1>3, <1>5, Ring
  <2>2. \A m \in 0..(Room - 1) : framedata'[m] = IF m = latency_back THEN frame ELSE framedata[m]
    BY <1>3, <1>6
  <2>3. \A k \in 0..n : Held(k)' = after(k)
    BY <1>2 DEF Held
  <2>4. after(n) = frame
    BY <1>3, <2>1, <2>2
  <2>5. ASSUME NEW k \in 0..(n - 1) PROVE after(k) = before(k)
    BY <2>1, <2>2
  <2> QED  BY <2>3, <2>4, <2>5
<1>14. last \in Int /\ n \in Nat
  BY <1>3, <1>5
<1> HIDE DEF n
<1>8. \A k \in 0..n : /\ Held(k)'.start_time = last - (n - k) * period
                      /\ Held(k)'.start_time > clearat /\ Held(k)' \in cleared'
  <2> SUFFICES ASSUME NEW k \in 0..n
               PROVE  /\ Held(k)'.start_time = last - (n - k) * period
                      /\ Held(k)'.start_time > clearat /\ Held(k)' \in cleared'
    OBVIOUS
  <2>1. CASE k = n
    <3>1. (n - n) * period = 0
      BY <1>3, <1>14
    <3>2. Held(k)' = frame
      <4>1. Held(k)' = after(k)
        BY <1>7
      <4> QED  BY <1>7, <2>1, <4>1
    <3>3. frame.start_time = last /\ last > clearat /\ frame \in cleared'
      BY <1>1, <1>3
    <3>4. last - (n - k) * period = last
      BY <1>14, <2>1, <3>1
    <3> QED  BY <3>2, <3>3, <3>4
  <2>2. CASE k # n
    <3>1. k \in 0..(n - 1) /\ n - k = (n - 1 - k) + 1
      BY <1>5, <2>2
    <3> DEFINE x == (n - 1 - k) * period
    <3>2. x \in Int /\ ((n - 1 - k) + 1) * period = x + period
      BY <1>3, <1>5, Z3
    <3>3. before(k).start_time = (clearat - period + config.latency) - x
      BY <1>5, <3>1
    <3> HIDE DEF x
    <3>4. before(k).start_time = last - (x + period)
      BY <1>3, <3>2, <3>3
    <3>5. before(k).start_time = last - (n - k) * period
      BY <3>1, <3>2, <3>4
    <3> QED  BY <1>1, <1>5, <1>7, <3>1, <3>5
  <2> QED  BY <2>1, <2>2
<1>9. Clocked'
  BY <1>2, <1>3, NextClear DEF Clocked
<1>10. Queue'
  <2>1. framedata' = [m \in 0..(Room - 1) |-> framedata'[m]]
    BY <1>3, <1>6
  <2>2. \A k \in 0..(Waiting' - 1) :
          /\ Held(k)'.start_time = (clock' + config'.latency) - (Waiting' - 1 - k) * period
          /\ Held(k)'.start_time > clock' /\ Held(k)' \in cleared'
    <3> SUFFICES ASSUME NEW k \in 0..n
                 PROVE  /\ Held(k)'.start_time = last - (n + 1 - 1 - k) * period
                        /\ Held(k)'.start_time > clearat /\ Held(k)' \in cleared'
      BY <1>2, <1>5, <1>6
    <3>1. n + 1 - 1 - k = n - k
      BY <1>5
    <3> QED  BY <1>8, <3>1
  <2> QED  BY <1>2, <1>3, <1>5, <1>6, <2>1, <2>2 DEF Queue
<1>11. \A f \in cleared' : f.start_time \in Int /\ (f.start_time > clearat => \E k \in 0..n : f = Held(k)')
  <2>1. ASSUME NEW f \in cleared, f.start_time > clearat PROVE \E k \in 0..n : f = Held(k)'
    <3>1. PICK k \in 0..(n - 1) : f = before(k)
      BY <1>5, <2>1
    <3> QED  BY <1>5, <1>7, <3>1
  <2>2. n \in 0..n
    BY <1>5
  <2>3. frame.start_time \in Int
    BY <1>1, <1>14
  <2>4. \E k \in 0..n : frame = Held(k)'
    <3>1. \E k \in 0..n : frame = after(k)
      BY <1>7, <2>2
    <3>2. PICK k \in 0..n : frame = after(k)
      BY <3>1
    <3> QED  BY <1>7, <3>2
  <2> QED  BY <1>1, <1>3, <2>1, <2>3, <2>4
<1>12. Filed'
  <2>1. \A f \in cleared' : f.start_time <= clearat => /\ current \in cleared'
                                                       /\ current.start_time <= clearat
                                                       /\ f.start_time <= current.start_time
    <3>1. ~(frame.start_time <= clearat)
      BY <1>1, <1>3
    <3> QED  BY <1>1, <1>5, <3>1
  <2>2. \A f \in cleared' : f.start_time > clock' => \E k \in 0..(Waiting' - 1) : f = Held(k)'
    BY <1>2, <1>5, <1>6, <1>11
  <2> QED  BY <1>2, <1>11, <2>1, <2>2 DEF Filed
<1>13. Announced'
  <2> SUFFICES ASSUME NEW f \in cleared', f.start_time > clearat, f.start_time <= clearat + period
               PROVE  f = next_frame'
    BY <1>2 DEF Announced
  <2>1. PICK k \in 0..n : f = Held(k)'
    BY <1>11
  <2>2. k = 0
    <3> SUFFICES ASSUME k >= 1 PROVE FALSE
      BY <1>5
    <3>1. 0 \in 0..n /\ n \in Int /\ n + 1 - 1 - k = n - k /\ n + 1 - 1 = n /\ n - 0 = n /\ last \in Int
      BY <1>3, <1>5
    <3>2. last - (n - k) * period >= last - n * period + period
      <4> HIDE DEF last
      <4>1. last \in Int /\ n \in Int /\ k \in Int /\ k >= 1
        BY <3>1
      <4> QED  BY <4>1, Earlier
    <3>3. Held(0)'.start_time = last - n * period /\ Held(0)'.start_time > clearat
      BY <1>8, <3>1
    <3>4. f.start_time = last - (n - k) * period
      BY <1>8, <2>1
    <3>5. last - n * period \in Int /\ last - (n - k) * period \in Int
      <4>1. n * period \in Int /\ (n - k) * period \in Int
        BY <1>3, <1>14
      <4> QED  BY <1>14, <4>1
    <3> QED  BY <1>3, <3>2, <3>3, <3>4, <3>5
  <2>3. f = framedata'[front]
    <3>1. At(front, 0, Room) = front
      BY <1>3, <1>5 DEF At
    <3> QED  BY <1>2, <2>1, <2>2, <3>1 DEF Held
  <2> QED  BY <1>4, <2>3 DEF Upcoming
<1> QED  BY <1>9, <1>10, <1>12, <1>13 DEF FrameInv

\* FrameInv holds at first,
LEMMA FrameStart == Init => FrameInv
<1> SUFFICES ASSUME Init PROVE FrameInv
  OBVIOUS
<1>1. cleared = {} /\ config \in Markets /\ clock = StartTime /\ clearat = nextclear(StartTime)
      /\ latency_front = 0 /\ latency_back = 0
      /\ framedata = [m \in 0..(Room - 1) |-> NoFrame]
  BY DEF Init, Room
<1>2. Clocked
  BY <1>1, NextClear, AuctionAssumption DEF Clocked
<1>3. Room \in Nat /\ Room >= 2
  BY <1>2, Settings
<1>4. Waiting = 0
  BY <1>1 DEF Waiting, Size
<1>5. Queue
  BY <1>1, <1>3, <1>4 DEF Queue
<1> QED  BY <1>1, <1>2, <1>5 DEF FrameInv, Filed, Announced

\* and is inductive.
LEMMA FrameNext == FrameInv /\ [Next]_vars => FrameInv'
<1> SUFFICES ASSUME FrameInv, [Next]_vars PROVE FrameInv'
  OBVIOUS
<1>1. CASE ClearMarket
  BY <1>1, ImmediateStep, DelayedStep
<1>2. CASE StrayRead \/ UNCHANGED vars \/ \E b \in Bidder : Bid(b)
  <2>1. UNCHANGED <<config, clock, clearat, frames, cleared>>
    BY <1>2 DEF StrayRead, vars, Bid
  <2> QED  BY <2>1, FrameStay
<1> QED  BY <1>1, <1>2 DEF Next

\* Whatever is bid, for any settings, period and latency: the frame in force is the latest
\* whose time has come, and the one that comes next is announced.
THEOREM FramesInTime == Spec => []FrameInForce
<1>1. Init => FrameInv
  BY FrameStart
<1>2. FrameInv /\ [Next]_vars => FrameInv'
  BY FrameNext
<1>3. FrameInv => FrameInForce
  BY DEF FrameInv, Filed, Announced, FrameInForce
<1> QED  BY <1>1, <1>2, <1>3, PTL DEF Spec

\* Counting up: the library's induction over numbers, with a set for the predicate.
LEMMA CountingUp ==
    ASSUME NEW N \in Nat, NEW S, 0 \in S, \A n \in 1..N : n - 1 \in S => n \in S
    PROVE  0..N \subseteq S
<1> SUFFICES ASSUME NEW k \in 0..N, k \notin S PROVE FALSE
  OBVIOUS
<1> DEFINE T == {n \in 0..k : n \notin S}
<1>1. IsFiniteSet(T)
  <2>1. IsFiniteSet(0..k) /\ T \in SUBSET (0..k)
    BY FS_Interval
  <2> QED  BY <2>1, FS_Subset
<1> DEFINE f == [n \in T |-> n - 1]
<1>2. f \in Injection(T, T)
  <2>1. \A n \in T : n - 1 \in T
    OBVIOUS
  <2> QED  BY <2>1 DEF Injection, IsInjective
<1>3. f \in Surjection(T, T)
  BY <1>1, <1>2, FS_Injection
<1>4. \E n \in T : f[n] = k
  <2>1. k \in T
    OBVIOUS
  <2> HIDE DEF f, T
  <2> QED  BY <1>3, <2>1 DEF Surjection
<1> QED  BY <1>4

-----------------------------------------------------------------------------
(* Sums *)

\* A function that adds up the quantities at the places in every subset of T, taking them
\* in the order of CHOOSE.
Adds(g, list, T) ==
    g = [s \in SUBSET T |-> IF s = {} THEN 0
                            ELSE list[CHOOSE x \in s : TRUE].quantity + g[s \ {CHOOSE x \in s : TRUE}]]

\* A function that adds them up, whatever the order.
Sums(g, list, T) ==
    g[{}] = 0 /\ \A s \in SUBSET T : \A n \in s : g[s] = list[n].quantity + g[s \ {n}]

\* A sum over places is a fold in some order, which adds the quantities one by one.
LEMMA QuantityAdds ==
    ASSUME NEW list, NEW T
    PROVE  Quantity(list, T) = (CHOOSE g : Adds(g, list, T))[T]
BY Zenon DEF Quantity, MapThenSumSet, MapThenFoldSet, Adds

\* Every finite set of places can be added up one by one.
LEMMA AddsExist ==
    ASSUME NEW list, NEW T, IsFiniteSet(T), \A n \in T : list[n].quantity \in Int
    PROVE  \E g \in [SUBSET T -> Int] : Adds(g, list, T)
<1> DEFINE Part(k) == {s \in SUBSET T : Cardinality(s) <= k}
           Pick(s) == CHOOSE x \in s : TRUE
           Eqn(g, s) == g[s] = IF s = {} THEN 0 ELSE list[Pick(s)].quantity + g[s \ {Pick(s)}]
           Upto == {k \in Nat : \E g \in [Part(k) -> Int] : \A s \in Part(k) : Eqn(g, s)}
<1>1. \A s \in SUBSET T : IsFiniteSet(s) /\ Cardinality(s) \in Nat /\ Cardinality(s) <= Cardinality(T)
  BY FS_Subset, FS_CardinalityType
<1>2. \A s \in SUBSET T : s # {} => Pick(s) \in s /\ Pick(s) \in T /\ s \ {Pick(s)} \in SUBSET T
                                   /\ Cardinality(s \ {Pick(s)}) = Cardinality(s) - 1
  <2> TAKE s \in SUBSET T
  <2> HAVE s # {}
  <2>1. Pick(s) \in s
    OBVIOUS
  <2> HIDE DEF Pick
  <2> QED  BY <1>1, <2>1, FS_RemoveElement
<1> HIDE DEF Pick
<1>3. 0 \in Upto
  <2>1. \A s \in SUBSET T : Cardinality(s) <= 0 => s = {}
    BY <1>1, FS_EmptySet
  <2>2. [s \in Part(0) |-> 0] \in [Part(0) -> Int]
    OBVIOUS
  <2>3. \A s \in Part(0) : Eqn([t \in Part(0) |-> 0], s)
    BY <2>1
  <2> QED  BY <2>2, <2>3
<1>4. ASSUME NEW k \in Nat, k > 0, k - 1 \in Upto PROVE k \in Upto
  <2>1. PICK g \in [Part(k - 1) -> Int] : \A s \in Part(k - 1) : Eqn(g, s)
    BY <1>4
  <2> DEFINE h == [s \in Part(k) |-> IF s = {} THEN 0 ELSE list[Pick(s)].quantity + g[s \ {Pick(s)}]]
  <2>2. \A s \in Part(k) : s # {} => s \ {Pick(s)} \in Part(k - 1)
    BY <1>1, <1>2
  <2>3. h \in [Part(k) -> Int]
    BY <1>2, <2>2
  <2>4. \A s \in Part(k - 1) : h[s] = g[s]
    <3>1. \A s \in Part(k - 1) : s \in Part(k)
      BY <1>1
    <3> QED  BY <2>1, <3>1
  <2>5. \A s \in Part(k) : Eqn(h, s)
    BY <1>2, <2>2, <2>4
  <2> HIDE DEF h
  <2> QED  BY <2>3, <2>5
<1>5. Cardinality(T) \in Nat /\ Cardinality(T) \in 0..Cardinality(T)
  BY <1>1
<1>6. Cardinality(T) \in Upto
  <2> HIDE DEF Upto
  <2> QED  BY <1>3, <1>4, <1>5, CountingUp
<1>7. Part(Cardinality(T)) = SUBSET T
  BY <1>1
<1>8. PICK g \in [SUBSET T -> Int] : \A s \in SUBSET T : Eqn(g, s)
  BY <1>6, <1>7
<1>9. Adds(g, list, T)
  BY <1>8 DEF Adds, Pick
<1> QED  BY <1>9

\* The sum is the same in whatever order the places are taken.
LEMMA AnyOrder ==
    ASSUME NEW list, NEW T, IsFiniteSet(T), \A n \in T : list[n].quantity \in Int
    PROVE  \E g \in [SUBSET T -> Int] : Sums(g, list, T)
<1>0. PICK g \in [SUBSET T -> Int] : Adds(g, list, T)
  BY AddsExist
<1> DEFINE Pick(s) == CHOOSE x \in s : TRUE
           Upto == {k \in Nat : \A s \in SUBSET T : \A n \in s :
                        Cardinality(s) = k => g[s] = list[n].quantity + g[s \ {n}]}
<1>1. \A s \in SUBSET T : IsFiniteSet(s) /\ Cardinality(s) \in Nat /\ Cardinality(s) <= Cardinality(T)
                          /\ \A n \in s : Cardinality(s \ {n}) = Cardinality(s) - 1
  BY FS_Subset, FS_CardinalityType, FS_RemoveElement
<1>2. \A s \in SUBSET T : s # {} => Pick(s) \in s /\ g[s] = list[Pick(s)].quantity + g[s \ {Pick(s)}]
  BY <1>0 DEF Adds
<1>3. g[{}] = 0
  BY <1>0 DEF Adds
<1> HIDE DEF Pick
<1>4. 0 \in Upto
  BY <1>1, FS_EmptySet
<1>5. ASSUME NEW k \in Nat, k > 0, k - 1 \in Upto PROVE k \in Upto
  <2> SUFFICES ASSUME NEW s \in SUBSET T, NEW n \in s, Cardinality(s) = k
               PROVE  g[s] = list[n].quantity + g[s \ {n}]
    OBVIOUS
  <2> DEFINE c == Pick(s)
  <2>1. c \in s /\ g[s] = list[c].quantity + g[s \ {c}]
    BY <1>2
  <2> HIDE DEF c
  <2>2. CASE n = c
    BY <2>1, <2>2
  <2>3. CASE n # c
    <3>1. s \ {c} \in SUBSET T /\ s \ {n} \in SUBSET T /\ n \in s \ {c} /\ c \in s \ {n}
      BY <2>1, <2>3
    <3>2. Cardinality(s \ {c}) = k - 1 /\ Cardinality(s \ {n}) = k - 1
      BY <1>1, <2>1
    <3>3. g[s \ {c}] = list[n].quantity + g[(s \ {c}) \ {n}]
      BY <1>5, <3>1, <3>2
    <3>4. g[s \ {n}] = list[c].quantity + g[(s \ {n}) \ {c}]
      BY <1>5, <3>1, <3>2
    <3>5. (s \ {c}) \ {n} = (s \ {n}) \ {c}
      OBVIOUS
    <3>6. list[n].quantity \in Int /\ list[c].quantity \in Int
      BY <2>1
    <3>7. g[(s \ {n}) \ {c}] \in Int
      OBVIOUS
    <3> DEFINE u == list[n].quantity
               v == list[c].quantity
               w == g[(s \ {n}) \ {c}]
    <3>8. g[s] = v + (u + w) /\ g[s \ {n}] = v + w
      BY <2>1, <3>3, <3>4, <3>5
    <3>9. u \in Int /\ v \in Int /\ w \in Int
      BY <3>6, <3>7
    <3> HIDE DEF u, v, w
    <3>10. v + (u + w) = u + (v + w)
      BY <3>9
    <3> QED  BY <3>8, <3>10 DEF u
  <2> QED  BY <2>2, <2>3
<1>6. \A k \in Nat : k \in Upto
  <2> HIDE DEF Upto
  <2> TAKE k \in Nat
  <2>1. 0..k \subseteq Upto
    BY <1>4, <1>5, CountingUp
  <2> QED  BY <2>1
<1>7. \A s \in SUBSET T : \A n \in s : g[s] = list[n].quantity + g[s \ {n}]
  BY <1>1, <1>6
<1> QED  BY <1>0, <1>3, <1>7 DEF Sums

\* One sum serves every set within T.
LEMMA OneSum ==
    ASSUME NEW list, NEW T, IsFiniteSet(T), \A n \in T : list[n].quantity \in Int
    PROVE  \E g \in [SUBSET T -> Int] :
              Sums(g, list, T) /\ \A s \in SUBSET T : Quantity(list, s) = g[s]
<1>1. PICK g \in [SUBSET T -> Int] : Sums(g, list, T)
  BY AnyOrder
<1>2. g[{}] = 0 /\ \A s \in SUBSET T : \A n \in s : g[s] = list[n].quantity + g[s \ {n}]
  BY <1>1 DEF Sums
<1>3. ASSUME NEW U \in SUBSET T PROVE Quantity(list, U) = g[U]
  <2>1. IsFiniteSet(U) /\ \A n \in U : list[n].quantity \in Int
    BY FS_Subset
  <2>2. PICK h0 \in [SUBSET U -> Int] : Adds(h0, list, U)
    BY <2>1, AddsExist
  <2> DEFINE h == CHOOSE h : Adds(h, list, U)
             Pick(s) == CHOOSE x \in s : TRUE
             Upto == {k \in Nat : \A s \in SUBSET U : Cardinality(s) = k => h[s] = g[s]}
  <2>3. Adds(h, list, U)
    BY <2>2
  <2>4. Quantity(list, U) = h[U]
    BY QuantityAdds
  <2> HIDE DEF h
  <2>5. \A s \in SUBSET U : IsFiniteSet(s) /\ Cardinality(s) \in Nat
                            /\ \A n \in s : Cardinality(s \ {n}) = Cardinality(s) - 1
    BY <2>1, FS_Subset, FS_CardinalityType, FS_RemoveElement
  <2>6. h[{}] = 0 /\ \A s \in SUBSET U : s # {} => Pick(s) \in s /\ h[s] = list[Pick(s)].quantity + h[s \ {Pick(s)}]
    BY <2>3 DEF Adds
  <2> HIDE DEF Pick
  <2>7. 0 \in Upto
    BY <1>2, <2>5, <2>6, FS_EmptySet
  <2>8. ASSUME NEW k \in Nat, k > 0, k - 1 \in Upto PROVE k \in Upto
    <3> SUFFICES ASSUME NEW s \in SUBSET U, Cardinality(s) = k PROVE h[s] = g[s]
      OBVIOUS
    <3>1. s # {}
      <4>1. Cardinality(s) # Cardinality({})
        BY <2>8, FS_EmptySet
      <4> QED  BY <4>1
    <3> DEFINE c == Pick(s)
    <3>2. c \in s /\ h[s] = list[c].quantity + h[s \ {c}]
      BY <2>6, <3>1
    <3> HIDE DEF c
    <3>3. s \ {c} \in SUBSET U /\ Cardinality(s \ {c}) = k - 1
      BY <2>5, <3>2
    <3>4. h[s \ {c}] = g[s \ {c}]
      BY <2>8, <3>3
    <3>5. g[s] = list[c].quantity + g[s \ {c}]
      BY <1>2, <3>2
    <3> QED  BY <3>2, <3>4, <3>5
  <2>9. Cardinality(U) \in Nat /\ U \in SUBSET U
    BY <2>5
  <2>10. Cardinality(U) \in Upto
    <3> HIDE DEF Upto
    <3>1. 0..Cardinality(U) \subseteq Upto
      BY <2>7, <2>8, <2>9, CountingUp
    <3> QED  BY <2>9, <3>1
  <2> QED  BY <2>4, <2>9, <2>10
<1> QED  BY <1>1, <1>3

\* Adding one place after the other leads to every set within T.
LEMMA Growing ==
    ASSUME NEW T, IsFiniteSet(T), NEW F, {} \in F,
           \A s \in SUBSET T : \A n \in T \ s : s \in F => s \cup {n} \in F
    PROVE  T \in F
<1> DEFINE Upto == {k \in Nat : \A s \in SUBSET T : Cardinality(s) = k => s \in F}
<1>1. \A s \in SUBSET T : IsFiniteSet(s) /\ Cardinality(s) \in Nat
                          /\ \A n \in s : Cardinality(s \ {n}) = Cardinality(s) - 1
  BY FS_Subset, FS_CardinalityType, FS_RemoveElement
<1>2. 0 \in Upto
  BY <1>1, FS_EmptySet
<1>3. ASSUME NEW k \in Nat, k > 0, k - 1 \in Upto PROVE k \in Upto
  <2> SUFFICES ASSUME NEW s \in SUBSET T, Cardinality(s) = k PROVE s \in F
    OBVIOUS
  <2>1. s # {}
    <3>1. Cardinality(s) # Cardinality({})
      BY <1>3, FS_EmptySet
    <3> QED  BY <3>1
  <2>2. PICK n \in s : TRUE
    BY <2>1
  <2>3. s \ {n} \in SUBSET T /\ n \in T \ (s \ {n}) /\ (s \ {n}) \cup {n} = s
    OBVIOUS
  <2>4. s \ {n} \in F
    BY <1>1, <1>3, <2>3
  <2> QED  BY <2>3, <2>4
<1>4. Cardinality(T) \in Nat /\ T \in SUBSET T
  BY <1>1
<1>5. Cardinality(T) \in Upto
  <2> HIDE DEF Upto
  <2>1. 0..Cardinality(T) \subseteq Upto
    BY <1>2, <1>3, <1>4, CountingUp
  <2> QED  BY <1>4, <2>1
<1> QED  BY <1>4, <1>5

\* The bids at the places T have quantities.
Counts(list, T) == IsFiniteSet(T) /\ \A n \in T : list[n].quantity \in Int
CountsUp(list, T) == IsFiniteSet(T) /\ \A n \in T : list[n].quantity \in Nat

\* The two ways to begin a sum: of no places, and of one more.
LEMMA QuantityTakes ==
    ASSUME NEW list, NEW T, Counts(list, T)
    PROVE  /\ Quantity(list, {}) = 0 /\ Quantity(list, T) \in Int
           /\ \A n \in T : Quantity(list, T) = list[n].quantity + Quantity(list, T \ {n})
<1>1. PICK g \in [SUBSET T -> Int] : Sums(g, list, T) /\ \A s \in SUBSET T : Quantity(list, s) = g[s]
  BY OneSum DEF Counts
<1>2. T \in SUBSET T /\ {} \in SUBSET T /\ \A n \in T : T \ {n} \in SUBSET T
  OBVIOUS
<1> QED  BY <1>1, <1>2 DEF Sums

\* One place more.
LEMMA QuantityMore ==
    ASSUME NEW list, NEW T, NEW n, n \notin T, Counts(list, T), list[n].quantity \in Int
    PROVE  Counts(list, T \cup {n}) /\ Quantity(list, T \cup {n}) = Quantity(list, T) + list[n].quantity
<1>1. Counts(list, T \cup {n})
  BY FS_AddElement DEF Counts
<1>2. (T \cup {n}) \ {n} = T /\ n \in T \cup {n}
  OBVIOUS
<1>3. Quantity(list, T \cup {n}) = list[n].quantity + Quantity(list, (T \cup {n}) \ {n})
  BY <1>1, <1>2, QuantityTakes
<1>4. Quantity(list, T) \in Int
  BY QuantityTakes
<1> DEFINE u == Quantity(list, T)
           v == list[n].quantity
<1>5. Quantity(list, T \cup {n}) = v + u
  BY <1>2, <1>3
<1>6. u \in Int /\ v \in Int
  BY <1>4
<1> HIDE DEF u, v
<1>7. Quantity(list, T \cup {n}) = u + v
  BY <1>5, <1>6
<1> QED  BY <1>1, <1>7 DEF u, v

\* Only the quantities at the places matter.
LEMMA QuantitySame ==
    ASSUME NEW list, NEW other, NEW T, Counts(list, T), \A n \in T : other[n].quantity = list[n].quantity
    PROVE  Quantity(other, T) = Quantity(list, T)
<1> DEFINE F == {s \in SUBSET T : Quantity(other, s) = Quantity(list, s)}
<1>1. \A s \in SUBSET T : Counts(list, s) /\ Counts(other, s)
  BY FS_Subset DEF Counts
<1>2. {} \in F
  BY <1>1, QuantityTakes
<1>3. ASSUME NEW s \in SUBSET T, NEW n \in T \ s, s \in F PROVE s \cup {n} \in F
  <2>1. n \notin s /\ list[n].quantity \in Int /\ other[n].quantity \in Int
    BY DEF Counts
  <2>2. Quantity(list, s \cup {n}) = Quantity(list, s) + list[n].quantity
    BY <1>1, <2>1, QuantityMore
  <2>3. Quantity(other, s \cup {n}) = Quantity(other, s) + other[n].quantity
    BY <1>1, <2>1, QuantityMore
  <2>4. Quantity(other, s) + other[n].quantity = Quantity(list, s) + list[n].quantity
    BY <1>3
  <2>5. s \cup {n} \in SUBSET T
    OBVIOUS
  <2> QED  BY <2>2, <2>3, <2>4, <2>5
<1> HIDE DEF F
<1>4. T \in F
  BY <1>2, <1>3, Growing DEF Counts
<1> QED  BY <1>4 DEF F

\* The sum of disjoint sets of places.
LEMMA QuantitySplit ==
    ASSUME NEW list, NEW S, NEW T, Counts(list, S), Counts(list, T), S \cap T = {}
    PROVE  Counts(list, S \cup T) /\ Quantity(list, S \cup T) = Quantity(list, S) + Quantity(list, T)
<1> DEFINE F == {s \in SUBSET T : Counts(list, S \cup s) /\ Quantity(list, S \cup s) = Quantity(list, S) + Quantity(list, s)}
<1>1. \A s \in SUBSET T : Counts(list, s) /\ Quantity(list, s) \in Int
  BY FS_Subset, QuantityTakes DEF Counts
<1>2. {} \in F
  <2>1. S \cup {} = S /\ Quantity(list, S) \in Int /\ Quantity(list, {}) = 0
    BY QuantityTakes
  <2> QED  BY <2>1
<1>3. ASSUME NEW s \in SUBSET T, NEW n \in T \ s, s \in F PROVE s \cup {n} \in F
  <2>1. list[n].quantity \in Int /\ n \notin S \cup s /\ S \cup (s \cup {n}) = (S \cup s) \cup {n}
    BY DEF Counts
  <2>2. /\ Counts(list, (S \cup s) \cup {n})
        /\ Quantity(list, (S \cup s) \cup {n}) = Quantity(list, S \cup s) + list[n].quantity
    BY <1>3, <2>1, QuantityMore
  <2>3. Quantity(list, s \cup {n}) = Quantity(list, s) + list[n].quantity
    BY <1>1, <2>1, QuantityMore
  <2>4. Quantity(list, S) \in Int /\ Quantity(list, s) \in Int
    BY <1>1, QuantityTakes
  <2>5. s \cup {n} \in SUBSET T /\ Quantity(list, S \cup s) = Quantity(list, S) + Quantity(list, s)
    BY <1>3
  <2> DEFINE u == Quantity(list, S)
             v == Quantity(list, s)
             w == list[n].quantity
  <2>6. Quantity(list, S \cup (s \cup {n})) = (u + v) + w /\ Quantity(list, s \cup {n}) = v + w
    BY <2>1, <2>2, <2>3, <2>5
  <2>7. u \in Int /\ v \in Int /\ w \in Int
    BY <2>1, <2>4
  <2> HIDE DEF u, v, w
  <2>8. (u + v) + w = u + (v + w)
    BY <2>7
  <2>9. Quantity(list, S \cup (s \cup {n})) = u + Quantity(list, s \cup {n})
    BY <2>6, <2>8
  <2> QED  BY <2>1, <2>2, <2>5, <2>9 DEF u
<1> HIDE DEF F
<1>4. T \in F
  BY <1>2, <1>3, Growing DEF Counts
<1> QED  BY <1>4 DEF F

\* More places, no less quantity, as no bid has a negative one.
LEMMA QuantityWithin ==
    ASSUME NEW list, NEW T, CountsUp(list, T), NEW S \in SUBSET T
    PROVE  /\ CountsUp(list, S) /\ Counts(list, S) /\ Counts(list, T)
           /\ Quantity(list, S) \in Nat /\ Quantity(list, T) \in Nat
           /\ Quantity(list, S) <= Quantity(list, T)
           /\ \A n \in T \ S : Quantity(list, S) + list[n].quantity <= Quantity(list, T)
<1>1. \A s \in SUBSET T : CountsUp(list, s) /\ Counts(list, s)
  BY FS_Subset DEF Counts, CountsUp
<1> DEFINE F == {s \in SUBSET T : Quantity(list, s) \in Nat}
<1>2. \A s \in SUBSET T : Quantity(list, s) \in Nat
  <2>1. {} \in F
    BY <1>1, QuantityTakes
  <2>2. ASSUME NEW s \in SUBSET T, NEW n \in T \ s, s \in F PROVE s \cup {n} \in F
    <3>1. n \notin s /\ list[n].quantity \in Nat /\ list[n].quantity \in Int
      BY DEF CountsUp
    <3>2. Quantity(list, s \cup {n}) = Quantity(list, s) + list[n].quantity
      BY <1>1, <3>1, QuantityMore
    <3>3. Quantity(list, s) \in Nat /\ s \cup {n} \in SUBSET T
      BY <2>2
    <3> DEFINE u == Quantity(list, s)
               v == list[n].quantity
    <3>4. u \in Nat /\ v \in Nat
      BY <3>1, <3>3
    <3> HIDE DEF u, v
    <3>5. u + v \in Nat
      BY <3>4
    <3> QED  BY <3>2, <3>3, <3>5 DEF u, v
  <2> TAKE t \in SUBSET T
  <2>3. \A s \in SUBSET t : \A n \in t \ s : s \in F => s \cup {n} \in F
    BY <2>2
  <2> HIDE DEF F
  <2>4. t \in F
    BY <1>1, <2>1, <2>3, Growing DEF Counts
  <2> QED  BY <2>4 DEF F
<1>3. ASSUME NEW s \in SUBSET T PROVE Quantity(list, s) <= Quantity(list, T)
  <2>1. s \cap (T \ s) = {} /\ s \cup (T \ s) = T
    OBVIOUS
  <2>2. Quantity(list, T) = Quantity(list, s) + Quantity(list, T \ s)
    BY <1>1, <2>1, QuantitySplit
  <2> QED  BY <1>2, <2>2
<1>4. ASSUME NEW n \in T \ S PROVE Quantity(list, S) + list[n].quantity <= Quantity(list, T)
  <2>1. n \notin S /\ list[n].quantity \in Int /\ S \cup {n} \in SUBSET T
    BY DEF CountsUp
  <2>2. Quantity(list, S \cup {n}) = Quantity(list, S) + list[n].quantity
    BY <1>1, <2>1, QuantityMore
  <2> QED  BY <1>3, <2>1, <2>2
<1> QED  BY <1>1, <1>2, <1>3, <1>4

-----------------------------------------------------------------------------
(* One side of a market *)

\* An array with places 1 to n.
Array(s, n) == s = [i \in 1..n |-> s[i]]

\* The fields of a curve, and arrays that are as long as it says.
Shape(c) ==
    /\ c = [len |-> c.len, n_bids |-> c.n_bids, bids |-> c.bids, keys |-> c.keys,
            bid_ids |-> c.bid_ids, total |-> c.total, total_on |-> c.total_on,
            total_off |-> c.total_off, garbage |-> c.garbage]
    /\ c.len \in Nat /\ c.n_bids \in Nat /\ c.n_bids <= c.len
    /\ Array(c.bids, c.len) /\ Array(c.keys, c.len) /\ Array(c.bid_ids, c.len)

\* Every bid in the arrays is one of B, the ones in memory nobody has written too.
Holds(c, B) == c.garbage \in B /\ \A i \in 1..c.len : c.bids[i] \in B

States == {"BS_ON", "BS_OFF", "BS_UNKNOWN"}
PlainBid(bid) == bid.quantity \in Int /\ bid.state \in States

\* What a bid counts for, and the first n of a list, in the total of these states.
Share(bid, states) == IF bid.state \in states THEN bid.quantity ELSE 0
Tally(list, n, states) == Quantity(list, {i \in 1..n : list[i].state \in states})

\* The totals of a curve are those of the bids it holds.
Totals(c) ==
    /\ c.total = Tally(c.bids, c.n_bids, States)
    /\ c.total_on = Tally(c.bids, c.n_bids, {"BS_ON"})
    /\ c.total_off = Tally(c.bids, c.n_bids, {"BS_OFF"})

\* The curve holds the bids `of` of the bidders S, each once, in the order they came in.
Kept(c, S, of) ==
    /\ Shape(c)
    /\ \A b \in S : PlainBid(of[b])
    /\ \A n \in 1..c.n_bids : c.keys[n] = n /\ c.bid_ids[n] \in S /\ c.bids[n] = of[c.bid_ids[n]]
    /\ \A b \in S : \E n \in 1..c.n_bids : c.bid_ids[n] = b
    /\ \A m, n \in 1..c.n_bids : c.bid_ids[m] = c.bid_ids[n] => m = n
    /\ Totals(c)

\* One bid more counts for its share.
LEMMA TallyOne ==
    ASSUME NEW list, NEW n \in Nat, NEW k \in 1..n, NEW states,
           \A i \in 1..n : i # k => list[i].quantity \in Int, list[k].quantity \in Int
    PROVE  LET rest == Quantity(list, {i \in 1..n : i # k /\ list[i].state \in states})
           IN  rest \in Int /\ Tally(list, n, states) = rest + Share(list[k], states)
<1> DEFINE T == {i \in 1..n : i # k /\ list[i].state \in states}
<1>1. IsFiniteSet(1..n) /\ T \in SUBSET (1..n)
  BY FS_Interval
<1>2. Counts(list, T)
  BY <1>1, FS_Subset DEF Counts
<1>3. Quantity(list, T) \in Int
  BY <1>2, QuantityTakes
<1>4. CASE list[k].state \in states
  <2>1. {i \in 1..n : list[i].state \in states} = T \cup {k} /\ k \notin T
    BY <1>4
  <2> HIDE DEF T
  <2>2. Quantity(list, T \cup {k}) = Quantity(list, T) + list[k].quantity
    BY <1>2, <2>1, QuantityMore
  <2> QED  BY <1>3, <1>4, <2>1, <2>2 DEF Tally, Share, T
<1>5. CASE list[k].state \notin states
  <2>1. {i \in 1..n : list[i].state \in states} = T
    BY <1>5
  <2> HIDE DEF T
  <2>2. Quantity(list, T) = Quantity(list, T) + 0
    BY <1>3
  <2> QED  BY <1>3, <1>5, <2>1, <2>2 DEF Tally, Share, T
<1> QED  BY <1>4, <1>5

\* Two lists of bids agree on the first n, on all of them but k.
Agree(list, other, n) == \A i \in 1..n : list[i].quantity \in Int /\ other[i] = list[i]
AgreeBut(list, other, n, k) ==
    \A i \in 1..n : list[i].quantity \in Int /\ (i # k => other[i] = list[i])

\* A list with one bid more has the tally of the shorter one and the share of the bid.
LEMMA TallyAppend ==
    ASSUME NEW list, NEW other, NEW n \in Nat, NEW states,
           Agree(list, other, n), other[n + 1].quantity \in Int
    PROVE  Tally(list, n, states) \in Int
           /\ Tally(other, n + 1, states) = Tally(list, n, states) + Share(other[n + 1], states)
<1>0. \A i \in 1..n : list[i].quantity \in Int /\ other[i] = list[i]
  BY DEF Agree
<1> DEFINE T == {i \in 1..n : list[i].state \in states}
<1>1. T = {i \in 1..(n + 1) : i # n + 1 /\ other[i].state \in states}
  BY <1>0
<1>2. IsFiniteSet(1..n) /\ T \in SUBSET (1..n)
  BY FS_Interval
<1>3. Counts(list, T) /\ \A i \in T : other[i].quantity = list[i].quantity
  BY <1>0, <1>2, FS_Subset DEF Counts
<1>4. n + 1 \in Nat /\ n + 1 \in 1..(n + 1) /\ \A i \in 1..(n + 1) : i # n + 1 => other[i].quantity \in Int
  <2>1. \A i \in 1..(n + 1) : i # n + 1 => i \in 1..n
    OBVIOUS
  <2> QED  BY <1>0, <2>1
<1>5. Tally(list, n, states) = Quantity(list, T)
  BY DEF Tally
<1> HIDE DEF T
<1>6. Quantity(other, T) = Quantity(list, T) /\ Quantity(list, T) \in Int
  BY <1>3, QuantitySame, QuantityTakes
<1>7. Tally(other, n + 1, states) = Quantity(other, T) + Share(other[n + 1], states)
  BY <1>1, <1>4, TallyOne
<1> QED  BY <1>5, <1>6, <1>7

\* A list with one bid replaced has its tally, less the old share and with the new one.
LEMMA TallyReplace ==
    ASSUME NEW list, NEW other, NEW n \in Nat, NEW k \in 1..n, NEW states,
           AgreeBut(list, other, n, k), other[k].quantity \in Int
    PROVE  Tally(list, n, states) \in Int
           /\ Tally(other, n, states)
                = (Tally(list, n, states) + (-1) * Share(list[k], states)) + Share(other[k], states)
<1>0. \A i \in 1..n : list[i].quantity \in Int /\ (i # k => other[i] = list[i])
  BY DEF AgreeBut
<1> DEFINE T == {i \in 1..n : i # k /\ list[i].state \in states}
<1>1. T = {i \in 1..n : i # k /\ other[i].state \in states}
  BY <1>0
<1>2. IsFiniteSet(1..n) /\ T \in SUBSET (1..n)
  BY FS_Interval
<1>3. Counts(list, T) /\ \A i \in T : other[i].quantity = list[i].quantity
  BY <1>0, <1>2, FS_Subset DEF Counts
<1>4. Tally(list, n, states) = Quantity(list, T) + Share(list[k], states)
  BY <1>0, TallyOne
<1>5. Tally(other, n, states) = Quantity(other, T) + Share(other[k], states)
  BY <1>0, <1>1, TallyOne
<1> HIDE DEF T
<1>6. Quantity(other, T) = Quantity(list, T) /\ Quantity(list, T) \in Int
  BY <1>3, QuantitySame, QuantityTakes
<1>7. Share(list[k], states) \in Int /\ Share(other[k], states) \in Int
  BY <1>0 DEF Share
<1> DEFINE u == Quantity(list, T)
           v == Share(list[k], states)
           w == Share(other[k], states)
<1>8. Tally(list, n, states) = u + v /\ Tally(other, n, states) = u + w
  BY <1>4, <1>5, <1>6
<1>9. u \in Int /\ v \in Int /\ w \in Int
  BY <1>6, <1>7
<1> HIDE DEF u, v, w
<1>10. ((u + v) + (-1) * v) + w = u + w /\ u + v \in Int
  BY <1>9
<1> QED  BY <1>8, <1>10 DEF v, w

\* r is the array s of n places, and after it the array t of m.
Extends(r, s, n, t, m) ==
    /\ Array(r, n + m)
    /\ \A i \in 1..n : r[i] = s[i]
    /\ \A i \in (n + 1)..(n + m) : r[i] = t[i - n]

\* What an array holds that another one was appended to.
LEMMA Appended ==
    ASSUME NEW s, NEW t, NEW n \in Nat, NEW m \in Nat, Array(s, n), Array(t, m)
    PROVE  Extends(s \o t, s, n, t, m)
<1>0. s = [i \in 1..n |-> s[i]] /\ t = [i \in 1..m |-> t[i]]
  BY DEF Array
<1>1. Len(s) = n /\ Len(t) = m
  BY <1>0
<1> DEFINE S == {s[i] : i \in 1..n} \cup {t[i] : i \in 1..m}
<1>2. s \in [1..n -> S] /\ t \in [1..m -> S]
  BY <1>0
<1> HIDE DEF S
<1>3. s \in Seq(S) /\ t \in Seq(S)
  BY <1>2
<1> DEFINE r == s \o t
<1>4. r \in Seq(S) /\ Len(r) = n + m
  BY <1>1, <1>3
<1>5. (\A i \in 1..n : r[i] = s[i]) /\ \A i \in (n + 1)..(n + m) : r[i] = t[i - n]
  BY <1>1, <1>3
<1> HIDE DEF r
<1>6. Array(r, n + m)
  BY <1>4 DEF Array
<1> QED  BY <1>5, <1>6 DEF r, Extends

-----------------------------------------------------------------------------
(* Submitting, replacing and removing a bid *)

\* What counting a bid changes.
CountsBid(d, c, bid, times) ==
    /\ Shape(d)
    /\ d.len = c.len /\ d.n_bids = c.n_bids /\ d.bids = c.bids /\ d.keys = c.keys
    /\ d.bid_ids = c.bid_ids /\ d.garbage = c.garbage
    /\ d.total = c.total + times * bid.quantity
    /\ d.total_on = IF bid.state = "BS_ON" THEN c.total_on + times * bid.quantity ELSE c.total_on
    /\ d.total_off = IF bid.state = "BS_OFF" THEN c.total_off + times * bid.quantity ELSE c.total_off

\* Counted changes the totals and nothing else.
LEMMA CountedMakes ==
    ASSUME NEW c, Shape(c), NEW bid, NEW times
    PROVE  CountsBid(Counted(c, bid, times), c, bid, times)
<1>1. c = [len |-> c.len, n_bids |-> c.n_bids, bids |-> c.bids, keys |-> c.keys,
           bid_ids |-> c.bid_ids, total |-> c.total, total_on |-> c.total_on,
           total_off |-> c.total_off, garbage |-> c.garbage]
  BY DEF Shape
<1> DEFINE d == Counted(c, bid, times)
<1>2. d = [len |-> c.len, n_bids |-> c.n_bids, bids |-> c.bids, keys |-> c.keys,
           bid_ids |-> c.bid_ids, total |-> c.total + times * bid.quantity,
           total_on |-> IF bid.state = "BS_ON" THEN c.total_on + times * bid.quantity ELSE c.total_on,
           total_off |-> IF bid.state = "BS_OFF" THEN c.total_off + times * bid.quantity ELSE c.total_off,
           garbage |-> c.garbage]
  <2>1. PICK len, n_bids, bids, keys, ids, t, on, off, garbage :
            c = [len |-> len, n_bids |-> n_bids, bids |-> bids, keys |-> keys, bid_ids |-> ids,
                 total |-> t, total_on |-> on, total_off |-> off, garbage |-> garbage]
    BY <1>1
  <2> DEFINE q == times * bid.quantity
  <2>2. d = [c EXCEPT !.total = @ + q,
                      !.total_on = IF bid.state = "BS_ON" THEN @ + q ELSE @,
                      !.total_off = IF bid.state = "BS_OFF" THEN @ + q ELSE @]
    BY DEF Counted
  <2> HIDE DEF q, d
  <2>3. d = [len |-> c.len, n_bids |-> c.n_bids, bids |-> c.bids, keys |-> c.keys,
             bid_ids |-> c.bid_ids, total |-> c.total + q,
             total_on |-> IF bid.state = "BS_ON" THEN c.total_on + q ELSE c.total_on,
             total_off |-> IF bid.state = "BS_OFF" THEN c.total_off + q ELSE c.total_off,
             garbage |-> c.garbage]
    BY <2>1, <2>2
  <2> QED  BY <2>3 DEF q
<1> HIDE DEF d
<1>3. /\ d.len = c.len /\ d.n_bids = c.n_bids /\ d.bids = c.bids /\ d.keys = c.keys
      /\ d.bid_ids = c.bid_ids /\ d.garbage = c.garbage
      /\ d.total = c.total + times * bid.quantity
      /\ d.total_on = IF bid.state = "BS_ON" THEN c.total_on + times * bid.quantity ELSE c.total_on
      /\ d.total_off = IF bid.state = "BS_OFF" THEN c.total_off + times * bid.quantity ELSE c.total_off
  BY <1>2
<1>4. d = [len |-> d.len, n_bids |-> d.n_bids, bids |-> d.bids, keys |-> d.keys,
           bid_ids |-> d.bid_ids, total |-> d.total, total_on |-> d.total_on,
           total_off |-> d.total_off, garbage |-> d.garbage]
  BY <1>2, <1>3
<1>5. Shape(d)
  BY <1>3, <1>4 DEF Shape
<1> QED  BY <1>3, <1>5 DEF d, CountsBid

\* There is room for one more bid after Grown, and what was there is kept.
LEMMA GrownMakes ==
    ASSUME NEW c, Shape(c)
    PROVE  LET g == Grown(c)
           IN  /\ Shape(g) /\ c.n_bids < g.len /\ g.n_bids = c.n_bids
               /\ g.total = c.total /\ g.total_on = c.total_on /\ g.total_off = c.total_off
               /\ \A i \in 1..c.n_bids : g.bids[i] = c.bids[i] /\ g.keys[i] = c.keys[i]
                                       /\ g.bid_ids[i] = c.bid_ids[i]
               /\ c.len <= g.len /\ \A B : Holds(c, B) => Holds(g, B)
<1> DEFINE room == IF c.len = 0 THEN FirstLen ELSE c.len
           rest(x) == [i \in 1..room |-> x]
<1>1. room \in Nat /\ room > 0
  BY CurveAssumption DEF Shape
<1>2. CASE c.n_bids < c.len
  <2>1. Grown(c) = c /\ c.len <= c.len
    BY <1>2 DEF Grown, Shape
  <2> QED  BY <1>2, <2>1
<1>3. CASE ~(c.n_bids < c.len)
  <2> HIDE DEF room
  <2>1. \A x : Array(rest(x), room)
    BY <1>1 DEF Array
  <2>12. \A x : \A i \in 1..room : rest(x)[i] = x
    OBVIOUS
  <2>2. Grown(c) = [c EXCEPT !.len = @ + room, !.bids = @ \o rest(c.garbage),
                             !.keys = @ \o rest(0), !.bid_ids = @ \o rest(c.garbage.id)]
    BY <1>3 DEF Grown, room
  <2> HIDE DEF rest
  <2> DEFINE bids == c.bids \o rest(c.garbage)
             keys == c.keys \o rest(0)
             ids == c.bid_ids \o rest(c.garbage.id)
  <2>13. /\ Extends(bids, c.bids, c.len, rest(c.garbage), room)
         /\ Extends(keys, c.keys, c.len, rest(0), room)
         /\ Extends(ids, c.bid_ids, c.len, rest(c.garbage.id), room)
    <3>1. c.len \in Nat /\ Array(c.bids, c.len) /\ Array(c.keys, c.len) /\ Array(c.bid_ids, c.len)
      BY DEF Shape
    <3>2. Extends(bids, c.bids, c.len, rest(c.garbage), room)
      BY <1>1, <2>1, <3>1, Appended
    <3>3. Extends(keys, c.keys, c.len, rest(0), room)
      BY <1>1, <2>1, <3>1, Appended
    <3>4. Extends(ids, c.bid_ids, c.len, rest(c.garbage.id), room)
      BY <1>1, <2>1, <3>1, Appended
    <3> QED  BY <3>2, <3>3, <3>4
  <2>3. /\ Array(bids, c.len + room) /\ \A i \in 1..c.len : bids[i] = c.bids[i]
        /\ Array(keys, c.len + room) /\ \A i \in 1..c.len : keys[i] = c.keys[i]
        /\ Array(ids, c.len + room) /\ \A i \in 1..c.len : ids[i] = c.bid_ids[i]
    <3> HIDE DEF bids, keys, ids
    <3> QED  BY <2>13 DEF Extends
  <2>4. Grown(c) = [len |-> c.len + room, n_bids |-> c.n_bids, bids |-> bids, keys |-> keys,
                    bid_ids |-> ids, total |-> c.total, total_on |-> c.total_on,
                    total_off |-> c.total_off, garbage |-> c.garbage]
    BY <2>2 DEF Shape
  <2> HIDE DEF bids, keys, ids
  <2>5. c.n_bids \in Nat /\ c.len \in Nat /\ c.n_bids = c.len /\ c.len + room \in Nat
    BY <1>1, <1>3 DEF Shape
  <2> DEFINE g == Grown(c)
  <2>6. /\ g.len = c.len + room /\ g.n_bids = c.n_bids /\ g.bids = bids /\ g.keys = keys
        /\ g.bid_ids = ids /\ g.total = c.total /\ g.total_on = c.total_on
        /\ g.total_off = c.total_off /\ g.garbage = c.garbage
    BY <2>4
  <2>7. g = [len |-> g.len, n_bids |-> g.n_bids, bids |-> g.bids, keys |-> g.keys,
             bid_ids |-> g.bid_ids, total |-> g.total, total_on |-> g.total_on,
             total_off |-> g.total_off, garbage |-> g.garbage]
    BY <2>4, <2>6
  <2> HIDE DEF g
  <2>8. Shape(g)
    BY <1>1, <2>3, <2>5, <2>6, <2>7 DEF Shape
  <2>9. c.n_bids < g.len /\ c.len <= g.len
    BY <1>1, <2>5, <2>6
  <2>10. \A i \in 1..c.n_bids : g.bids[i] = c.bids[i] /\ g.keys[i] = c.keys[i] /\ g.bid_ids[i] = c.bid_ids[i]
    BY <2>3, <2>5, <2>6
  <2>11. ASSUME NEW B, Holds(c, B) PROVE Holds(g, B)
    <3>1. ASSUME NEW i \in 1..(c.len + room) PROVE bids[i] \in B
      <4>1. i \in 1..c.len \/ (i \in (c.len + 1)..(c.len + room) /\ i - c.len \in 1..room)
        BY <1>1, <2>5
      <4>2. CASE i \in 1..c.len
        BY <2>3, <2>11, <4>2 DEF Holds
      <4>3. CASE i \in (c.len + 1)..(c.len + room) /\ i - c.len \in 1..room
        <5>1. bids[i] = rest(c.garbage)[i - c.len]
          BY <2>13, <4>3 DEF Extends
        <5>2. rest(c.garbage)[i - c.len] = c.garbage
          BY <2>12, <4>3
        <5> QED  BY <2>11, <5>1, <5>2 DEF Holds
      <4> QED  BY <4>1, <4>2, <4>3
    <3> QED  BY <2>6, <2>11, <3>1 DEF Holds
  <2> QED  BY <2>6, <2>8, <2>9, <2>10, <2>11 DEF g
<1> QED  BY <1>2, <1>3

\* A bid that is submitted comes after the others.
SubmitsBid(d, c, bid) ==
    LET n == c.n_bids + 1
    IN  /\ Shape(d) /\ d.n_bids = n
        /\ d.keys[n] = n /\ d.bid_ids[n] = bid.id /\ d.bids[n] = bid
        /\ \A i \in 1..c.n_bids : d.bids[i] = c.bids[i] /\ d.keys[i] = c.keys[i]
                                /\ d.bid_ids[i] = c.bid_ids[i]
        /\ d.total = c.total + 1 * bid.quantity
        /\ d.total_on = IF bid.state = "BS_ON" THEN c.total_on + 1 * bid.quantity ELSE c.total_on
        /\ d.total_off = IF bid.state = "BS_OFF" THEN c.total_off + 1 * bid.quantity ELSE c.total_off
        /\ c.len <= d.len /\ \A B : Holds(c, B) /\ bid \in B => Holds(d, B)

\* What Submit makes of a curve.
LEMMA SubmitMakes ==
    ASSUME NEW c, Shape(c), NEW bid
    PROVE  SubmitsBid(Submit(c, bid), c, bid)
<1> DEFINE g == Grown(c)
           n == c.n_bids + 1
           e == [g EXCEPT !.keys[n] = n, !.bid_ids[n] = bid.id, !.bids[n] = bid, !.n_bids = n]
<1>1. /\ Shape(g) /\ c.n_bids < g.len /\ g.n_bids = c.n_bids
      /\ g.total = c.total /\ g.total_on = c.total_on /\ g.total_off = c.total_off
      /\ \A i \in 1..c.n_bids : g.bids[i] = c.bids[i] /\ g.keys[i] = c.keys[i]
                              /\ g.bid_ids[i] = c.bid_ids[i]
      /\ c.len <= g.len /\ \A B : Holds(c, B) => Holds(g, B)
  BY GrownMakes
<1>2. Submit(c, bid) = Counted(e, bid, 1)
  BY <1>1 DEF Submit
<1> HIDE DEF g
<1>3. c.n_bids \in Nat
  BY DEF Shape
<1>4. e = [len |-> g.len, n_bids |-> n, bids |-> [g.bids EXCEPT ![n] = bid],
           keys |-> [g.keys EXCEPT ![n] = n], bid_ids |-> [g.bid_ids EXCEPT ![n] = bid.id],
           total |-> g.total, total_on |-> g.total_on, total_off |-> g.total_off, garbage |-> g.garbage]
  <2>1. g = [len |-> g.len, n_bids |-> g.n_bids, bids |-> g.bids, keys |-> g.keys,
             bid_ids |-> g.bid_ids, total |-> g.total, total_on |-> g.total_on,
             total_off |-> g.total_off, garbage |-> g.garbage]
    BY <1>1 DEF Shape
  <2>2. PICK len, n_bids, bids, keys, ids, t, on, off, garbage :
            g = [len |-> len, n_bids |-> n_bids, bids |-> bids, keys |-> keys, bid_ids |-> ids,
                 total |-> t, total_on |-> on, total_off |-> off, garbage |-> garbage]
    BY <2>1
  <2>3. e = [g EXCEPT !.keys[n] = n, !.bid_ids[n] = bid.id, !.bids[n] = bid, !.n_bids = n]
    OBVIOUS
  <2> HIDE DEF n, e
  <2> QED  BY <2>2, <2>3
<1> HIDE DEF e
<1>5. n \in 1..g.len /\ n \in Nat
  BY <1>1, <1>3 DEF Shape
<1>6. /\ Shape(e) /\ e.n_bids = n /\ e.keys[n] = n /\ e.bid_ids[n] = bid.id /\ e.bids[n] = bid
      /\ e.total = c.total /\ e.total_on = c.total_on /\ e.total_off = c.total_off
      /\ \A i \in 1..c.n_bids : e.bids[i] = g.bids[i] /\ e.keys[i] = g.keys[i]
                              /\ e.bid_ids[i] = g.bid_ids[i]
  <2>1. /\ e.len = g.len /\ e.n_bids = n /\ e.bids = [g.bids EXCEPT ![n] = bid]
        /\ e.keys = [g.keys EXCEPT ![n] = n] /\ e.bid_ids = [g.bid_ids EXCEPT ![n] = bid.id]
        /\ e.total = g.total /\ e.total_on = g.total_on /\ e.total_off = g.total_off
        /\ e.garbage = g.garbage
    BY <1>4
  <2>2. e = [len |-> e.len, n_bids |-> e.n_bids, bids |-> e.bids, keys |-> e.keys,
             bid_ids |-> e.bid_ids, total |-> e.total, total_on |-> e.total_on,
             total_off |-> e.total_off, garbage |-> e.garbage]
    BY <1>4, <2>1
  <2>3. /\ Array(g.bids, g.len) /\ Array(g.keys, g.len) /\ Array(g.bid_ids, g.len)
        /\ g.len \in Nat
    BY <1>1 DEF Shape
  <2>4. /\ Array(e.bids, e.len) /\ Array(e.keys, e.len) /\ Array(e.bid_ids, e.len)
        /\ e.keys[n] = n /\ e.bid_ids[n] = bid.id /\ e.bids[n] = bid
    BY <1>5, <2>1, <2>3 DEF Array
  <2>5. \A i \in 1..c.n_bids : i # n /\ i \in 1..g.len
    BY <1>1, <1>3, <2>3
  <2>6. \A i \in 1..c.n_bids : e.bids[i] = g.bids[i] /\ e.keys[i] = g.keys[i]
                             /\ e.bid_ids[i] = g.bid_ids[i]
    BY <2>1, <2>3, <2>5 DEF Array
  <2>7. n \in Nat /\ n <= g.len
    BY <1>5, <2>3
  <2>8. Shape(e)
    BY <2>1, <2>2, <2>3, <2>4, <2>7 DEF Shape
  <2> HIDE DEF n
  <2> QED  BY <1>1, <2>1, <2>4, <2>6, <2>8
<1>7. CountsBid(Counted(e, bid, 1), e, bid, 1)
  BY <1>6, CountedMakes
<1>8. ASSUME NEW B, Holds(c, B), bid \in B PROVE Holds(Counted(e, bid, 1), B)
  <2>1. Holds(g, B)
    BY <1>1, <1>8
  <2>2. /\ e.len = g.len /\ e.garbage = g.garbage /\ e.bids = [g.bids EXCEPT ![n] = bid]
    BY <1>4
  <2>3. Array(g.bids, g.len)
    BY <1>1 DEF Shape
  <2>4. \A i \in 1..g.len : e.bids[i] \in B
    BY <1>8, <2>1, <2>2, <2>3 DEF Holds, Array
  <2>5. Holds(e, B)
    BY <2>1, <2>2, <2>4 DEF Holds
  <2> QED  BY <1>7, <2>5 DEF Holds, CountsBid
<1>9. e.len = g.len
  BY <1>4
<1> HIDE DEF n
<1> QED  BY <1>1, <1>2, <1>6, <1>7, <1>8, <1>9 DEF n, CountsBid, SubmitsBid

\* A bid of a bidder who is not on the side yet joins those it holds.
LEMMA SubmitKeeps ==
    ASSUME NEW c, NEW S, NEW of, Kept(c, S, of), NEW bid, PlainBid(bid), bid.id \notin S,
           NEW new, new[bid.id] = bid, \A b \in S : new[b] = of[b]
    PROVE  Kept(Submit(c, bid), S \cup {bid.id}, new)
<1> DEFINE d == Submit(c, bid)
           n == c.n_bids + 1
<1>1. /\ Shape(d) /\ d.n_bids = n
      /\ d.keys[n] = n /\ d.bid_ids[n] = bid.id /\ d.bids[n] = bid
      /\ \A i \in 1..c.n_bids : d.bids[i] = c.bids[i] /\ d.keys[i] = c.keys[i]
                              /\ d.bid_ids[i] = c.bid_ids[i]
      /\ d.total = c.total + 1 * bid.quantity
      /\ d.total_on = IF bid.state = "BS_ON" THEN c.total_on + 1 * bid.quantity ELSE c.total_on
      /\ d.total_off = IF bid.state = "BS_OFF" THEN c.total_off + 1 * bid.quantity ELSE c.total_off
  <2>1. Shape(c)
    BY DEF Kept
  <2>2. SubmitsBid(d, c, bid)
    BY <2>1, SubmitMakes
  <2> QED  BY <2>2 DEF SubmitsBid
<1> HIDE DEF d
<1>2. c.n_bids \in Nat /\ n \in 1..n /\ n \notin 1..c.n_bids /\ \A i \in 1..n : i = n \/ i \in 1..c.n_bids
  BY DEF Kept, Shape
<1>3. Agree(c.bids, d.bids, c.n_bids)
  BY <1>1 DEF Kept, PlainBid, Agree
<1>4. \A states : /\ Tally(c.bids, c.n_bids, states) \in Int
                  /\ Tally(d.bids, n, states) = Tally(c.bids, c.n_bids, states) + Share(bid, states)
  <2> TAKE states
  <2>1. d.bids[n].quantity \in Int
    BY <1>1 DEF PlainBid
  <2> HIDE DEF n
  <2>2. /\ Tally(c.bids, c.n_bids, states) \in Int
        /\ Tally(d.bids, n, states) = Tally(c.bids, c.n_bids, states) + Share(d.bids[n], states)
    BY <1>2, <1>3, <2>1, TallyAppend DEF n
  <2> QED  BY <1>1, <2>2
<1>5. Totals(d)
  <2>1. /\ Share(bid, States) = bid.quantity
        /\ Share(bid, {"BS_ON"}) = (IF bid.state = "BS_ON" THEN bid.quantity ELSE 0)
        /\ Share(bid, {"BS_OFF"}) = (IF bid.state = "BS_OFF" THEN bid.quantity ELSE 0)
    BY DEF Share, PlainBid
  <2>2. Totals(c) /\ bid.quantity \in Int
    BY DEF Kept, Totals, PlainBid
  <2> DEFINE q == bid.quantity
  <2> HIDE DEF n
  <2>3. q \in Int /\ c.total \in Int /\ c.total_on \in Int /\ c.total_off \in Int
    BY <1>4, <2>2 DEF Totals
  <2>4. Tally(d.bids, n, States) = c.total + q
    BY <1>4, <2>1, <2>2 DEF Totals
  <2>5. Tally(d.bids, n, {"BS_ON"}) = c.total_on + (IF bid.state = "BS_ON" THEN q ELSE 0)
    BY <1>4, <2>1, <2>2 DEF Totals
  <2>6. Tally(d.bids, n, {"BS_OFF"}) = c.total_off + (IF bid.state = "BS_OFF" THEN q ELSE 0)
    BY <1>4, <2>1, <2>2 DEF Totals
  <2>7. /\ d.total = c.total + 1 * q
        /\ d.total_on = IF bid.state = "BS_ON" THEN c.total_on + 1 * q ELSE c.total_on
        /\ d.total_off = IF bid.state = "BS_OFF" THEN c.total_off + 1 * q ELSE c.total_off
    BY <1>1
  <2> HIDE DEF q
  <2>8. /\ d.total = c.total + q
        /\ d.total_on = c.total_on + (IF bid.state = "BS_ON" THEN q ELSE 0)
        /\ d.total_off = c.total_off + (IF bid.state = "BS_OFF" THEN q ELSE 0)
    BY <2>3, <2>7
  <2> QED  BY <1>1, <2>4, <2>5, <2>6, <2>8 DEF Totals
<1>6. \A b \in S \cup {bid.id} : PlainBid(new[b])
  BY DEF Kept
<1>7. \A i \in 1..n : d.keys[i] = i /\ d.bid_ids[i] \in S \cup {bid.id} /\ d.bids[i] = new[d.bid_ids[i]]
  BY <1>1, <1>2 DEF Kept
<1>8. \A b \in S \cup {bid.id} : \E i \in 1..n : d.bid_ids[i] = b
  BY <1>1, <1>2 DEF Kept
<1>9. \A i, j \in 1..n : d.bid_ids[i] = d.bid_ids[j] => i = j
  BY <1>1, <1>2 DEF Kept
<1> HIDE DEF n
<1> QED  BY <1>1, <1>5, <1>6, <1>7, <1>8, <1>9 DEF Kept, Totals, d

\* A bidder has at most one bid on a side.
LEMMA MadeOnce ==
    ASSUME NEW c, NEW S, NEW of, Kept(c, S, of), NEW id
    PROVE  /\ id \notin S => MadeBy(c, id) = {}
           /\ id \in S => \E n \in 1..c.n_bids : MadeBy(c, id) = {n} /\ c.bid_ids[n] = id
<1>1. CASE id \notin S
  BY <1>1 DEF Kept, MadeBy
<1>2. CASE id \in S
  <2>1. PICK n \in 1..c.n_bids : c.bid_ids[n] = id
    BY <1>2 DEF Kept
  <2>2. MadeBy(c, id) = {n}
    BY <2>1 DEF Kept, MadeBy
  <2> QED  BY <1>2, <2>1, <2>2
<1> QED  BY <1>1, <1>2

\* A bid that is replaced leaves the others as they are, and the totals count the new one.
LEMMA ResubmitKeeps ==
    ASSUME NEW c, NEW S, NEW of, Kept(c, S, of), NEW bid, PlainBid(bid),
           NEW new, new[bid.id] = bid, \A b \in S \ {bid.id} : new[b] = of[b]
    PROVE  Kept(Resubmit(c, bid), S \cup {bid.id}, new)
<1>1. CASE bid.id \notin S
  <2>1. Resubmit(c, bid) = Submit(c, bid)
    BY <1>1, MadeOnce DEF Resubmit
  <2> QED  BY <1>1, <2>1, SubmitKeeps
<1>2. CASE bid.id \in S
  <2>1. PICK k \in 1..c.n_bids : MadeBy(c, bid.id) = {k} /\ c.bid_ids[k] = bid.id
    BY <1>2, MadeOnce
  <2>2. c.keys[k] = k /\ Cardinality({k}) = 1
    BY FS_Singleton DEF Kept
  <2> DEFINE e == Uncounted(c, c.bids[k])
             f == [e EXCEPT !.bids[k] = bid]
             d == Counted(f, bid, 1)
             old == c.bids[k]
  <2>3. Resubmit(c, bid) = d
    BY <2>1, <2>2 DEF Resubmit
  <2>4. c.n_bids \in Nat /\ c.len \in Nat /\ k \in 1..c.len /\ Shape(c) /\ bid.quantity \in Int
        /\ PlainBid(old)
    BY DEF Kept, Shape, PlainBid
  <2>5. /\ Shape(e)
        /\ e.len = c.len /\ e.n_bids = c.n_bids /\ e.bids = c.bids /\ e.keys = c.keys
        /\ e.bid_ids = c.bid_ids /\ e.garbage = c.garbage
        /\ e.total = c.total + (-1) * old.quantity
        /\ e.total_on = IF old.state = "BS_ON" THEN c.total_on + (-1) * old.quantity ELSE c.total_on
        /\ e.total_off = IF old.state = "BS_OFF" THEN c.total_off + (-1) * old.quantity ELSE c.total_off
    <3>1. CountsBid(e, c, old, -1)
      BY <2>4, CountedMakes DEF Uncounted
    <3> HIDE DEF e
    <3> QED  BY <3>1 DEF CountsBid
  <2> HIDE DEF e
  <2>6. /\ Shape(f)
        /\ f.len = c.len /\ f.n_bids = c.n_bids /\ f.bids = [c.bids EXCEPT ![k] = bid]
        /\ f.keys = c.keys /\ f.bid_ids = c.bid_ids
        /\ f.total = e.total /\ f.total_on = e.total_on /\ f.total_off = e.total_off
    <3>1. PICK len, n_bids, bids, keys, ids, t, on, off, garbage :
            e = [len |-> len, n_bids |-> n_bids, bids |-> bids, keys |-> keys, bid_ids |-> ids,
                 total |-> t, total_on |-> on, total_off |-> off, garbage |-> garbage]
      BY <2>5 DEF Shape
    <3>2. f = [len |-> e.len, n_bids |-> e.n_bids, bids |-> [e.bids EXCEPT ![k] = bid],
               keys |-> e.keys, bid_ids |-> e.bid_ids, total |-> e.total, total_on |-> e.total_on,
               total_off |-> e.total_off, garbage |-> e.garbage]
      BY <3>1
    <3> HIDE DEF f
    <3>3. /\ f.len = e.len /\ f.n_bids = e.n_bids /\ f.bids = [e.bids EXCEPT ![k] = bid]
          /\ f.keys = e.keys /\ f.bid_ids = e.bid_ids /\ f.total = e.total
          /\ f.total_on = e.total_on /\ f.total_off = e.total_off /\ f.garbage = e.garbage
      BY <3>2
    <3>4. f = [len |-> f.len, n_bids |-> f.n_bids, bids |-> f.bids, keys |-> f.keys,
               bid_ids |-> f.bid_ids, total |-> f.total, total_on |-> f.total_on,
               total_off |-> f.total_off, garbage |-> f.garbage]
      BY <3>2, <3>3
    <3>5. Array(f.bids, f.len)
      BY <2>5, <3>3 DEF Shape, Array
    <3> QED  BY <2>5, <3>3, <3>4, <3>5 DEF Shape
  <2> HIDE DEF f
  <2>7. /\ Shape(d)
        /\ d.n_bids = f.n_bids /\ d.bids = f.bids /\ d.keys = f.keys /\ d.bid_ids = f.bid_ids
        /\ d.total = f.total + 1 * bid.quantity
        /\ d.total_on = IF bid.state = "BS_ON" THEN f.total_on + 1 * bid.quantity ELSE f.total_on
        /\ d.total_off = IF bid.state = "BS_OFF" THEN f.total_off + 1 * bid.quantity ELSE f.total_off
    <3>1. CountsBid(d, f, bid, 1)
      BY <2>6, CountedMakes
    <3> QED  BY <3>1 DEF CountsBid
  <2> HIDE DEF d
  <2>8. d.bids[k] = bid /\ \A i \in 1..c.n_bids : i # k => d.bids[i] = c.bids[i]
    BY <2>4, <2>6, <2>7 DEF Shape, Array
  <2>9. AgreeBut(c.bids, d.bids, c.n_bids, k)
    BY <2>8 DEF Kept, PlainBid, AgreeBut
  <2>10. \A states :
           /\ Tally(c.bids, c.n_bids, states) \in Int
           /\ Tally(d.bids, c.n_bids, states)
                = (Tally(c.bids, c.n_bids, states) + (-1) * Share(old, states)) + Share(bid, states)
    <3> TAKE states
    <3>1. d.bids[k].quantity \in Int
      BY <2>4, <2>8
    <3>2. c.n_bids \in Nat /\ k \in 1..c.n_bids
      BY <2>4
    <3>3. /\ Tally(c.bids, c.n_bids, states) \in Int
          /\ Tally(d.bids, c.n_bids, states)
               = (Tally(c.bids, c.n_bids, states) + (-1) * Share(c.bids[k], states)) + Share(d.bids[k], states)
      BY <2>9, <3>1, <3>2, TallyReplace
    <3> QED  BY <2>8, <3>3
  <2>11. Totals(d)
    <3>1. /\ Share(bid, States) = bid.quantity
          /\ Share(bid, {"BS_ON"}) = (IF bid.state = "BS_ON" THEN bid.quantity ELSE 0)
          /\ Share(bid, {"BS_OFF"}) = (IF bid.state = "BS_OFF" THEN bid.quantity ELSE 0)
      BY DEF Share, PlainBid
    <3>2. /\ Share(old, States) = old.quantity
          /\ Share(old, {"BS_ON"}) = (IF old.state = "BS_ON" THEN old.quantity ELSE 0)
          /\ Share(old, {"BS_OFF"}) = (IF old.state = "BS_OFF" THEN old.quantity ELSE 0)
      BY <2>4 DEF Share, PlainBid
    <3>3. Totals(c) /\ bid.quantity \in Int /\ old.quantity \in Int
      BY <2>4 DEF Kept, Totals, PlainBid
    <3> DEFINE q == bid.quantity
               p == old.quantity
    <3>4. p \in Int /\ q \in Int /\ c.total \in Int /\ c.total_on \in Int /\ c.total_off \in Int
      BY <2>10, <3>3 DEF Totals
    <3>5. Tally(d.bids, c.n_bids, States) = (c.total + (-1) * p) + q
      BY <2>10, <3>1, <3>2, <3>3 DEF Totals
    <3>6. Tally(d.bids, c.n_bids, {"BS_ON"})
            = (c.total_on + (-1) * (IF old.state = "BS_ON" THEN p ELSE 0)) + (IF bid.state = "BS_ON" THEN q ELSE 0)
      BY <2>10, <3>1, <3>2, <3>3 DEF Totals
    <3>7. Tally(d.bids, c.n_bids, {"BS_OFF"})
            = (c.total_off + (-1) * (IF old.state = "BS_OFF" THEN p ELSE 0)) + (IF bid.state = "BS_OFF" THEN q ELSE 0)
      BY <2>10, <3>1, <3>2, <3>3 DEF Totals
    <3>8. /\ d.total = f.total + 1 * q
          /\ d.total_on = IF bid.state = "BS_ON" THEN f.total_on + 1 * q ELSE f.total_on
          /\ d.total_off = IF bid.state = "BS_OFF" THEN f.total_off + 1 * q ELSE f.total_off
          /\ f.total = c.total + (-1) * p
          /\ f.total_on = IF old.state = "BS_ON" THEN c.total_on + (-1) * p ELSE c.total_on
          /\ f.total_off = IF old.state = "BS_OFF" THEN c.total_off + (-1) * p ELSE c.total_off
      BY <2>5, <2>6, <2>7
    <3> HIDE DEF q, p, old
    <3>9. /\ d.total = (c.total + (-1) * p) + q
          /\ d.total_on = (c.total_on + (-1) * (IF old.state = "BS_ON" THEN p ELSE 0))
                            + (IF bid.state = "BS_ON" THEN q ELSE 0)
          /\ d.total_off = (c.total_off + (-1) * (IF old.state = "BS_OFF" THEN p ELSE 0))
                            + (IF bid.state = "BS_OFF" THEN q ELSE 0)
      BY <3>4, <3>8
    <3>10. d.n_bids = c.n_bids
      BY <2>6, <2>7
    <3> QED  BY <3>5, <3>6, <3>7, <3>9, <3>10 DEF Totals
  <2>12. \A b \in S \cup {bid.id} : PlainBid(new[b])
    BY DEF Kept
  <2>13. d.n_bids = c.n_bids /\ d.keys = c.keys /\ d.bid_ids = c.bid_ids
    BY <2>6, <2>7
  <2>14. \A i \in 1..d.n_bids : d.keys[i] = i /\ d.bid_ids[i] \in S \cup {bid.id}
                               /\ d.bids[i] = new[d.bid_ids[i]]
    BY <2>1, <2>8, <2>13 DEF Kept
  <2>15. \A b \in S \cup {bid.id} : \E i \in 1..d.n_bids : d.bid_ids[i] = b
    BY <2>1, <2>13 DEF Kept
  <2>16. \A i, j \in 1..d.n_bids : d.bid_ids[i] = d.bid_ids[j] => i = j
    BY <2>13 DEF Kept
  <2>17. Kept(d, S \cup {bid.id}, new)
    BY <2>7, <2>11, <2>12, <2>14, <2>15, <2>16 DEF Kept, Totals
  <2> QED  BY <2>3, <2>17
<1> QED  BY <1>1, <1>2

\* Removing the only bid of a bidder.
LEMMA RemoveMakes ==
    ASSUME NEW c, Shape(c), NEW id, NEW n \in 1..c.n_bids, MadeBy(c, id) = {n}
    PROVE  LET d == RemoveBid(c, id)
               old == GetBid(c, n)
           IN  /\ Shape(d) /\ d.n_bids = c.n_bids - 1
               /\ \A i \in 1..(n - 1) : d.bids[i] = c.bids[i] /\ d.keys[i] = c.keys[i]
                                     /\ d.bid_ids[i] = c.bid_ids[i]
               /\ d.total = c.total + (-1) * old.quantity
               /\ d.total_on = IF old.state = "BS_ON" THEN c.total_on + (-1) * old.quantity ELSE c.total_on
               /\ d.total_off = IF old.state = "BS_OFF" THEN c.total_off + (-1) * old.quantity ELSE c.total_off
               /\ d.len = c.len /\ \A B : Holds(c, B) => Holds(d, B)
               /\ \A i \in 1..d.n_bids : \E j \in 1..c.n_bids : d.keys[i] = c.keys[j]
<1> DEFINE d == RemoveBid(c, id)
           old == GetBid(c, n)
           e == Uncounted(c, old)
           moved(s, last) == [i \in 1..c.len |-> IF i < n THEN s[i] ELSE IF i < c.len THEN s[i + 1] ELSE last]
<1>1. Cardinality({n}) = 1 /\ (CHOOSE i \in {n} : TRUE) = n
  BY FS_Singleton
<1>2. d = [e EXCEPT !.bids = moved(@, c.garbage), !.keys = moved(@, 0), !.bid_ids = moved(@, c.garbage.id),
                    !.n_bids = @ - 1]
  BY <1>1 DEF RemoveBid
<1>3. CountsBid(e, c, old, -1)
  BY CountedMakes DEF Uncounted
<1> HIDE DEF d, e
<1> DEFINE bids == moved(e.bids, c.garbage)
           keys == moved(e.keys, 0)
           ids == moved(e.bid_ids, c.garbage.id)
<1>4. d = [len |-> e.len, n_bids |-> e.n_bids - 1, bids |-> bids, keys |-> keys, bid_ids |-> ids,
           total |-> e.total, total_on |-> e.total_on, total_off |-> e.total_off, garbage |-> e.garbage]
  <2> HIDE DEF moved
  <2>1. PICK len, n_bids, bs, ks, is, t, on, off, garbage :
            e = [len |-> len, n_bids |-> n_bids, bids |-> bs, keys |-> ks, bid_ids |-> is,
                 total |-> t, total_on |-> on, total_off |-> off, garbage |-> garbage]
    BY <1>3 DEF CountsBid, Shape
  <2> QED  BY <1>2, <2>1
<1>5. c.len \in Nat /\ c.n_bids \in Nat /\ c.n_bids <= c.len /\ n \in 1..c.n_bids
  BY DEF Shape
<1>6. e.len = c.len /\ e.n_bids = c.n_bids /\ e.bids = c.bids /\ e.keys = c.keys /\ e.bid_ids = c.bid_ids
  BY <1>3 DEF CountsBid
<1>7. \A s, last : Array(moved(s, last), c.len)
  BY DEF Array
<1>8. \A i \in 1..(n - 1) : bids[i] = c.bids[i] /\ keys[i] = c.keys[i] /\ ids[i] = c.bid_ids[i]
  BY <1>5, <1>6
<1>14. \A i \in 1..(c.n_bids - 1) : \E j \in 1..c.n_bids : keys[i] = c.keys[j]
  <2> TAKE i \in 1..(c.n_bids - 1)
  <2>1. i \in 1..c.len /\ i \in 1..c.n_bids /\ i + 1 \in 1..c.n_bids /\ i < c.len
    BY <1>5
  <2>2. keys[i] = IF i < n THEN c.keys[i] ELSE c.keys[i + 1]
    BY <1>6, <2>1
  <2> QED  BY <2>1, <2>2
<1>15. \A i \in 1..c.len : bids[i] = c.garbage \/ \E j \in 1..c.len : bids[i] = c.bids[j]
  <2> TAKE i \in 1..c.len
  <2>1. i < c.len => i + 1 \in 1..c.len
    BY <1>5
  <2>2. bids[i] = IF i < n THEN c.bids[i] ELSE IF i < c.len THEN c.bids[i + 1] ELSE c.garbage
    BY <1>6
  <2> QED  BY <2>1, <2>2
<1> HIDE DEF moved
<1>9. Array(bids, c.len) /\ Array(keys, c.len) /\ Array(ids, c.len)
  BY <1>7
<1> HIDE DEF bids, keys, ids
<1>10. /\ d.len = e.len /\ d.n_bids = e.n_bids - 1 /\ d.bids = bids /\ d.keys = keys /\ d.bid_ids = ids
       /\ d.total = e.total /\ d.total_on = e.total_on /\ d.total_off = e.total_off
       /\ d.garbage = e.garbage
  BY <1>4
<1>11. d = [len |-> d.len, n_bids |-> d.n_bids, bids |-> d.bids, keys |-> d.keys,
            bid_ids |-> d.bid_ids, total |-> d.total, total_on |-> d.total_on,
            total_off |-> d.total_off, garbage |-> d.garbage]
  BY <1>4, <1>10
<1>12. Shape(d)
  BY <1>5, <1>6, <1>9, <1>10, <1>11 DEF Shape
<1>13. /\ e.total = c.total + (-1) * old.quantity
       /\ e.total_on = IF old.state = "BS_ON" THEN c.total_on + (-1) * old.quantity ELSE c.total_on
       /\ e.total_off = IF old.state = "BS_OFF" THEN c.total_off + (-1) * old.quantity ELSE c.total_off
  BY <1>3 DEF CountsBid
<1>16. ASSUME NEW B, Holds(c, B) PROVE Holds(d, B)
  <2>1. d.len = c.len /\ d.garbage = c.garbage /\ d.bids = bids
    BY <1>3, <1>6, <1>10 DEF CountsBid
  <2> QED  BY <1>15, <1>16, <2>1 DEF Holds
<1> QED  BY <1>6, <1>8, <1>10, <1>12, <1>13, <1>14, <1>16 DEF d

\* Removing the last bid leaves the others; with any other one the keys go wrong.
LEMMA RemoveKeeps ==
    ASSUME NEW c, NEW S, NEW of, Kept(c, S, of), NEW id, ~\E i \in MadeBy(c, id) : i < c.n_bids,
           NEW new, \A b \in S \ {id} : new[b] = of[b]
    PROVE  Kept(RemoveBid(c, id), S \ {id}, new)
<1>1. CASE id \notin S
  <2>1. RemoveBid(c, id) = c
    BY <1>1, MadeOnce, FS_EmptySet DEF RemoveBid
  <2>2. S \ {id} = S
    BY <1>1
  <2> QED  BY <1>1, <2>1, <2>2 DEF Kept
<1>2. CASE id \in S
  <2>1. PICK n \in 1..c.n_bids : MadeBy(c, id) = {n} /\ c.bid_ids[n] = id
    BY <1>2, MadeOnce
  <2>2. c.n_bids \in Nat /\ n = c.n_bids
    BY <2>1 DEF Kept, Shape
  <2> DEFINE d == RemoveBid(c, id)
             old == GetBid(c, n)
             m == c.n_bids - 1
  <2>3. /\ Shape(d) /\ d.n_bids = m
        /\ \A i \in 1..(n - 1) : d.bids[i] = c.bids[i] /\ d.keys[i] = c.keys[i]
                              /\ d.bid_ids[i] = c.bid_ids[i]
        /\ d.total = c.total + (-1) * old.quantity
        /\ d.total_on = IF old.state = "BS_ON" THEN c.total_on + (-1) * old.quantity ELSE c.total_on
        /\ d.total_off = IF old.state = "BS_OFF" THEN c.total_off + (-1) * old.quantity ELSE c.total_off
    BY <2>1, RemoveMakes DEF Kept
  <2> HIDE DEF d
  <2>4. old = c.bids[n] /\ PlainBid(old)
    BY DEF Kept, GetBid
  <2> HIDE DEF old
  <2>5. m \in Nat /\ m + 1 = c.n_bids /\ m + 1 = n /\ n - 1 = m /\ \A i \in 1..m : i \in 1..c.n_bids /\ i # n
    BY <2>2
  <2>6. Agree(d.bids, c.bids, m)
    BY <2>3, <2>5 DEF Kept, PlainBid, Agree
  <2>7. \A states : /\ Tally(d.bids, m, states) \in Int
                    /\ Tally(c.bids, c.n_bids, states) = Tally(d.bids, m, states) + Share(old, states)
    <3> TAKE states
    <3>1. m \in Nat /\ c.bids[m + 1].quantity \in Int
      BY <2>4, <2>5 DEF PlainBid
    <3> HIDE DEF m
    <3>2. /\ Tally(d.bids, m, states) \in Int
          /\ Tally(c.bids, m + 1, states) = Tally(d.bids, m, states) + Share(c.bids[m + 1], states)
      BY <2>6, <3>1, TallyAppend
    <3> QED  BY <2>4, <2>5, <3>2
  <2>8. Totals(d)
    <3>1. /\ Share(old, States) = old.quantity
          /\ Share(old, {"BS_ON"}) = (IF old.state = "BS_ON" THEN old.quantity ELSE 0)
          /\ Share(old, {"BS_OFF"}) = (IF old.state = "BS_OFF" THEN old.quantity ELSE 0)
      BY <2>4 DEF Share, PlainBid
    <3>2. Totals(c) /\ old.quantity \in Int
      BY <2>4 DEF Kept, PlainBid
    <3> DEFINE p == old.quantity
               t == Tally(d.bids, m, States)
               on == Tally(d.bids, m, {"BS_ON"})
               off == Tally(d.bids, m, {"BS_OFF"})
    <3> HIDE DEF m
    <3>3. /\ c.total = t + p
          /\ c.total_on = on + (IF old.state = "BS_ON" THEN p ELSE 0)
          /\ c.total_off = off + (IF old.state = "BS_OFF" THEN p ELSE 0)
      BY <2>7, <3>1, <3>2 DEF Totals
    <3>4. p \in Int /\ t \in Int /\ on \in Int /\ off \in Int
      BY <2>7, <3>2
    <3>5. /\ d.total = c.total + (-1) * p
          /\ d.total_on = IF old.state = "BS_ON" THEN c.total_on + (-1) * p ELSE c.total_on
          /\ d.total_off = IF old.state = "BS_OFF" THEN c.total_off + (-1) * p ELSE c.total_off
      BY <2>3
    <3> HIDE DEF p, t, on, off
    <3>6. d.total = t /\ d.total_on = on /\ d.total_off = off
      BY <3>3, <3>4, <3>5
    <3> QED  BY <2>3, <3>6 DEF Totals, t, on, off
  <2>9. \A b \in S \ {id} : PlainBid(new[b])
    BY DEF Kept
  <2>10. \A i \in 1..m : d.keys[i] = i /\ d.bid_ids[i] \in S \ {id} /\ d.bids[i] = new[d.bid_ids[i]]
    BY <2>1, <2>3, <2>5 DEF Kept
  <2>11. \A b \in S \ {id} : \E i \in 1..m : d.bid_ids[i] = b
    <3> TAKE b \in S \ {id}
    <3>1. PICK i \in 1..c.n_bids : c.bid_ids[i] = b
      BY DEF Kept
    <3>2. i # n /\ i \in 1..m
      BY <2>1, <2>2, <3>1
    <3> QED  BY <2>3, <2>5, <3>1, <3>2
  <2>12. \A i, j \in 1..m : d.bid_ids[i] = d.bid_ids[j] => i = j
    BY <2>3, <2>5 DEF Kept
  <2> HIDE DEF m
  <2> QED  BY <2>3, <2>8, <2>9, <2>10, <2>11, <2>12 DEF Kept, d
<1> QED  BY <1>1, <1>2

-----------------------------------------------------------------------------
(* Every operation on a side leaves arrays that are as long as the curve says. *)

\* Curves keep their shape, whatever is done to them: the empty one has it.
LEMMA EmptyShape == ASSUME NEW g PROVE Shape(EmptyCurve(g))
<1>1. <<>> = [i \in 1..0 |-> <<>>[i]]
  OBVIOUS
<1> QED  BY <1>1 DEF EmptyCurve, Shape, Array

\* clearing,
LEMMA ClearShape == ASSUME NEW c, Shape(c) PROVE Shape(Clear(c)) /\ Clear(c).n_bids = 0
                                               /\ Clear(c).total = 0 /\ Clear(c).total_on = 0
                                               /\ Clear(c).total_off = 0
                                               /\ \A B : Holds(c, B) => Holds(Clear(c), B)
<1>1. PICK len, n_bids, bids, keys, ids, t, on, off, garbage :
            c = [len |-> len, n_bids |-> n_bids, bids |-> bids, keys |-> keys, bid_ids |-> ids,
                 total |-> t, total_on |-> on, total_off |-> off, garbage |-> garbage]
  BY DEF Shape
<1> DEFINE d == Clear(c)
<1>2. d = [len |-> c.len, n_bids |-> 0, bids |-> c.bids, keys |-> c.keys, bid_ids |-> c.bid_ids,
           total |-> 0, total_on |-> 0, total_off |-> 0, garbage |-> c.garbage]
  <2>1. d = [c EXCEPT !.n_bids = 0, !.total = 0, !.total_on = 0, !.total_off = 0]
    BY DEF Clear
  <2> HIDE DEF d
  <2> QED  BY <1>1, <2>1
<1> HIDE DEF d
<1>3. /\ d.len = c.len /\ d.n_bids = 0 /\ d.bids = c.bids /\ d.keys = c.keys /\ d.bid_ids = c.bid_ids
      /\ d.total = 0 /\ d.total_on = 0 /\ d.total_off = 0 /\ d.garbage = c.garbage
  BY <1>2
<1>4. d = [len |-> d.len, n_bids |-> d.n_bids, bids |-> d.bids, keys |-> d.keys,
           bid_ids |-> d.bid_ids, total |-> d.total, total_on |-> d.total_on,
           total_off |-> d.total_off, garbage |-> d.garbage]
  BY <1>2, <1>3
<1>5. Shape(d)
  BY <1>3, <1>4 DEF Shape
<1>6. \A B : Holds(c, B) => Holds(d, B)
  BY <1>3 DEF Holds
<1> QED  BY <1>3, <1>5, <1>6 DEF d

\* sorting,
LEMMA SortShape == ASSUME NEW c, Shape(c), NEW reverse PROVE Shape(Sort(c, reverse))
<1> DEFINE d == Sort(c, reverse)
<1>1. PICK f : d = [c EXCEPT !.keys = [n \in 1..c.len |-> f[n]]]
  <2> DEFINE price(n) == GetBid(c, n).price
             before(m, n) == \/ price(m) # price(n) /\ (reverse <=> price(m) > price(n))
                             \/ price(m) = price(n) /\ (IF reverse THEN m < n ELSE n < m)
             place(m) == Cardinality({n \in 1..c.n_bids : before(n, m)}) + 1
             from(n) == CHOOSE m \in 1..c.n_bids : place(m) = n
             f == [n \in 1..c.len |-> IF n <= c.n_bids THEN c.keys[from(n)] ELSE c.keys[n]]
  <2>1. d = [c EXCEPT !.keys = [n \in 1..c.len |-> IF n <= c.n_bids THEN @[from(n)] ELSE @[n]]]
    BY DEF Sort
  <2> HIDE DEF from
  <2>2. d = [c EXCEPT !.keys = [n \in 1..c.len |-> f[n]]]
    BY <2>1
  <2> QED  BY <2>2
<1>2. PICK len, n_bids, bids, keys, ids, t, on, off, garbage :
            c = [len |-> len, n_bids |-> n_bids, bids |-> bids, keys |-> keys, bid_ids |-> ids,
                 total |-> t, total_on |-> on, total_off |-> off, garbage |-> garbage]
  BY DEF Shape
<1> DEFINE k == [n \in 1..c.len |-> f[n]]
<1> HIDE DEF d
<1>3. Array(k, c.len)
  BY DEF Array
<1> HIDE DEF k
<1>4. d = [len |-> c.len, n_bids |-> c.n_bids, bids |-> c.bids, keys |-> k, bid_ids |-> c.bid_ids,
           total |-> c.total, total_on |-> c.total_on, total_off |-> c.total_off, garbage |-> c.garbage]
  BY <1>1, <1>2 DEF k
<1>5. /\ d.len = c.len /\ d.n_bids = c.n_bids /\ d.bids = c.bids /\ d.keys = k /\ d.bid_ids = c.bid_ids
      /\ d.total = c.total /\ d.total_on = c.total_on /\ d.total_off = c.total_off
      /\ d.garbage = c.garbage
  BY <1>4
<1>6. d = [len |-> d.len, n_bids |-> d.n_bids, bids |-> d.bids, keys |-> d.keys,
           bid_ids |-> d.bid_ids, total |-> d.total, total_on |-> d.total_on,
           total_off |-> d.total_off, garbage |-> d.garbage]
  BY <1>4, <1>5
<1> QED  BY <1>3, <1>5, <1>6 DEF Shape, d

\* replacing,
LEMMA ResubmitShape == ASSUME NEW c, Shape(c), NEW bid PROVE Shape(Resubmit(c, bid))
<1> DEFINE mine == MadeBy(c, bid.id)
           k == c.keys[CHOOSE i \in mine : TRUE]
           e == Uncounted(c, c.bids[k])
           f == [e EXCEPT !.bids[k] = bid]
<1>1. CASE mine = {}
  BY <1>1, SubmitMakes DEF Resubmit, SubmitsBid
<1>2. CASE mine # {} /\ Cardinality(mine) > 1
  BY <1>2 DEF Resubmit
<1>3. CASE mine # {} /\ ~(Cardinality(mine) > 1)
  <2>1. Resubmit(c, bid) = Counted(f, bid, 1)
    BY <1>3 DEF Resubmit
  <2> HIDE DEF k
  <2>2. Shape(e)
    BY CountedMakes DEF Uncounted, CountsBid
  <2> HIDE DEF e
  <2>3. PICK len, n_bids, bids, keys, ids, t, on, off, garbage :
            e = [len |-> len, n_bids |-> n_bids, bids |-> bids, keys |-> keys, bid_ids |-> ids,
                 total |-> t, total_on |-> on, total_off |-> off, garbage |-> garbage]
    BY <2>2 DEF Shape
  <2>4. f = [len |-> e.len, n_bids |-> e.n_bids, bids |-> [e.bids EXCEPT ![k] = bid], keys |-> e.keys,
             bid_ids |-> e.bid_ids, total |-> e.total, total_on |-> e.total_on,
             total_off |-> e.total_off, garbage |-> e.garbage]
    BY <2>3
  <2> HIDE DEF f
  <2>5. /\ f.len = e.len /\ f.n_bids = e.n_bids /\ f.bids = [e.bids EXCEPT ![k] = bid]
        /\ f.keys = e.keys /\ f.bid_ids = e.bid_ids /\ f.total = e.total
        /\ f.total_on = e.total_on /\ f.total_off = e.total_off /\ f.garbage = e.garbage
    BY <2>4
  <2>6. f = [len |-> f.len, n_bids |-> f.n_bids, bids |-> f.bids, keys |-> f.keys,
             bid_ids |-> f.bid_ids, total |-> f.total, total_on |-> f.total_on,
             total_off |-> f.total_off, garbage |-> f.garbage]
    BY <2>4, <2>5
  <2>7. Array(f.bids, f.len)
    BY <2>2, <2>5 DEF Shape, Array
  <2>8. Shape(f)
    BY <2>2, <2>5, <2>6, <2>7 DEF Shape
  <2>9. Shape(Counted(f, bid, 1))
    BY <2>8, CountedMakes DEF CountsBid
  <2> QED  BY <2>1, <2>9
<1> QED  BY <1>1, <1>2, <1>3

\* removing.
LEMMA RemoveShape == ASSUME NEW c, Shape(c), NEW id PROVE Shape(RemoveBid(c, id))
<1>0. c.n_bids \in Nat /\ MadeBy(c, id) \in SUBSET (1..c.n_bids)
  BY DEF Shape, MadeBy
<1>1. IsFiniteSet(MadeBy(c, id))
  <2>1. IsFiniteSet(1..c.n_bids)
    BY <1>0, FS_Interval
  <2> QED  BY <1>0, <2>1, FS_Subset
<1>2. CASE Cardinality(MadeBy(c, id)) # 1
  BY <1>2 DEF RemoveBid
<1>3. CASE Cardinality(MadeBy(c, id)) = 1
  <2>1. PICK n : MadeBy(c, id) = {n}
    BY <1>1, <1>3, FS_Singleton
  <2>2. n \in 1..c.n_bids
    BY <1>0, <2>1
  <2> QED  BY <2>1, <2>2, RemoveMakes
<1> QED  BY <1>2, <1>3

\* Both sides of a market.
Sides(c) == c = [asks |-> c.asks, offers |-> c.offers] /\ Shape(c.asks) /\ Shape(c.offers)

\* So do both sides when a bid is made,
LEMMA SubmittedShape ==
    ASSUME NEW c, Sides(c), NEW id, NEW quantity, NEW price, NEW state, NEW rebid
    PROVE  Sides(Submitted(c, id, quantity, price, state, rebid))
<1> DEFINE bid == [id |-> id, quantity |-> IF quantity < 0 THEN -quantity ELSE quantity,
                   price |-> Min({price, pricecap}), state |-> state]
<1>1. Shape(c.asks) /\ Shape(c.offers) /\ c = [asks |-> c.asks, offers |-> c.offers]
  BY DEF Sides
<1>2. /\ Shape(Submit(c.asks, bid)) /\ Shape(Submit(c.offers, bid))
      /\ Shape(Resubmit(c.asks, bid)) /\ Shape(Resubmit(c.offers, bid))
      /\ Shape(RemoveBid(c.asks, id)) /\ Shape(RemoveBid(c.offers, id))
  <2> HIDE DEF bid
  <2>1. Shape(Submit(c.asks, bid)) /\ Shape(Submit(c.offers, bid))
    BY <1>1, SubmitMakes DEF SubmitsBid
  <2> QED  BY <1>1, <2>1, ResubmitShape, RemoveShape
<1>3. Submitted(c, id, quantity, price, state, rebid) \in
         {c, [asks |-> Resubmit(c.asks, bid), offers |-> RemoveBid(c.offers, id)],
          [asks |-> RemoveBid(c.asks, id), offers |-> Resubmit(c.offers, bid)],
          [asks |-> RemoveBid(c.asks, id), offers |-> RemoveBid(c.offers, id)],
          [c EXCEPT !.asks = Submit(c.asks, bid)], [c EXCEPT !.offers = Submit(c.offers, bid)]}
  <2> HIDE DEF Suppressed
  <2> QED  BY DEF Submitted
<1> HIDE DEF bid
<1>4. /\ [c EXCEPT !.asks = Submit(c.asks, bid)] = [asks |-> Submit(c.asks, bid), offers |-> c.offers]
      /\ [c EXCEPT !.offers = Submit(c.offers, bid)] = [asks |-> c.asks, offers |-> Submit(c.offers, bid)]
  <2>1. PICK a, o : c = [asks |-> a, offers |-> o]
    BY <1>1
  <2> QED  BY <2>1
<1>5. \A a, o : Shape(a) /\ Shape(o) => Sides([asks |-> a, offers |-> o])
  BY DEF Sides
<1>6. Sides(c)
  OBVIOUS
<1> QED  BY <1>1, <1>2, <1>3, <1>4, <1>5, <1>6

\* when they are arranged for the clearing,
LEMMA ArrangedShape ==
    ASSUME NEW c, Sides(c), config \in Markets
    PROVE  Sides(Arranged(c))
<1>0. config.special_mode \in MODES
  BY AuctionAssumption
<1> DEFINE a == Sort(c.asks, TRUE)
           o == Sort(c.offers, FALSE)
           own(d, q) == Submitted(d, Own, q, config.fixed_price, "BS_ON", FALSE)
<1>1. c = [asks |-> c.asks, offers |-> c.offers] /\ Shape(c.asks) /\ Shape(c.offers)
      /\ Shape(Clear(c.asks)) /\ Shape(Clear(c.offers)) /\ Shape(a) /\ Shape(o)
  <2>1. Shape(c.asks) /\ Shape(c.offers) /\ c = [asks |-> c.asks, offers |-> c.offers]
    BY DEF Sides
  <2>2. Shape(Clear(c.asks)) /\ Shape(Clear(c.offers))
    BY <2>1, ClearShape
  <2>3. Shape(a) /\ Shape(o)
    BY <2>1, SortShape
  <2> QED  BY <2>1, <2>2, <2>3
<1>2. \A x, y : Shape(x) /\ Shape(y) => Sides([asks |-> x, offers |-> y])
  BY DEF Sides
<1>3. \A d, q : Sides(d) => Sides(own(d, q))
  BY SubmittedShape
<1>4. Arranged(c) \in {[asks |-> a, offers |-> o], [c EXCEPT !.offers = o], [c EXCEPT !.asks = a],
                       own([asks |-> Clear(c.asks), offers |-> o], -config.fixed_quantity),
                       own([asks |-> a, offers |-> Clear(c.offers)], config.fixed_quantity)}
  BY <1>0 DEF Arranged, MODES
<1> HIDE DEF own, a, o
<1>5. [c EXCEPT !.offers = o] = [asks |-> c.asks, offers |-> o]
      /\ [c EXCEPT !.asks = a] = [asks |-> a, offers |-> c.offers]
  <2>1. PICK x, y : c = [asks |-> x, offers |-> y]
    BY <1>1
  <2> QED  BY <2>1
<1>6. Sides([asks |-> a, offers |-> o]) /\ Sides([asks |-> c.asks, offers |-> o])
      /\ Sides([asks |-> a, offers |-> c.offers]) /\ Sides([asks |-> Clear(c.asks), offers |-> o])
      /\ Sides([asks |-> a, offers |-> Clear(c.offers)])
  BY <1>1, <1>2
<1>7. Sides(own([asks |-> Clear(c.asks), offers |-> o], -config.fixed_quantity))
      /\ Sides(own([asks |-> a, offers |-> Clear(c.offers)], config.fixed_quantity))
  BY <1>3, <1>6
<1> QED  BY <1>4, <1>5, <1>6, <1>7

\* and when the load that did not bid is added.
LEMMA ReferenceShape == ASSUME NEW c, Sides(c) PROVE Sides(WithReference(c))
<1> DEFINE unresponsive == config.refload - c.asks.total_on
                             - ((c.asks.total - c.asks.total_on - c.asks.total_off) \div 2)
           asked == IF config.refload # 0 /\ config.special_mode # "MD_FIXED_BUYER" /\ unresponsive > 0
                    THEN Submitted(c, Reference, -unresponsive, pricecap, "BS_ON", FALSE) ELSE c
<1> HIDE DEF unresponsive
<1>1. Sides(asked)
  <2>1. Sides(Submitted(c, Reference, -unresponsive, pricecap, "BS_ON", FALSE))
    BY SubmittedShape
  <2> QED  BY <2>1
<1> HIDE DEF asked
<1>2. Sides(Submitted(asked, Own, config.reference_bid, config.reference_price, "BS_ON", FALSE))
  BY <1>1, SubmittedShape
<1>3. WithReference(c) \in {asked, Submitted(asked, Own, config.reference_bid, config.reference_price, "BS_ON", FALSE)}
  BY DEF WithReference, asked, unresponsive
<1> QED  BY <1>1, <1>2, <1>3

-----------------------------------------------------------------------------
(* The bids in force *)

Sign(side) == IF side = "asks" THEN -1 ELSE 1

\* The bidders on a side, and their bids as it lists them.
On(side) == {b \in Bidder : Sign(side) * book[b].quantity > 0}
InForce(side) ==
    [b \in On(side) |-> [id |-> b, quantity |-> Sign(side) * book[b].quantity,
                        price |-> book[b].price, state |-> book[b].state]]

PlainBook ==
    book = [b \in Bidder |-> book[b]]
    /\ \A b \in Bidder : book[b].quantity \in Int /\ (book[b] = NoBid \/ book[b].state \in States)

CurveInv ==
    /\ config \in Markets /\ PlainBook /\ Sides(curves)
    /\ \A side \in {"asks", "offers"} \ displaced : Kept(curves[side], On(side), InForce(side))

\* Both sides begin with no bid, of no bidder.
LEMMA CurveStart == Init => CurveInv
<1> SUFFICES ASSUME Init PROVE CurveInv
  OBVIOUS
<1>1. Sides(curves) /\ curves = [asks |-> EmptyCurve(config.garbage), offers |-> EmptyCurve(config.garbage)]
  BY EmptyShape DEF Init, Sides
<1>2. \A side \in {"asks", "offers"} : curves[side] = EmptyCurve(config.garbage)
  BY <1>1
<1>3. PlainBook /\ \A side \in {"asks", "offers"} : On(side) = {}
  BY DEF Init, PlainBook, NoBid, On, Sign
<1>4. config \in Markets
  BY DEF Init
<1>5. \A states : Tally(<<>>, 0, states) = 0
  <2> TAKE states
  <2>1. {i \in 1..0 : <<>>[i].state \in states} = {}
    OBVIOUS
  <2>2. Counts(<<>>, {})
    BY FS_EmptySet DEF Counts
  <2> QED  BY <2>1, <2>2, QuantityTakes DEF Tally
<1>6. Totals(EmptyCurve(config.garbage))
  BY <1>5 DEF Totals, EmptyCurve
<1>7. ASSUME NEW side \in {"asks", "offers"} PROVE Kept(curves[side], On(side), InForce(side))
  <2>1. Shape(EmptyCurve(config.garbage)) /\ EmptyCurve(config.garbage).n_bids = 0
    BY EmptyShape DEF EmptyCurve
  <2> QED  BY <1>2, <1>3, <1>6, <2>1 DEF Kept
<1> QED  BY <1>1, <1>3, <1>4, <1>7 DEF CurveInv

\* A clearing empties both sides and the book.
LEMMA CurveCleared == CurveInv /\ ClearMarket => CurveInv'
<1> SUFFICES ASSUME CurveInv, ClearMarket PROVE CurveInv'
  OBVIOUS
<1> DEFINE c == Arranged(WithReference(curves))
<1>1. Sides(c)
  BY ReferenceShape, ArrangedShape DEF CurveInv
<1>2. /\ curves' = [asks |-> Clear(c.asks), offers |-> Clear(c.offers)]
      /\ book' = [b \in Bidder |-> NoBid] /\ displaced' = {} /\ config' = config
  BY DEF ClearMarket
<1> HIDE DEF c
<1>3. Sides(curves')
  BY <1>1, <1>2, ClearShape DEF Sides
<1>4. PlainBook' /\ \A side \in {"asks", "offers"} : On(side)' = {}
  BY <1>2 DEF PlainBook, NoBid, On, Sign
<1>5. \A list, states : Tally(list, 0, states) = 0
  <2> TAKE list, states
  <2>1. {i \in 1..0 : list[i].state \in states} = {}
    OBVIOUS
  <2>2. Counts(list, {})
    BY FS_EmptySet DEF Counts
  <2> QED  BY <2>1, <2>2, QuantityTakes DEF Tally
<1>6. ASSUME NEW side \in {"asks", "offers"} PROVE Kept(curves[side]', On(side)', InForce(side)')
  <2>1. PICK d : Shape(d) /\ curves[side]' = Clear(d)
    BY <1>1, <1>2 DEF Sides
  <2>2. Shape(Clear(d)) /\ Clear(d).n_bids = 0 /\ Totals(Clear(d))
    BY <1>5, <2>1, ClearShape DEF Totals
  <2> QED  BY <1>4, <2>1, <2>2 DEF Kept
<1>7. (\A side \in {"asks", "offers"} \ displaced : Kept(curves[side], On(side), InForce(side)))'
  BY <1>2, <1>6
<1> QED  BY <1>2, <1>3, <1>4, <1>7 DEF CurveInv

\* What a bid does to a side, the quantity counted as that side does: it is on it, or off it.
TakesBid(d, c, bid, quantity, rebid) ==
    /\ rebid /\ quantity > 0 => d = Resubmit(c, bid)
    /\ rebid /\ ~(quantity > 0) => d = RemoveBid(c, bid.id)
    /\ ~rebid /\ quantity > 0 => d = Submit(c, bid)
    /\ ~rebid /\ ~(quantity > 0) => d = c

\* A bid acts on each side as on one that counts its quantity with that side's sign.
LEMMA SubmittedSide ==
    ASSUME NEW c, Sides(c), NEW id, NEW quantity \in Int, NEW price, NEW state, NEW rebid \in BOOLEAN,
           ~Suppressed(quantity), NEW side \in {"asks", "offers"}
    PROVE  LET bid == [id |-> id, quantity |-> IF quantity < 0 THEN -quantity ELSE quantity,
                       price |-> Min({price, pricecap}), state |-> state]
               d == Submitted(c, id, quantity, price, state, rebid)
           IN  TakesBid(d[side], c[side], bid, Sign(side) * quantity, rebid)
<1> DEFINE bid == [id |-> id, quantity |-> IF quantity < 0 THEN -quantity ELSE quantity,
                   price |-> Min({price, pricecap}), state |-> state]
           d == Submitted(c, id, quantity, price, state, rebid)
<1>0. bid.id = id
  OBVIOUS
<1>1. PICK x, y : c = [asks |-> x, offers |-> y]
  BY DEF Sides
<1>2. CASE quantity < 0
  <2>1. d = IF rebid THEN [asks |-> Resubmit(c.asks, bid), offers |-> RemoveBid(c.offers, id)]
            ELSE [c EXCEPT !.asks = Submit(@, bid)]
    BY <1>2 DEF Submitted
  <2> HIDE DEF d, bid
  <2>2. d = IF rebid THEN [asks |-> Resubmit(x, bid), offers |-> RemoveBid(y, id)]
            ELSE [asks |-> Submit(x, bid), offers |-> y]
    BY <1>1, <2>1
  <2>3. Sign("asks") * quantity > 0 /\ ~(Sign("offers") * quantity > 0)
    BY <1>2 DEF Sign
  <2>4. c["asks"] = x /\ c["offers"] = y
    BY <1>1
  <2>5. CASE side = "asks"
    BY <1>0, <2>2, <2>3, <2>4, <2>5 DEF TakesBid, d, bid
  <2>6. CASE side = "offers"
    BY <1>0, <2>2, <2>3, <2>4, <2>6 DEF TakesBid, d, bid
  <2> QED  BY <2>5, <2>6
<1>3. CASE quantity > 0
  <2>1. d = IF rebid THEN [asks |-> RemoveBid(c.asks, id), offers |-> Resubmit(c.offers, bid)]
            ELSE [c EXCEPT !.offers = Submit(@, bid)]
    BY <1>3 DEF Submitted
  <2> HIDE DEF d, bid
  <2>2. d = IF rebid THEN [asks |-> RemoveBid(x, id), offers |-> Resubmit(y, bid)]
            ELSE [asks |-> x, offers |-> Submit(y, bid)]
    BY <1>1, <2>1
  <2>3. ~(Sign("asks") * quantity > 0) /\ Sign("offers") * quantity > 0
    BY <1>3 DEF Sign
  <2>4. c["asks"] = x /\ c["offers"] = y
    BY <1>1
  <2>5. CASE side = "asks"
    BY <1>0, <2>2, <2>3, <2>4, <2>5 DEF TakesBid, d, bid
  <2>6. CASE side = "offers"
    BY <1>0, <2>2, <2>3, <2>4, <2>6 DEF TakesBid, d, bid
  <2> QED  BY <2>5, <2>6
<1>4. CASE quantity = 0
  <2>1. d = IF rebid THEN [asks |-> RemoveBid(c.asks, id), offers |-> RemoveBid(c.offers, id)] ELSE c
    BY <1>4 DEF Submitted
  <2> HIDE DEF d, bid
  <2>2. d = IF rebid THEN [asks |-> RemoveBid(x, id), offers |-> RemoveBid(y, id)]
            ELSE [asks |-> x, offers |-> y]
    BY <1>1, <2>1
  <2>3. ~(Sign("asks") * quantity > 0) /\ ~(Sign("offers") * quantity > 0)
    BY <1>4 DEF Sign
  <2>4. c["asks"] = x /\ c["offers"] = y
    BY <1>1
  <2>5. CASE side = "asks"
    BY <1>0, <2>2, <2>3, <2>4, <2>5 DEF TakesBid, d, bid
  <2>6. CASE side = "offers"
    BY <1>0, <2>2, <2>3, <2>4, <2>6 DEF TakesBid, d, bid
  <2> QED  BY <2>5, <2>6
<1> QED  BY <1>2, <1>3, <1>4

\* A bid keeps every side from which nothing was removed before another one.
LEMMA BidKeeps == ASSUME CurveInv, NEW b \in Bidder, Bid(b) PROVE CurveInv'
<1>1. PICK bid \in config.bids :
         /\ curves' = Submitted(curves, b, bid.quantity, bid.price, bid.state, book[b] # NoBid)
         /\ IF Suppressed(bid.quantity) THEN UNCHANGED <<book, displaced>>
            ELSE /\ book' = [book EXCEPT ![b] = [bid EXCEPT !.price = Min({@, pricecap})]]
                 /\ displaced' = displaced \cup {s \in {"asks", "offers"} :
                                                    /\ s = "asks" => bid.quantity >= 0
                                                    /\ s = "offers" => bid.quantity <= 0
                                                    /\ book[b] # NoBid /\ Displaces(curves[s], b)}
  BY DEF Bid
<1>2. config' = config
  BY DEF Bid
<1>3. config \in Markets /\ bid \in [quantity : Int, price : Int, state : States]
  BY AuctionAssumption DEF CurveInv, States
<1> DEFINE q == bid.quantity
           rebid == book[b] # NoBid
<1>4. Sides(curves) /\ PlainBook /\ Sides(curves')
  BY <1>1, SubmittedShape DEF CurveInv
<1>5. CASE Suppressed(q)
  <2>1. curves' = curves /\ book' = book /\ displaced' = displaced
    BY <1>1, <1>5 DEF Submitted
  <2> QED  BY <1>2, <2>1 DEF CurveInv, PlainBook, On, InForce
<1>6. CASE ~Suppressed(q)
  <2> DEFINE entry == [quantity |-> q, price |-> Min({bid.price, pricecap}), state |-> bid.state]
             new == [id |-> b, quantity |-> IF q < 0 THEN -q ELSE q,
                     price |-> Min({bid.price, pricecap}), state |-> bid.state]
  <2>1. book' = [book EXCEPT ![b] = entry]
    <3> DEFINE p == Min({bid.price, pricecap})
    <3>1. book' = [book EXCEPT ![b] = [bid EXCEPT !.price = p]]
      BY <1>1, <1>6
    <3> HIDE DEF p
    <3>2. [bid EXCEPT !.price = p] = [quantity |-> q, price |-> p, state |-> bid.state]
      BY <1>3
    <3> QED  BY <3>1, <3>2 DEF p
  <2> DEFINE price == Min({bid.price, pricecap})
  <2> HIDE DEF price
  <2>2. /\ entry = [quantity |-> q, price |-> price, state |-> bid.state]
        /\ new = [id |-> b, quantity |-> IF q < 0 THEN -q ELSE q, price |-> price, state |-> bid.state]
        /\ q \in Int /\ bid.state \in States
    BY <1>3 DEF price
  <2> HIDE DEF entry, new
  <2>3. book'[b] = entry /\ \A x \in Bidder : x # b => book'[x] = book[x]
    BY <1>4, <2>1 DEF PlainBook
  <2>4. PlainBook'
    <3>1. book' = [x \in Bidder |-> book'[x]]
      BY <1>4, <2>1 DEF PlainBook
    <3>2. \A x \in Bidder : book'[x].quantity \in Int /\ (book'[x] = NoBid \/ book'[x].state \in States)
      BY <1>4, <2>2, <2>3 DEF PlainBook
    <3> QED  BY <3>1, <3>2 DEF PlainBook
  <2>5. ASSUME NEW side \in {"asks", "offers"} \ displaced'
        PROVE  Kept(curves[side]', On(side)', InForce(side)')
    <3>0. side \in {"asks", "offers"} /\ side \notin displaced
      BY <1>1, <1>6
    <3>1. Kept(curves[side], On(side), InForce(side))
      BY <3>0 DEF CurveInv
    <3> DEFINE t == Sign(side) * q
    <3>2. t > 0 \/ ~(t > 0)
      OBVIOUS
    <3>3. PlainBid(new) /\ new.id = b
      BY <2>2 DEF PlainBid
    <3>4. /\ t > 0 => On(side)' = On(side) \cup {b}
          /\ ~(t > 0) => On(side)' = On(side) \ {b}
      BY <2>2, <2>3 DEF On
    <3>5. t > 0 => InForce(side)'[b] = new
      <4>1. HAVE t > 0
      <4>2. b \in On(side)'
        BY <3>4, <4>1
      <4>3. InForce(side)'[b] = [id |-> b, quantity |-> t, price |-> price, state |-> bid.state]
        BY <2>2, <2>3, <4>2 DEF InForce
      <4>4. t = IF q < 0 THEN -q ELSE q
        BY <2>2, <3>0, <4>1 DEF Sign
      <4> QED  BY <2>2, <4>3, <4>4
    <3>6. \A x \in On(side) \ {b} : x \in On(side)' /\ InForce(side)'[x] = InForce(side)[x]
      <4> TAKE x \in On(side) \ {b}
      <4>1. x \in On(side) /\ x \in Bidder /\ x # b /\ book'[x] = book[x]
        BY <2>3 DEF On
      <4>2. x \in On(side)'
        BY <4>1 DEF On
      <4> QED  BY <4>1, <4>2 DEF InForce
    <3>7. TakesBid(curves'[side], curves[side], new, t, rebid)
      <4>1. rebid \in BOOLEAN
        OBVIOUS
      <4> HIDE DEF rebid
      <4> QED  BY <1>1, <1>4, <1>6, <2>2, <3>0, <4>1, SubmittedSide DEF new, rebid, price
    <3>8. ~rebid => b \notin On(side)
      BY <3>0 DEF On, NoBid, Sign
    <3> HIDE DEF rebid
    <3>9. CASE rebid /\ t > 0
      BY <3>1, <3>3, <3>4, <3>5, <3>6, <3>7, <3>9, ResubmitKeeps DEF TakesBid
    <3>10. CASE rebid /\ ~(t > 0)
      <4>1. side = "asks" => q >= 0
        BY <2>2, <3>10 DEF Sign
      <4>2. side = "offers" => q <= 0
        BY <2>2, <3>10 DEF Sign
      <4>3. ~Displaces(curves[side], b)
        BY <1>1, <1>6, <3>0, <3>10, <4>1, <4>2 DEF rebid
      <4> QED  BY <3>1, <3>4, <3>6, <3>7, <3>10, <4>3, <3>3, RemoveKeeps DEF Displaces, TakesBid
    <3>11. CASE ~rebid /\ t > 0
      <4>1. b \notin On(side) /\ \A x \in On(side) : InForce(side)'[x] = InForce(side)[x]
        BY <3>6, <3>8, <3>11
      <4> QED  BY <3>1, <3>3, <3>4, <3>5, <3>7, <3>11, <4>1, SubmitKeeps DEF TakesBid
    <3>12. CASE ~rebid /\ ~(t > 0)
      <4>1. On(side)' = On(side) /\ \A x \in On(side) : InForce(side)'[x] = InForce(side)[x]
        BY <3>4, <3>6, <3>8, <3>12
      <4> QED  BY <3>1, <3>7, <3>12, <4>1 DEF Kept, TakesBid
    <3> QED  BY <3>9, <3>10, <3>11, <3>12
  <2> QED  BY <1>2, <1>3, <1>4, <2>4, <2>5 DEF CurveInv
<1> QED  BY <1>5, <1>6

\* CurveInv is inductive.
LEMMA CurveNext == CurveInv /\ [Next]_vars => CurveInv'
<1> SUFFICES ASSUME CurveInv, [Next]_vars PROVE CurveInv'
  OBVIOUS
<1>1. CASE ClearMarket
  BY <1>1, CurveCleared
<1>2. CASE StrayRead \/ UNCHANGED vars
  <2>1. curves' = curves /\ book' = book /\ displaced' = displaced /\ config' = config
    BY <1>2 DEF StrayRead, vars, bidding
  <2> QED  BY <2>1 DEF CurveInv, PlainBook, On, InForce
<1>3. ASSUME NEW b \in Bidder, Bid(b) PROVE CurveInv'
  BY <1>3, BidKeeps
<1> QED  BY <1>1, <1>2, <1>3 DEF Next

\* A curve that holds the bids in force lists them and counts them.
LEMMA CurveSays == CurveInv => CurveKeepsBids
<1> SUFFICES ASSUME CurveInv, NEW side \in {"asks", "offers"} \ displaced
             PROVE  LET c == curves[side]
                        sign == IF side = "asks" THEN -1 ELSE 1
                        bidders == {b \in Bidder : sign * book[b].quantity > 0}
                    IN /\ c.n_bids = Cardinality(bidders)
                       /\ \A b \in bidders : \E n \in 1..c.n_bids :
                            GetBid(c, n) = [id |-> b, quantity |-> sign * book[b].quantity,
                                            price |-> book[b].price, state |-> book[b].state]
                       /\ c.total = Quantity(Listed(c), 1..c.n_bids)
                       /\ c.total_on = Quantity(Listed(c), {n \in 1..c.n_bids : GetBid(c, n).state = "BS_ON"})
                       /\ c.total_off = Quantity(Listed(c), {n \in 1..c.n_bids : GetBid(c, n).state = "BS_OFF"})
  BY DEF CurveKeepsBids
<1> DEFINE c == curves[side]
           S == On(side)
<1>1. Kept(c, S, InForce(side))
  BY DEF CurveInv
<1>2. S = {b \in Bidder : (IF side = "asks" THEN -1 ELSE 1) * book[b].quantity > 0}
  BY DEF On, Sign
<1>3. c.n_bids \in Nat
  BY <1>1 DEF Kept, Shape
<1> HIDE DEF c, S
<1>4. c.n_bids = Cardinality(S)
  <2> DEFINE f == [n \in 1..c.n_bids |-> c.bid_ids[n]]
  <2>1. f \in Bijection(1..c.n_bids, S)
    BY <1>1 DEF Kept, Bijection, Injection, Surjection, IsInjective
  <2>2. IsFiniteSet(1..c.n_bids) /\ Cardinality(1..c.n_bids) = c.n_bids
    BY <1>3, FS_Interval
  <2> HIDE DEF f
  <2>3. ExistsBijection(1..c.n_bids, S)
    BY <2>1 DEF ExistsBijection
  <2> QED  BY <2>2, <2>3, FS_Bijection
<1>5. \A n \in 1..c.n_bids : GetBid(c, n) = c.bids[n] /\ Listed(c)[n] = c.bids[n] /\ PlainBid(c.bids[n])
  BY <1>1 DEF Kept, GetBid, Listed
<1>6. \A b \in S : \E n \in 1..c.n_bids : GetBid(c, n) = InForce(side)[b]
  BY <1>1, <1>5 DEF Kept
<1>7. \A b \in S : InForce(side)[b] = [id |-> b, quantity |-> (IF side = "asks" THEN -1 ELSE 1) * book[b].quantity,
                                       price |-> book[b].price, state |-> book[b].state]
  BY DEF InForce, S, Sign
<1>8. ASSUME NEW T \in SUBSET (1..c.n_bids) PROVE Quantity(Listed(c), T) = Quantity(c.bids, T)
  <2>1. IsFiniteSet(1..c.n_bids)
    BY <1>3, FS_Interval
  <2>2. IsFiniteSet(T)
    BY <2>1, FS_Subset
  <2>3. Counts(c.bids, T) /\ \A n \in T : Listed(c)[n].quantity = c.bids[n].quantity
    BY <1>5, <2>2 DEF Counts, PlainBid
  <2> QED  BY <2>3, QuantitySame
<1>9. /\ {n \in 1..c.n_bids : c.bids[n].state \in States} = 1..c.n_bids
      /\ {n \in 1..c.n_bids : c.bids[n].state \in {"BS_ON"}} = {n \in 1..c.n_bids : GetBid(c, n).state = "BS_ON"}
      /\ {n \in 1..c.n_bids : c.bids[n].state \in {"BS_OFF"}} = {n \in 1..c.n_bids : GetBid(c, n).state = "BS_OFF"}
  BY <1>5 DEF PlainBid
<1>10. /\ c.total = Quantity(Listed(c), 1..c.n_bids)
       /\ c.total_on = Quantity(Listed(c), {n \in 1..c.n_bids : GetBid(c, n).state = "BS_ON"})
       /\ c.total_off = Quantity(Listed(c), {n \in 1..c.n_bids : GetBid(c, n).state = "BS_OFF"})
  <2>1. Totals(c)
    BY <1>1 DEF Kept
  <2> QED  BY <1>8, <1>9, <2>1 DEF Totals, Tally
<1> QED  BY <1>2, <1>4, <1>6, <1>7, <1>10 DEF c

\* Whoever bids, replaces, changes sides or withdraws, in any order and however often the
\* arrays grow: each side lists exactly the bids in force on it and its totals count them, as
\* long as no bid was removed from before another one (curve.cpp:37-224).
THEOREM BidsKept == Spec => []CurveKeepsBids
BY CurveStart, CurveNext, CurveSays, PTL DEF Spec

-----------------------------------------------------------------------------
(* The lists that are cleared hold nothing but the bids B: every place they tell of *)
(* is in the arrays, after any bids, also when some were removed from before others. *)

IntTotals(c) == c.total \in Int /\ c.total_on \in Int /\ c.total_off \in Int
Listable(c, B) ==
    /\ Shape(c) /\ Holds(c, B) /\ IntTotals(c)
    /\ \A n \in 1..c.n_bids : c.keys[n] \in 1..c.len
Countable(B) == \A x \in B : x.quantity \in Int

\* Nothing is listed that is not such a bid, whatever is done to a curve: counting,
LEMMA CountedLists ==
    ASSUME NEW B, NEW c, Listable(c, B), NEW bid, bid.quantity \in Int, NEW times \in {1, -1}
    PROVE  Listable(Counted(c, bid, times), B)
<1> DEFINE d == Counted(c, bid, times)
           p == times * bid.quantity
<1>1. CountsBid(d, c, bid, times)
  BY CountedMakes DEF Listable
<1>2. p \in Int
  OBVIOUS
<1>3. /\ d.total = c.total + p
      /\ d.total_on = IF bid.state = "BS_ON" THEN c.total_on + p ELSE c.total_on
      /\ d.total_off = IF bid.state = "BS_OFF" THEN c.total_off + p ELSE c.total_off
  BY <1>1 DEF CountsBid
<1> HIDE DEF d, p
<1>4. IntTotals(d)
  BY <1>2, <1>3 DEF Listable, IntTotals
<1> QED  BY <1>1, <1>4 DEF Listable, CountsBid, Holds, d

\* submitting,
LEMMA SubmitLists ==
    ASSUME NEW B, NEW c, Listable(c, B), NEW bid, bid \in B, Countable(B)
    PROVE  Listable(Submit(c, bid), B)
<1> DEFINE d == Submit(c, bid)
           n == c.n_bids + 1
           p == 1 * bid.quantity
<1>1. SubmitsBid(d, c, bid)
  BY SubmitMakes DEF Listable
<1> HIDE DEF d
<1>2. p \in Int
  BY DEF Countable
<1>3. IntTotals(d)
  <2>1. /\ d.total = c.total + p
        /\ d.total_on = IF bid.state = "BS_ON" THEN c.total_on + p ELSE c.total_on
        /\ d.total_off = IF bid.state = "BS_OFF" THEN c.total_off + p ELSE c.total_off
    BY <1>1 DEF SubmitsBid
  <2> HIDE DEF p
  <2> QED  BY <1>2, <2>1 DEF Listable, IntTotals
<1>4. c.n_bids \in Nat /\ c.len \in Nat /\ c.len <= d.len /\ d.len \in Nat /\ d.n_bids = n /\ n <= d.len /\ d.keys[n] = n
      /\ Shape(d)
  BY <1>1 DEF SubmitsBid, Shape, Listable
<1>5. ASSUME NEW i \in 1..n PROVE d.keys[i] \in 1..d.len
  <2>1. i = n \/ i \in 1..c.n_bids
    BY <1>4
  <2>2. CASE i = n
    BY <1>4, <2>2
  <2>3. CASE i \in 1..c.n_bids
    <3>1. d.keys[i] = c.keys[i] /\ c.keys[i] \in 1..c.len
      BY <1>1, <2>3 DEF SubmitsBid, Listable
    <3> QED  BY <1>4, <3>1
  <2> QED  BY <2>1, <2>2, <2>3
<1>6. Holds(d, B)
  BY <1>1 DEF SubmitsBid, Listable
<1> HIDE DEF n
<1> QED  BY <1>3, <1>4, <1>5, <1>6 DEF Listable, d

\* replacing,
LEMMA ResubmitLists ==
    ASSUME NEW B, NEW c, Listable(c, B), NEW bid, bid \in B, Countable(B)
    PROVE  Listable(Resubmit(c, bid), B)
<1> DEFINE mine == MadeBy(c, bid.id)
           k == c.keys[CHOOSE i \in mine : TRUE]
           e == Uncounted(c, c.bids[k])
           f == [e EXCEPT !.bids[k] = bid]
<1>1. CASE mine = {}
  BY <1>1, SubmitLists DEF Resubmit
<1>2. CASE mine # {} /\ Cardinality(mine) > 1
  BY <1>2 DEF Resubmit
<1>3. CASE mine # {} /\ ~(Cardinality(mine) > 1)
  <2>1. Resubmit(c, bid) = Counted(f, bid, 1)
    BY <1>3 DEF Resubmit
  <2>2. k \in 1..c.len
    <3>1. (CHOOSE i \in mine : TRUE) \in 1..c.n_bids
      BY <1>3 DEF MadeBy
    <3> QED  BY <3>1 DEF Listable
  <2> HIDE DEF k
  <2>3. c.bids[k].quantity \in Int /\ bid.quantity \in Int
    BY <2>2 DEF Listable, Holds, Countable
  <2>4. Listable(e, B)
    BY <2>3, CountedLists DEF Uncounted
  <2> HIDE DEF e
  <2>5. PICK len, n_bids, bids, keys, ids, t, on, off, garbage :
            e = [len |-> len, n_bids |-> n_bids, bids |-> bids, keys |-> keys, bid_ids |-> ids,
                 total |-> t, total_on |-> on, total_off |-> off, garbage |-> garbage]
    BY <2>4 DEF Shape, Listable
  <2>6. f = [len |-> e.len, n_bids |-> e.n_bids, bids |-> [e.bids EXCEPT ![k] = bid], keys |-> e.keys,
             bid_ids |-> e.bid_ids, total |-> e.total, total_on |-> e.total_on,
             total_off |-> e.total_off, garbage |-> e.garbage]
    BY <2>5
  <2> HIDE DEF f
  <2>7. /\ f.len = e.len /\ f.n_bids = e.n_bids /\ f.bids = [e.bids EXCEPT ![k] = bid]
        /\ f.keys = e.keys /\ f.bid_ids = e.bid_ids /\ f.total = e.total
        /\ f.total_on = e.total_on /\ f.total_off = e.total_off /\ f.garbage = e.garbage
    BY <2>6
  <2>8. f = [len |-> f.len, n_bids |-> f.n_bids, bids |-> f.bids, keys |-> f.keys,
             bid_ids |-> f.bid_ids, total |-> f.total, total_on |-> f.total_on,
             total_off |-> f.total_off, garbage |-> f.garbage]
    BY <2>6, <2>7
  <2>9. Array(e.bids, e.len) /\ Holds(e, B)
    BY <2>4 DEF Listable, Shape
  <2>10. Array(f.bids, f.len) /\ Holds(f, B)
    BY <2>7, <2>9 DEF Array, Holds
  <2>11. Shape(f)
    BY <2>4, <2>7, <2>8, <2>10 DEF Shape, Listable
  <2>12. Listable(f, B)
    BY <2>4, <2>7, <2>10, <2>11 DEF Listable, IntTotals
  <2> QED  BY <2>1, <2>3, <2>12, CountedLists
<1> QED  BY <1>1, <1>2, <1>3

\* removing,
LEMMA RemoveLists ==
    ASSUME NEW B, NEW c, Listable(c, B), NEW id, Countable(B)
    PROVE  Listable(RemoveBid(c, id), B)
<1>0. c.n_bids \in Nat /\ MadeBy(c, id) \in SUBSET (1..c.n_bids) /\ Shape(c) /\ c.len \in Nat
  BY DEF Shape, MadeBy, Listable
<1>1. IsFiniteSet(MadeBy(c, id))
  <2>1. IsFiniteSet(1..c.n_bids)
    BY <1>0, FS_Interval
  <2> QED  BY <1>0, <2>1, FS_Subset
<1>2. CASE Cardinality(MadeBy(c, id)) # 1
  BY <1>2 DEF RemoveBid
<1>3. CASE Cardinality(MadeBy(c, id)) = 1
  <2>1. PICK n : MadeBy(c, id) = {n}
    BY <1>1, <1>3, FS_Singleton
  <2>2. n \in 1..c.n_bids
    BY <1>0, <2>1
  <2> DEFINE d == RemoveBid(c, id)
             old == GetBid(c, n)
             p == (-1) * old.quantity
  <2>3. /\ Shape(d) /\ d.len = c.len /\ (Holds(c, B) => Holds(d, B))
        /\ \A i \in 1..d.n_bids : \E j \in 1..c.n_bids : d.keys[i] = c.keys[j]
        /\ d.total = c.total + p
        /\ d.total_on = IF old.state = "BS_ON" THEN c.total_on + p ELSE c.total_on
        /\ d.total_off = IF old.state = "BS_OFF" THEN c.total_off + p ELSE c.total_off
    BY <1>0, <2>1, <2>2, RemoveMakes
  <2> HIDE DEF d
  <2>4. old.quantity \in Int
    BY <2>2 DEF GetBid, Listable, Holds, Countable
  <2>5. p \in Int
    BY <2>4
  <2> HIDE DEF p, old
  <2>6. IntTotals(d)
    BY <2>3, <2>5 DEF Listable, IntTotals
  <2> QED  BY <2>3, <2>6 DEF Listable, d
<1> QED  BY <1>2, <1>3

\* clearing.
LEMMA ClearLists ==
    ASSUME NEW B, NEW c, Listable(c, B)
    PROVE  Listable(Clear(c), B) /\ Clear(c).n_bids = 0
<1>1. Shape(c) /\ Holds(c, B)
  BY DEF Listable
<1>2. Shape(Clear(c)) /\ Clear(c).n_bids = 0 /\ Clear(c).total = 0 /\ Clear(c).total_on = 0
      /\ Clear(c).total_off = 0 /\ Holds(Clear(c), B)
  BY <1>1, ClearShape
<1> QED  BY <1>2 DEF Listable, IntTotals

-----------------------------------------------------------------------------
(* Sorting *)

\* R is a strict order of the numbers up to N, and one of any two comes first.
Orders(R, N) ==
    /\ \A m \in 1..N : <<m, m>> \notin R
    /\ \A k, m, n \in 1..N : <<k, m>> \in R /\ <<m, n>> \in R => <<k, n>> \in R
    /\ \A m, n \in 1..N : m = n \/ <<m, n>> \in R \/ <<n, m>> \in R

Place(R, N, m) == Cardinality({n \in 1..N : <<n, m>> \in R}) + 1

\* Counting what comes first gives each a place of its own, and no place stays empty.
LEMMA Places ==
    ASSUME NEW N \in Nat, NEW R, Orders(R, N)
    PROVE  /\ \A n \in 1..N : \E m \in 1..N : Place(R, N, m) = n
           /\ \A m, n \in 1..N : Place(R, N, m) < Place(R, N, n) => <<m, n>> \in R
<1> DEFINE First(m) == {n \in 1..N : <<n, m>> \in R}
<1>0. IsFiniteSet(1..N) /\ Cardinality(1..N) = N
  BY FS_Interval
<1>1. \A m \in 1..N : IsFiniteSet(First(m)) /\ Cardinality(First(m)) \in 0..(N - 1)
  <2> TAKE m \in 1..N
  <2>1. IsFiniteSet((1..N) \ {m}) /\ Cardinality((1..N) \ {m}) = N - 1
    BY <1>0, FS_RemoveElement
  <2>2. First(m) \in SUBSET ((1..N) \ {m})
    BY DEF Orders
  <2> HIDE DEF First
  <2>3. IsFiniteSet(First(m)) /\ Cardinality(First(m)) <= N - 1
    BY <2>1, <2>2, FS_Subset
  <2>4. Cardinality(First(m)) \in Nat
    BY <2>3, FS_CardinalityType
  <2> QED  BY <2>3, <2>4
<1>2. \A m \in 1..N : Place(R, N, m) = Cardinality(First(m)) + 1
  BY DEF Place
<1>3. \A m, n \in 1..N : <<m, n>> \in R => Place(R, N, m) < Place(R, N, n)
  <2> SUFFICES ASSUME NEW m \in 1..N, NEW n \in 1..N, <<m, n>> \in R
               PROVE  Place(R, N, m) < Place(R, N, n)
    OBVIOUS
  <2>1. m \notin First(m) /\ First(m) \cup {m} \in SUBSET First(n)
    BY DEF Orders
  <2> HIDE DEF First
  <2>2. IsFiniteSet(First(m) \cup {m}) /\ Cardinality(First(m) \cup {m}) = Cardinality(First(m)) + 1
    BY <1>1, <2>1, FS_AddElement
  <2>3. Cardinality(First(m) \cup {m}) <= Cardinality(First(n))
    BY <1>1, <2>1, FS_Subset
  <2> QED  BY <1>1, <1>2, <2>2, <2>3
<1> DEFINE f == [m \in 1..N |-> Place(R, N, m)]
<1>4. \A m \in 1..N : Place(R, N, m) \in 1..N
  <2> HIDE DEF First
  <2> QED  BY <1>1, <1>2
<1>5. f \in Injection(1..N, 1..N)
  <2>1. \A m, n \in 1..N : Place(R, N, m) = Place(R, N, n) => m = n
    <3> TAKE m, n \in 1..N
    <3>1. Place(R, N, m) \in Int /\ Place(R, N, n) \in Int
      BY <1>4
    <3>2. m = n \/ <<m, n>> \in R \/ <<n, m>> \in R
      BY DEF Orders
    <3> QED  BY <1>3, <3>1, <3>2
  <2> QED  BY <1>4, <2>1 DEF Injection, IsInjective
<1>6. f \in Surjection(1..N, 1..N)
  <2> HIDE DEF f
  <2> QED  BY <1>0, <1>5, FS_Injection
<1>7. \A n \in 1..N : \E m \in 1..N : Place(R, N, m) = n
  BY <1>6 DEF Surjection
<1>8. ASSUME NEW m \in 1..N, NEW n \in 1..N, Place(R, N, m) < Place(R, N, n) PROVE <<m, n>> \in R
  <2>1. Place(R, N, m) \in Int /\ Place(R, N, n) \in Int
    BY <1>4
  <2>2. m # n /\ <<n, m>> \notin R
    BY <1>3, <1>8, <2>1
  <2> QED  BY <2>2 DEF Orders
<1> QED  BY <1>7, <1>8

\* What is wanted first: high prices on the side -1 of the buyers, low ones on the side 1.
Ordered(list, side) ==
    \A m, n \in 1..Len(list) : m <= n => side * list[m].price <= side * list[n].price

Priced(B) == \A x \in B : x.price \in Int

\* Sorting lists the same bids, the ones that are wanted first in front.
LEMMA SortLists ==
    ASSUME NEW B, NEW c, Listable(c, B), Priced(B), NEW reverse \in BOOLEAN
    PROVE  LET d == Sort(c, reverse)
           IN  Listable(d, B) /\ d.n_bids = c.n_bids /\ Ordered(Listed(d), IF reverse THEN -1 ELSE 1)
<1> DEFINE N == c.n_bids
           price(n) == GetBid(c, n).price
           before(m, n) == \/ price(m) # price(n) /\ (reverse <=> price(m) > price(n))
                           \/ price(m) = price(n) /\ (IF reverse THEN m < n ELSE n < m)
           place(m) == Cardinality({n \in 1..N : before(n, m)}) + 1
           from(n) == CHOOSE m \in 1..N : place(m) = n
           R == {x \in (1..N) \X (1..N) : before(x[1], x[2])}
           d == Sort(c, reverse)
<1>1. N \in Nat /\ c.len \in Nat /\ N <= c.len /\ \A n \in 1..N : price(n) \in Int /\ c.keys[n] \in 1..c.len
  BY DEF Listable, Shape, GetBid, Holds, Priced
<1>2. d = [c EXCEPT !.keys = [n \in 1..c.len |-> IF n <= N THEN @[from(n)] ELSE @[n]]]
  BY DEF Sort
<1> HIDE DEF price, d
<1>3. \A m, n \in 1..N : <<m, n>> \in R <=> before(m, n)
  OBVIOUS
<1>4. Orders(R, N)
  <2>1. \A m \in 1..N : ~before(m, m)
    BY <1>1
  <2>2. \A k, m, n \in 1..N : before(k, m) /\ before(m, n) => before(k, n)
    <3>1. CASE reverse
      BY <1>1, <3>1
    <3>2. CASE ~reverse
      BY <1>1, <3>2
    <3> QED  BY <3>1, <3>2
  <2>3. \A m, n \in 1..N : m = n \/ before(m, n) \/ before(n, m)
    <3>1. CASE reverse
      BY <1>1, <3>1
    <3>2. CASE ~reverse
      BY <1>1, <3>2
    <3> QED  BY <3>1, <3>2
  <2> HIDE DEF before, R
  <2> QED  BY <1>3, <2>1, <2>2, <2>3 DEF Orders
<1>5. \A m \in 1..N : place(m) = Place(R, N, m)
  <2> HIDE DEF before, R
  <2> TAKE m \in 1..N
  <2>1. {n \in 1..N : before(n, m)} = {n \in 1..N : <<n, m>> \in R}
    BY <1>3
  <2> QED  BY <2>1 DEF Place
<1> HIDE DEF R
<1>6. \A n \in 1..N : \E m \in 1..N : place(m) = n
  <2> HIDE DEF place
  <2> QED  BY <1>1, <1>4, <1>5, Places
<1>7. \A m, n \in 1..N : place(m) < place(n) => before(m, n)
  <2> HIDE DEF place, before
  <2> QED  BY <1>1, <1>3, <1>4, <1>5, Places
<1> HIDE DEF place
<1>8. \A n \in 1..N : from(n) \in 1..N /\ place(from(n)) = n
  BY <1>6
<1> HIDE DEF from
<1>9. d = [len |-> c.len, n_bids |-> N, bids |-> c.bids,
           keys |-> [n \in 1..c.len |-> IF n <= N THEN c.keys[from(n)] ELSE c.keys[n]],
           bid_ids |-> c.bid_ids, total |-> c.total, total_on |-> c.total_on,
           total_off |-> c.total_off, garbage |-> c.garbage]
  <2>1. PICK len, n_bids, bids, keys, ids, t, on, off, garbage :
            c = [len |-> len, n_bids |-> n_bids, bids |-> bids, keys |-> keys, bid_ids |-> ids,
                 total |-> t, total_on |-> on, total_off |-> off, garbage |-> garbage]
    BY DEF Shape, Listable
  <2> QED  BY <1>2, <2>1
<1>10. /\ d.len = c.len /\ d.n_bids = N /\ d.bids = c.bids /\ d.garbage = c.garbage
       /\ d.total = c.total /\ d.total_on = c.total_on /\ d.total_off = c.total_off
       /\ \A n \in 1..N : d.keys[n] = c.keys[from(n)]
  BY <1>1, <1>9
<1>11. Shape(d)
  BY SortShape DEF Listable, d
<1>12. Listable(d, B)
  BY <1>1, <1>8, <1>10, <1>11 DEF Listable, IntTotals, Holds
<1>13. Len(Listed(d)) = N /\ \A n \in 1..N : Listed(d)[n].price = price(from(n))
  BY <1>1, <1>10 DEF Listed, GetBid, price
<1>14. ASSUME NEW m \in 1..N, NEW n \in 1..N, m <= n
       PROVE  (IF reverse THEN -1 ELSE 1) * price(from(m)) <= (IF reverse THEN -1 ELSE 1) * price(from(n))
  <2> DEFINE p == price(from(m))
             q == price(from(n))
  <2>1. p \in Int /\ q \in Int
    BY <1>1, <1>8
  <2>2. CASE m = n
    BY <2>1, <2>2
  <2>3. CASE m < n
    <3>1. before(from(m), from(n))
      BY <1>7, <1>8, <2>3
    <3>2. IF reverse THEN p >= q ELSE p <= q
      BY <2>1, <3>1
    <3> HIDE DEF p, q
    <3>3. (IF reverse THEN -1 ELSE 1) * p <= (IF reverse THEN -1 ELSE 1) * q
      BY <2>1, <3>2
    <3> QED  BY <3>3 DEF p, q
  <2>4. m = n \/ m < n
    BY <1>1, <1>14
  <2> QED  BY <2>2, <2>3, <2>4
<1>15. Ordered(Listed(d), IF reverse THEN -1 ELSE 1)
  BY <1>13, <1>14 DEF Ordered
<1> QED  BY <1>10, <1>12, <1>15 DEF d

-----------------------------------------------------------------------------
(* The walk along both curves *)

\* Bids that ask for or offer something.
Bids(list) ==
    /\ Len(list) \in Nat
    /\ \A n \in 1..Len(list) : list[n].quantity \in Nat \ {0} /\ list[n].price \in Int

\* The quantity of the first bids, one after the other.
LEMMA FirstQuantities ==
    ASSUME NEW list, Bids(list)
    PROVE  /\ Quantity(list, 1..0) = 0
           /\ \A k \in 0..Len(list) : Quantity(list, 1..k) \in Nat
           /\ \A k \in 1..Len(list) : Quantity(list, 1..k) = Quantity(list, 1..(k - 1)) + list[k].quantity
<1>1. CountsUp(list, 1..Len(list))
  <2>1. IsFiniteSet(1..Len(list))
    BY FS_Interval DEF Bids
  <2> QED  BY <2>1 DEF Bids, CountsUp
<1>2. \A k \in 0..Len(list) : 1..k \in SUBSET (1..Len(list))
  BY DEF Bids
<1>3. \A k \in 0..Len(list) : Counts(list, 1..k) /\ Quantity(list, 1..k) \in Nat
  BY <1>1, <1>2, QuantityWithin
<1>4. Quantity(list, 1..0) = 0
  <2>1. 1..0 = {} /\ 0 \in 0..Len(list)
    BY DEF Bids
  <2> QED  BY <1>3, <2>1, QuantityTakes
<1>5. ASSUME NEW k \in 1..Len(list)
      PROVE  Quantity(list, 1..k) = Quantity(list, 1..(k - 1)) + list[k].quantity
  <2>1. k - 1 \in 0..Len(list) /\ 1..k = (1..(k - 1)) \cup {k} /\ k \notin 1..(k - 1)
        /\ list[k].quantity \in Int
    BY DEF Bids
  <2>2. Quantity(list, (1..(k - 1)) \cup {k}) = Quantity(list, 1..(k - 1)) + list[k].quantity
    BY <1>3, <2>1, QuantityMore
  <2> QED  BY <2>1, <2>2
<1> QED  BY <1>3, <1>4, <1>5

Step(asks, offers, m) == IF Crossing(asks, offers, m) THEN Matched(asks, offers, m) ELSE m
Steps(f, asks, offers, k) ==
    f = [n \in 0..k |-> IF n = 0 THEN Opening
                        ELSE IF Crossing(asks, offers, f[n - 1]) THEN Matched(asks, offers, f[n - 1])
                        ELSE f[n - 1]]

\* The walk is the last of a sequence of rounds.
LEMMA WalkSteps ==
    ASSUME NEW asks, NEW offers, Len(asks) \in Nat, Len(offers) \in Nat
    PROVE  \E f : Walk(asks, offers) = f[Len(asks) + Len(offers)]
                  /\ Steps(f, asks, offers, Len(asks) + Len(offers))
<1> DEFINE rounds == Len(asks) + Len(offers)
           Upto == {k \in Nat : \E f : Steps(f, asks, offers, k)}
<1>1. 0 \in Upto
  <2>1. Steps([n \in 0..0 |-> Opening], asks, offers, 0)
    BY DEF Steps
  <2> QED  BY <2>1
<1>2. ASSUME NEW k \in Nat, k > 0, k - 1 \in Upto PROVE k \in Upto
  <2>1. PICK g : Steps(g, asks, offers, k - 1)
    BY <1>2
  <2> DEFINE h == [n \in 0..k |-> IF n = 0 THEN Opening ELSE Step(asks, offers, g[n - 1])]
  <2>2. \A n \in 0..(k - 1) : g[n] = IF n = 0 THEN Opening ELSE Step(asks, offers, g[n - 1])
    BY <2>1 DEF Steps, Step
  <2>3. \A n \in 0..(k - 1) : h[n] = g[n]
    BY <1>2, <2>2
  <2>4. \A n \in 1..k : n - 1 \in 0..(k - 1) /\ h[n] = Step(asks, offers, h[n - 1])
    <3> TAKE n \in 1..k
    <3>1. n - 1 \in 0..(k - 1) /\ n # 0 /\ n \in 0..k
      BY <1>2
    <3>2. h[n] = Step(asks, offers, g[n - 1])
      BY <3>1
    <3> HIDE DEF h
    <3> QED  BY <2>3, <3>1, <3>2
  <2>5. h[0] = Opening /\ h = [n \in 0..k |-> h[n]]
    BY <1>2
  <2> HIDE DEF h
  <2>6. h = [n \in 0..k |-> IF n = 0 THEN Opening ELSE Step(asks, offers, h[n - 1])]
    <3>1. \A n \in 0..k : h[n] = IF n = 0 THEN Opening ELSE Step(asks, offers, h[n - 1])
      <4> TAKE n \in 0..k
      <4>1. n = 0 \/ n \in 1..k
        BY <1>2
      <4> QED  BY <2>4, <2>5, <4>1
    <3> QED  BY <2>5, <3>1
  <2>7. Steps(h, asks, offers, k)
    BY <2>6 DEF Steps, Step
  <2> QED  BY <2>7
<1>3. rounds \in Nat
  OBVIOUS
<1>4. rounds \in Upto
  <2> HIDE DEF Upto, rounds
  <2>0. \A n \in 1..rounds : n - 1 \in Upto => n \in Upto
    <3> TAKE n \in 1..rounds
    <3>1. n \in Nat /\ n > 0
      BY <1>3
    <3> QED  BY <1>2, <3>1
  <2>1. 0..rounds \subseteq Upto
    BY <1>1, <1>3, <2>0, CountingUp
  <2> QED  BY <1>3, <2>1
<1>5. PICK g : Steps(g, asks, offers, rounds)
  BY <1>4
<1> DEFINE f == CHOOSE f : Steps(f, asks, offers, rounds)
<1>6. Steps(f, asks, offers, rounds)
  BY <1>5
<1>7. Walk(asks, offers) = f[rounds]
  BY DEF Walk, Steps
<1> QED  BY <1>6, <1>7

-----------------------------------------------------------------------------
(* What holds after every round: the quantity that both sides have agreed on lies within *)
(* the next bid of the side that has not been satisfied, or is that of all bids passed.  *)

Start(m) == m.i = 1 /\ m.j = 1 /\ m.quantity = 0 /\ ~m.check /\ m.type = "CT_NULL"

Even(asks, offers, m) ==
    /\ m.check /\ m.i > 1 /\ m.j > 1 /\ m.quantity = m.demand /\ m.quantity = m.supply /\ m.quantity > 0
    /\ m.a = asks[m.i - 1].price /\ m.b = offers[m.j - 1].price /\ m.b <= m.a

BuyerLeft(asks, offers, m) ==
    /\ ~m.check /\ m.type = "CT_BUYER" /\ m.i <= Len(asks) /\ m.j > 1
    /\ m.quantity = m.supply /\ m.demand < m.supply /\ m.supply < m.demand + asks[m.i].quantity
    /\ m.a = asks[m.i].price /\ m.b = m.a /\ offers[m.j - 1].price <= m.a

SellerLeft(asks, offers, m) ==
    /\ ~m.check /\ m.type = "CT_SELLER" /\ m.j <= Len(offers) /\ m.i > 1
    /\ m.quantity = m.demand /\ m.supply < m.demand /\ m.demand < m.supply + offers[m.j].quantity
    /\ m.a = offers[m.j].price /\ m.b = m.a /\ m.a <= asks[m.i - 1].price

WalkInv(asks, offers, m) ==
    /\ m \in [i : 1..(Len(asks) + 1), j : 1..(Len(offers) + 1), demand : Nat, supply : Nat, quantity : Nat,
              a : Int, b : Int, check : BOOLEAN, type : {"CT_NULL", "CT_BUYER", "CT_SELLER"}]
    /\ m.demand = Quantity(asks, 1..(m.i - 1)) /\ m.supply = Quantity(offers, 1..(m.j - 1))
    /\ \/ Start(m)
       \/ Even(asks, offers, m)
       \/ BuyerLeft(asks, offers, m)
       \/ SellerLeft(asks, offers, m)

\* The walk begins so,
LEMMA OpeningInv ==
    ASSUME NEW asks, NEW offers, Bids(asks), Bids(offers)
    PROVE  WalkInv(asks, offers, Opening) /\ Opening.i + Opening.j = 2
<1>1. Quantity(asks, 1..0) = 0 /\ Quantity(offers, 1..0) = 0
  BY FirstQuantities
<1>2. pricecap \in Int /\ -pricecap \in Int
  BY AuctionAssumption DEF ClearingAssumption
<1>3. 1 \in 1..(Len(asks) + 1) /\ 1 \in 1..(Len(offers) + 1)
  BY DEF Bids
<1>4. Opening \in [i : 1..(Len(asks) + 1), j : 1..(Len(offers) + 1), demand : Nat, supply : Nat, quantity : Nat,
                   a : Int, b : Int, check : BOOLEAN, type : {"CT_NULL", "CT_BUYER", "CT_SELLER"}]
  BY <1>2, <1>3 DEF Opening
<1>5. Start(Opening) /\ Opening.demand = 0 /\ Opening.supply = 0 /\ Opening.i - 1 = 0 /\ Opening.j - 1 = 0
  BY DEF Opening, Start
<1> QED  BY <1>1, <1>4, <1>5 DEF WalkInv, Start

\* a match keeps it so and passes a bid,
LEMMA MatchedInv ==
    ASSUME NEW asks, NEW offers, Bids(asks), Bids(offers), NEW m, WalkInv(asks, offers, m),
           Crossing(asks, offers, m)
    PROVE  LET r == Matched(asks, offers, m)
           IN  WalkInv(asks, offers, r) /\ r.i + r.j > m.i + m.j
<1> DEFINE i == m.i
           j == m.j
           buy == asks[i]
           sell == offers[j]
           bq == m.demand + buy.quantity
           sq == m.supply + sell.quantity
           r == Matched(asks, offers, m)
<1>1. /\ m \in [i : 1..(Len(asks) + 1), j : 1..(Len(offers) + 1), demand : Nat, supply : Nat, quantity : Nat,
                a : Int, b : Int, check : BOOLEAN, type : {"CT_NULL", "CT_BUYER", "CT_SELLER"}]
      /\ m.demand = Quantity(asks, 1..(i - 1)) /\ m.supply = Quantity(offers, 1..(j - 1))
  BY DEF WalkInv
<1>2. i \in 1..Len(asks) /\ j \in 1..Len(offers) /\ buy.price >= sell.price
      /\ Len(asks) \in Nat /\ Len(offers) \in Nat
  BY <1>1 DEF Crossing, Bids
<1>3. /\ buy.quantity \in Nat \ {0} /\ sell.quantity \in Nat \ {0} /\ buy.price \in Int /\ sell.price \in Int
  BY <1>2 DEF Bids
<1>4. bq = Quantity(asks, 1..i) /\ sq = Quantity(offers, 1..j)
  BY <1>1, <1>2, FirstQuantities
<1>5. m.demand < sq /\ m.supply < bq
  <2> DEFINE d == m.demand
             s == m.supply
             p == buy.quantity
             q == sell.quantity
  <2>1. d \in Nat /\ s \in Nat /\ p \in Nat \ {0} /\ q \in Nat \ {0}
    BY <1>1, <1>3
  <2>2. \/ d = s
        \/ d < s /\ s < d + p
        \/ s < d /\ d < s + q
    <3>1. CASE Start(m)
      <4>1. d = 0 /\ s = 0
        <5>1. i - 1 = 0 /\ j - 1 = 0
          BY <3>1 DEF Start
        <5>2. Quantity(asks, 1..0) = 0 /\ Quantity(offers, 1..0) = 0
          BY FirstQuantities
        <5> QED  BY <1>1, <5>1, <5>2
      <4> QED  BY <4>1
    <3>2. CASE Even(asks, offers, m)
      BY <3>2 DEF Even
    <3>3. CASE BuyerLeft(asks, offers, m)
      BY <3>3 DEF BuyerLeft
    <3>4. CASE SellerLeft(asks, offers, m)
      BY <3>4 DEF SellerLeft
    <3> QED  BY <3>1, <3>2, <3>3, <3>4 DEF WalkInv
  <2> HIDE DEF d, s, p, q
  <2>3. d < s + q /\ s < d + p
    BY <2>1, <2>2
  <2> QED  BY <2>3 DEF d, s, p, q
<1>6. bq \in Nat /\ sq \in Nat /\ bq > 0 /\ sq > 0
  <2>1. m.demand \in Nat /\ m.supply \in Nat
    BY <1>1
  <2>2. \A x \in Nat : \A y \in Nat \ {0} : x + y \in Nat /\ x + y > 0
    OBVIOUS
  <2> HIDE DEF buy, sell
  <2> QED  BY <1>3, <2>1, <2>2
<1>7. CASE bq > sq
  <2>1. r = [m EXCEPT !.j = @ + 1, !.supply = sq, !.quantity = sq, !.a = buy.price, !.b = buy.price,
                      !.check = FALSE, !.type = "CT_BUYER"]
    BY <1>6, <1>7 DEF Matched
  <2> HIDE DEF r, bq, sq, buy, sell
  <2>2. /\ r.i = i /\ r.j = j + 1 /\ r.demand = m.demand /\ r.supply = sq /\ r.quantity = sq
        /\ r.a = buy.price /\ r.b = buy.price /\ ~r.check /\ r.type = "CT_BUYER"
    BY <1>1, <2>1
  <2>3. r \in [i : 1..(Len(asks) + 1), j : 1..(Len(offers) + 1), demand : Nat, supply : Nat, quantity : Nat,
               a : Int, b : Int, check : BOOLEAN, type : {"CT_NULL", "CT_BUYER", "CT_SELLER"}]
    <3>1. j + 1 \in 1..(Len(offers) + 1)
      BY <1>2
    <3> HIDE DEF i, j
    <3> QED  BY <1>1, <1>3, <1>6, <2>1, <3>1 DEF j
  <2>4. r.i - 1 = i - 1 /\ r.j - 1 = j /\ r.i \in Int /\ r.j \in Int
    BY <1>2, <2>2
  <2>5. BuyerLeft(asks, offers, r)
    BY <1>2, <1>5, <1>7, <2>2, <2>4 DEF BuyerLeft, buy, bq, sell
  <2>6. r.i + r.j > m.i + m.j
    BY <1>2, <2>2
  <2> QED  BY <1>1, <1>4, <2>2, <2>3, <2>4, <2>5, <2>6 DEF WalkInv, r
<1>8. CASE bq < sq
  <2>1. r = [m EXCEPT !.i = @ + 1, !.demand = bq, !.quantity = bq, !.a = sell.price, !.b = sell.price,
                      !.check = FALSE, !.type = "CT_SELLER"]
    BY <1>6, <1>8 DEF Matched
  <2> HIDE DEF r, bq, sq, buy, sell
  <2>2. /\ r.i = i + 1 /\ r.j = j /\ r.supply = m.supply /\ r.demand = bq /\ r.quantity = bq
        /\ r.a = sell.price /\ r.b = sell.price /\ ~r.check /\ r.type = "CT_SELLER"
    BY <1>1, <2>1
  <2>3. r \in [i : 1..(Len(asks) + 1), j : 1..(Len(offers) + 1), demand : Nat, supply : Nat, quantity : Nat,
               a : Int, b : Int, check : BOOLEAN, type : {"CT_NULL", "CT_BUYER", "CT_SELLER"}]
    <3>1. i + 1 \in 1..(Len(asks) + 1)
      BY <1>2
    <3> HIDE DEF i, j
    <3> QED  BY <1>1, <1>3, <1>6, <2>1, <3>1 DEF i
  <2>4. r.i - 1 = i /\ r.j - 1 = j - 1 /\ r.i \in Int /\ r.j \in Int
    BY <1>2, <2>2
  <2>5. SellerLeft(asks, offers, r)
    BY <1>2, <1>5, <1>8, <2>2, <2>4 DEF SellerLeft, sell, sq, buy
  <2>6. r.i + r.j > m.i + m.j
    BY <1>2, <2>2
  <2> QED  BY <1>1, <1>4, <2>2, <2>3, <2>4, <2>5, <2>6 DEF WalkInv, r
<1>9. CASE bq = sq
  <2>1. r = [m EXCEPT !.i = @ + 1, !.j = @ + 1, !.demand = bq, !.supply = bq, !.quantity = bq,
                      !.a = buy.price, !.b = sell.price, !.check = TRUE]
    BY <1>6, <1>9 DEF Matched
  <2> HIDE DEF r, bq, sq, buy, sell
  <2>2. /\ r.i = i + 1 /\ r.j = j + 1 /\ r.supply = bq /\ r.demand = bq /\ r.quantity = bq
        /\ r.a = buy.price /\ r.b = sell.price /\ r.check
    BY <1>1, <2>1
  <2>3. r \in [i : 1..(Len(asks) + 1), j : 1..(Len(offers) + 1), demand : Nat, supply : Nat, quantity : Nat,
               a : Int, b : Int, check : BOOLEAN, type : {"CT_NULL", "CT_BUYER", "CT_SELLER"}]
    <3>1. i + 1 \in 1..(Len(asks) + 1) /\ j + 1 \in 1..(Len(offers) + 1)
      BY <1>2
    <3> HIDE DEF i, j
    <3> QED  BY <1>1, <1>3, <1>6, <2>1, <3>1 DEF i, j
  <2>4. r.i - 1 = i /\ r.j - 1 = j /\ r.i \in Int /\ r.j \in Int
    BY <1>2, <2>2
  <2>5. Even(asks, offers, r)
    BY <1>2, <1>6, <1>9, <2>2, <2>4 DEF Even, sell, buy
  <2>6. r.i + r.j > m.i + m.j
    BY <1>2, <2>2
  <2> QED  BY <1>1, <1>4, <1>9, <2>2, <2>3, <2>4, <2>5, <2>6 DEF WalkInv, r
<1> QED  BY <1>6, <1>7, <1>8, <1>9

\* and it ends with no two bids that could still trade.
LEMMA WalkEnds ==
    ASSUME NEW asks, NEW offers, Bids(asks), Bids(offers)
    PROVE  WalkInv(asks, offers, Walk(asks, offers)) /\ ~Crossing(asks, offers, Walk(asks, offers))
<1> DEFINE rounds == Len(asks) + Len(offers)
<1>1. Len(asks) \in Nat /\ Len(offers) \in Nat /\ rounds \in Nat
  BY DEF Bids
<1>2. PICK f : Walk(asks, offers) = f[rounds] /\ Steps(f, asks, offers, rounds)
  BY <1>1, WalkSteps
<1> DEFINE Good(m, n) == WalkInv(asks, offers, m) /\ (Crossing(asks, offers, m) => m.i + m.j >= n + 2)
           Upto == {n \in 0..rounds : Good(f[n], n)}
<1> HIDE DEF rounds
<1>3. f[0] = Opening /\ \A n \in 1..rounds : f[n] = Step(asks, offers, f[n - 1])
  BY <1>1, <1>2 DEF Steps, Step
<1>4. 0 \in Upto
  <2>1. Good(Opening, 0)
    BY OpeningInv
  <2> QED  BY <1>1, <1>3, <2>1
<1>5. ASSUME NEW n \in 1..rounds, n - 1 \in Upto PROVE n \in Upto
  <2> DEFINE m == f[n - 1]
             r == f[n]
  <2>1. Good(m, n - 1) /\ r = Step(asks, offers, m) /\ n \in Int
    BY <1>1, <1>3, <1>5
  <2> HIDE DEF m, r
  <2>2. m.i \in Int /\ m.j \in Int
    BY <1>1, <2>1 DEF WalkInv
  <2>3. CASE Crossing(asks, offers, m)
    <3>1. r = Matched(asks, offers, m)
      BY <2>1, <2>3 DEF Step
    <3>2. WalkInv(asks, offers, r) /\ r.i + r.j > m.i + m.j
      BY <2>1, <2>3, <3>1, MatchedInv
    <3>3. r.i \in Int /\ r.j \in Int
      BY <1>1, <3>2 DEF WalkInv
    <3>4. Good(r, n)
      BY <2>1, <2>2, <2>3, <3>2, <3>3
    <3> QED  BY <3>4 DEF r
  <2>4. CASE ~Crossing(asks, offers, m)
    <3>1. r = m
      BY <2>1, <2>4 DEF Step
    <3>2. Good(r, n)
      BY <2>1, <2>4, <3>1
    <3> QED  BY <3>2 DEF r
  <2> QED  BY <2>3, <2>4
<1>6. rounds \in Upto
  <2> HIDE DEF Upto
  <2>1. 0..rounds \subseteq Upto
    BY <1>1, <1>4, <1>5, CountingUp
  <2> QED  BY <1>1, <2>1
<1> DEFINE w == Walk(asks, offers)
<1>7. Good(w, rounds)
  BY <1>2, <1>6
<1> HIDE DEF w
<1>8. ~Crossing(asks, offers, w)
  <2> SUFFICES ASSUME Crossing(asks, offers, w) PROVE FALSE
    OBVIOUS
  <2>1. w.i <= Len(asks) /\ w.j <= Len(offers) /\ w.i \in Int /\ w.j \in Int
    BY <1>1, <1>7 DEF Crossing, WalkInv
  <2> QED  BY <1>1, <1>7, <2>1 DEF rounds
<1> QED  BY <1>7, <1>8 DEF w

-----------------------------------------------------------------------------
(* Who is called on *)

\* The places from k + 1 to l are those of the bids at the margin, or there are none: the
\* first k are no worse than the price P, those after the first l no better.
LEMMA CalledBetween ==
    ASSUME NEW list, Bids(list), NEW side \in {1, -1}, NEW P \in Int,
           NEW k \in 0..Len(list), NEW l \in 0..Len(list), NEW q \in Int,
           Quantity(list, 1..k) <= q, q <= Quantity(list, 1..l),
           \A n \in 1..l : side * list[n].price <= side * P,
           \A n \in (k + 1)..Len(list) : side * list[n].price >= side * P
    PROVE  Preferred(list, side, P) <= q /\ q <= Willing(list, side, P)
<1> DEFINE N == Len(list)
           better == {n \in 1..N : side * list[n].price < side * P}
           willing == {n \in 1..N : side * list[n].price <= side * P}
<1>1. N \in Nat /\ \A n \in 1..N : side * list[n].price \in Int /\ list[n].quantity \in Nat
  <2>1. \A n \in 1..N : list[n].price \in Int /\ list[n].quantity \in Nat
    BY DEF Bids
  <2> QED  BY <2>1 DEF Bids
<1>2. side * P \in Int
  OBVIOUS
<1>3. \A T \in SUBSET (1..N) : CountsUp(list, T)
  <2>1. IsFiniteSet(1..N)
    BY <1>1, FS_Interval
  <2> TAKE T \in SUBSET (1..N)
  <2>2. IsFiniteSet(T)
    BY <2>1, FS_Subset
  <2> QED  BY <1>1, <2>2 DEF CountsUp
<1>4. better \in SUBSET (1..k)
  <2> SUFFICES ASSUME NEW n \in better PROVE n \in 1..k
    OBVIOUS
  <2> DEFINE p == side * list[n].price
             r == side * P
  <2>1. p \in Int /\ r \in Int /\ p < r /\ n \in 1..N
    BY <1>1, <1>2
  <2>2. n \in (k + 1)..N => p >= r
    OBVIOUS
  <2> HIDE DEF p, r
  <2>3. n \notin (k + 1)..N
    BY <2>1, <2>2
  <2> QED  BY <1>1, <2>1, <2>3
<1>5. 1..l \in SUBSET willing
  <2>1. \A n \in 1..l : n \in 1..N
    BY <1>1
  <2> QED  BY <2>1
<1>6. 1..k \in SUBSET (1..N) /\ willing \in SUBSET (1..N) /\ 1..l \in SUBSET (1..N)
  BY <1>1
<1>7. Preferred(list, side, P) = Quantity(list, better) /\ Willing(list, side, P) = Quantity(list, willing)
  BY DEF Preferred, Willing
<1> HIDE DEF better, willing
<1>8. /\ Quantity(list, better) \in Nat /\ Quantity(list, 1..k) \in Nat
      /\ Quantity(list, better) <= Quantity(list, 1..k)
  BY <1>3, <1>4, <1>6, QuantityWithin
<1>9. /\ Quantity(list, willing) \in Nat /\ Quantity(list, 1..l) \in Nat
      /\ Quantity(list, 1..l) <= Quantity(list, willing)
  BY <1>3, <1>5, <1>6, QuantityWithin
<1> QED  BY <1>7, <1>8, <1>9

\* The bids at the price share what is left, and there is one.
LEMMA MarginShared ==
    ASSUME NEW list, Bids(list), NEW side \in {1, -1}, NEW clear, clear.price \in Int, clear.quantity \in Int,
           Preferred(list, side, clear.price) <= clear.quantity,
           clear.quantity <= Willing(list, side, clear.price),
           NEW k \in 1..Len(list), list[k].price = clear.price
    PROVE  LET margin == Margin(list, side, clear)
           IN  margin.quantity \in 0..margin.total /\ margin.total > 0
<1> DEFINE N == Len(list)
           P == clear.price
           better == {n \in 1..N : side * list[n].price < side * P}
           willing == {n \in 1..N : side * list[n].price <= side * P}
           equal == {n \in 1..N : list[n].price = P}
<1>1. N \in Nat /\ \A n \in 1..N : list[n].price \in Int /\ list[n].quantity \in Nat \ {0}
  BY DEF Bids
<1>2. \A T \in SUBSET (1..N) : CountsUp(list, T)
  <2>1. IsFiniteSet(1..N)
    BY <1>1, FS_Interval
  <2> TAKE T \in SUBSET (1..N)
  <2>2. IsFiniteSet(T)
    BY <2>1, FS_Subset
  <2> QED  BY <1>1, <2>2 DEF CountsUp
<1>3. willing = better \cup equal /\ better \cap equal = {}
  <2>1. \A n \in 1..N : /\ (side * list[n].price <= side * P) <=> (side * list[n].price < side * P \/ list[n].price = P)
                        /\ ~(side * list[n].price < side * P /\ list[n].price = P)
    <3> TAKE n \in 1..N
    <3> DEFINE p == list[n].price
    <3>1. p \in Int /\ P \in Int
      BY <1>1
    <3> HIDE DEF p, P
    <3>2. /\ (side * p <= side * P) <=> (side * p < side * P \/ p = P)
          /\ ~(side * p < side * P /\ p = P)
      <4>1. CASE side = 1
        BY <3>1, <4>1
      <4>2. CASE side = -1
        BY <3>1, <4>2
      <4> QED  BY <4>1, <4>2
    <3> QED  BY <3>2 DEF p
  <2> QED  BY <2>1
<1>4. better \in SUBSET (1..N) /\ equal \in SUBSET (1..N) /\ {} \in SUBSET equal /\ k \in equal \ {}
  OBVIOUS
<1>5. /\ Preferred(list, side, P) = Quantity(list, better) /\ Willing(list, side, P) = Quantity(list, willing)
      /\ Margin(list, side, clear) = [quantity |-> clear.quantity - Quantity(list, better),
                                      total |-> Quantity(list, equal)]
  BY DEF Preferred, Willing, Margin
<1>6. list[k].quantity \in Nat \ {0}
  BY <1>1
<1> HIDE DEF better, willing, equal
<1>7. Counts(list, better) /\ Counts(list, equal) /\ Quantity(list, better) \in Nat
  BY <1>2, <1>4, QuantityWithin
<1>8. Quantity(list, willing) = Quantity(list, better) + Quantity(list, equal)
  BY <1>3, <1>7, QuantitySplit
<1>9. Quantity(list, {}) = 0
  BY <1>7, QuantityTakes
<1>10. /\ Quantity(list, equal) \in Nat
       /\ Quantity(list, {}) + list[k].quantity <= Quantity(list, equal)
  BY <1>2, <1>4, QuantityWithin
<1> DEFINE t == Quantity(list, equal)
           u == Quantity(list, better)
           q == clear.quantity
           x == list[k].quantity
<1>11. t \in Nat /\ u \in Nat /\ q \in Int /\ x \in Nat \ {0} /\ 0 + x <= t /\ u <= q /\ q <= u + t
  BY <1>5, <1>6, <1>7, <1>8, <1>9, <1>10
<1>12. Margin(list, side, clear).quantity = q - u /\ Margin(list, side, clear).total = t
  BY <1>5
<1> HIDE DEF t, u, q, x
<1>13. q - u \in 0..t /\ t > 0
  BY <1>11
<1> QED  BY <1>12, <1>13

\* A price that is fair after a walk.
Fits(asks, offers, m, P) ==
    IF m.check
    THEN /\ m.b <= P /\ P <= m.a
         /\ m.i <= Len(asks) => asks[m.i].price <= P
         /\ m.j <= Len(offers) => P <= offers[m.j].price
    ELSE P = m.a

\* At a price that fits the end of the walk, its quantity calls on all better bids and on none
\* worse, on both sides.
LEMMA WalkFair ==
    ASSUME NEW asks, NEW offers, Bids(asks), Bids(offers), Ordered(asks, -1), Ordered(offers, 1),
           NEW m, WalkInv(asks, offers, m), ~Crossing(asks, offers, m), m.quantity > 0,
           NEW P \in Int, Fits(asks, offers, m, P)
    PROVE  /\ Preferred(asks, -1, P) <= m.quantity /\ m.quantity <= Willing(asks, -1, P)
           /\ Preferred(offers, 1, P) <= m.quantity /\ m.quantity <= Willing(offers, 1, P)
<1> DEFINE i == m.i
           j == m.j
           q == m.quantity
           La == Len(asks)
           Lo == Len(offers)
<1>1. /\ i \in 1..(La + 1) /\ j \in 1..(Lo + 1) /\ La \in Nat /\ Lo \in Nat /\ q \in Nat
      /\ m.demand \in Nat /\ m.supply \in Nat
      /\ m.demand = Quantity(asks, 1..(i - 1)) /\ m.supply = Quantity(offers, 1..(j - 1))
  BY DEF WalkInv, Bids
<1>2. (\A n \in 1..La : asks[n].price \in Int) /\ (\A n \in 1..Lo : offers[n].price \in Int)
  BY DEF Bids
<1>3. \A n, k \in 1..La : n <= k => asks[n].price >= asks[k].price
  <2> TAKE n, k \in 1..La
  <2> HAVE n <= k
  <2> DEFINE x == asks[n].price
             y == asks[k].price
  <2>1. x \in Int /\ y \in Int /\ -1 * x <= -1 * y
    BY <1>2 DEF Ordered
  <2> HIDE DEF x, y
  <2>2. x >= y
    BY <2>1
  <2> QED  BY <2>2 DEF x, y
<1>4. \A n, k \in 1..Lo : n <= k => offers[n].price <= offers[k].price
  <2> TAKE n, k \in 1..Lo
  <2> HAVE n <= k
  <2> DEFINE x == offers[n].price
             y == offers[k].price
  <2>1. x \in Int /\ y \in Int /\ 1 * x <= 1 * y
    BY <1>2 DEF Ordered
  <2> HIDE DEF x, y
  <2>2. x <= y
    BY <2>1
  <2> QED  BY <2>2 DEF x, y
<1>5. ~(i <= La /\ j <= Lo /\ asks[i].price >= offers[j].price)
  BY DEF Crossing
<1>6. \* How far each side is called on.
      \E k, l \in 0..La : \E g, h \in 0..Lo :
        /\ Quantity(asks, 1..k) <= q /\ q <= Quantity(asks, 1..l)
        /\ Quantity(offers, 1..g) <= q /\ q <= Quantity(offers, 1..h)
        /\ \A n \in 1..l : asks[n].price >= P
        /\ \A n \in (k + 1)..La : asks[n].price <= P
        /\ \A n \in 1..h : offers[n].price <= P
        /\ \A n \in (g + 1)..Lo : offers[n].price >= P
  <2>1. CASE Even(asks, offers, m)
    <3>1. i - 1 \in 1..La /\ j - 1 \in 1..Lo /\ i - 1 \in 0..La /\ j - 1 \in 0..Lo
      BY <1>1, <2>1 DEF Even
    <3>2. Quantity(asks, 1..(i - 1)) = q /\ Quantity(offers, 1..(j - 1)) = q
      BY <1>1, <2>1 DEF Even
    <3>3. offers[j - 1].price <= P /\ P <= asks[i - 1].price
          /\ (i <= La => asks[i].price <= P) /\ (j <= Lo => P <= offers[j].price)
      BY <2>1 DEF Even, Fits
    <3>4. \A n \in 1..(i - 1) : asks[n].price >= P
      <4> TAKE n \in 1..(i - 1)
      <4>1. n \in 1..La /\ n <= i - 1
        BY <1>1, <3>1
      <4>2. asks[n].price >= asks[i - 1].price /\ asks[n].price \in Int /\ asks[i - 1].price \in Int
        BY <1>2, <1>3, <3>1, <4>1
      <4> QED  BY <3>3, <4>2
    <3>5. \A n \in ((i - 1) + 1)..La : asks[n].price <= P
      <4> TAKE n \in ((i - 1) + 1)..La
      <4>1. n \in 1..La /\ i <= n /\ i \in 1..La /\ i <= La
        BY <1>1
      <4>2. asks[i].price >= asks[n].price /\ asks[n].price \in Int /\ asks[i].price \in Int
        BY <1>2, <1>3, <4>1
      <4> QED  BY <3>3, <4>1, <4>2
    <3>6. \A n \in 1..(j - 1) : offers[n].price <= P
      <4> TAKE n \in 1..(j - 1)
      <4>1. n \in 1..Lo /\ n <= j - 1
        BY <1>1, <3>1
      <4>2. offers[n].price <= offers[j - 1].price /\ offers[n].price \in Int /\ offers[j - 1].price \in Int
        BY <1>2, <1>4, <3>1, <4>1
      <4> QED  BY <3>3, <4>2
    <3>7. \A n \in ((j - 1) + 1)..Lo : offers[n].price >= P
      <4> TAKE n \in ((j - 1) + 1)..Lo
      <4>1. n \in 1..Lo /\ j <= n /\ j \in 1..Lo /\ j <= Lo
        BY <1>1
      <4>2. offers[j].price <= offers[n].price /\ offers[n].price \in Int /\ offers[j].price \in Int
        BY <1>2, <1>4, <4>1
      <4> QED  BY <3>3, <4>1, <4>2
    <3>8. q <= q
      BY <1>1
    <3> HIDE DEF i, j, q, La, Lo
    <3> QED  BY <3>1, <3>2, <3>4, <3>5, <3>6, <3>7, <3>8
  <2>2. CASE BuyerLeft(asks, offers, m)
    <3>0. i <= La /\ j > 1 /\ i \in 1..(La + 1) /\ j \in 1..(Lo + 1) /\ La \in Nat /\ Lo \in Nat
      BY <1>1, <2>2 DEF BuyerLeft
    <3>1. i \in 1..La /\ i - 1 \in 0..La /\ i \in 0..La /\ j - 1 \in 1..Lo /\ j - 1 \in 0..Lo
      <4> HIDE DEF i, j, La, Lo
      <4> QED  BY <3>0
    <3>2. Quantity(asks, 1..i) = m.demand + asks[i].quantity /\ asks[i].quantity \in Nat
      BY <1>1, <3>1, FirstQuantities DEF Bids
    <3>3. Quantity(asks, 1..(i - 1)) <= q /\ q <= Quantity(asks, 1..i) /\ Quantity(offers, 1..(j - 1)) = q
      <4> DEFINE x == asks[i].quantity
                 d == m.demand
      <4>1. d < q /\ q < d + x /\ Quantity(offers, 1..(j - 1)) = q
        BY <1>1, <2>2 DEF BuyerLeft
      <4>2. d \in Nat /\ x \in Nat /\ q \in Nat
        BY <1>1, <3>2
      <4> HIDE DEF d, x, q
      <4>3. d <= q /\ q <= d + x
        BY <4>1, <4>2
      <4> QED  BY <1>1, <3>2, <4>1, <4>3 DEF d, x
    <3>4. P = asks[i].price /\ offers[j - 1].price <= P
      BY <2>2 DEF BuyerLeft, Fits
    <3>5. \A n \in 1..i : asks[n].price >= P
      <4> TAKE n \in 1..i
      <4>1. n \in 1..La /\ n <= i
        BY <1>1, <3>1
      <4> QED  BY <1>3, <3>1, <3>4, <4>1
    <3>6. \A n \in ((i - 1) + 1)..La : asks[n].price <= P
      <4> TAKE n \in ((i - 1) + 1)..La
      <4>1. n \in 1..La /\ i <= n
        BY <1>1
      <4>2. P >= asks[n].price /\ asks[n].price \in Int
        BY <1>2, <1>3, <3>1, <3>4, <4>1
      <4> QED  BY <4>2
    <3>7. \A n \in 1..(j - 1) : offers[n].price <= P
      <4> TAKE n \in 1..(j - 1)
      <4>1. n \in 1..Lo /\ n <= j - 1
        BY <1>1, <3>1
      <4>2. offers[n].price <= offers[j - 1].price /\ offers[n].price \in Int /\ offers[j - 1].price \in Int
        BY <1>2, <1>4, <3>1, <4>1
      <4> QED  BY <3>4, <4>2
    <3>8. \A n \in ((j - 1) + 1)..Lo : offers[n].price >= P
      <4> TAKE n \in ((j - 1) + 1)..Lo
      <4>1. n \in 1..Lo /\ j <= n /\ j \in 1..Lo /\ j <= Lo
        BY <1>1
      <4>2. offers[j].price <= offers[n].price /\ offers[n].price \in Int /\ offers[j].price \in Int
        BY <1>2, <1>4, <4>1
      <4>3. ~(P >= offers[j].price)
        BY <1>5, <3>1, <3>4, <4>1
      <4> QED  BY <4>2, <4>3
    <3>9. q <= q
      BY <1>1
    <3> HIDE DEF i, j, q, La, Lo
    <3> QED  BY <3>1, <3>3, <3>5, <3>6, <3>7, <3>8, <3>9
  <2>3. CASE SellerLeft(asks, offers, m)
    <3>0. j <= Lo /\ i > 1 /\ i \in 1..(La + 1) /\ j \in 1..(Lo + 1) /\ La \in Nat /\ Lo \in Nat
      BY <1>1, <2>3 DEF SellerLeft
    <3>1. j \in 1..Lo /\ j - 1 \in 0..Lo /\ j \in 0..Lo /\ i - 1 \in 1..La /\ i - 1 \in 0..La
      <4> HIDE DEF i, j, La, Lo
      <4> QED  BY <3>0
    <3>2. Quantity(offers, 1..j) = m.supply + offers[j].quantity /\ offers[j].quantity \in Nat
      BY <1>1, <3>1, FirstQuantities DEF Bids
    <3>3. Quantity(offers, 1..(j - 1)) <= q /\ q <= Quantity(offers, 1..j) /\ Quantity(asks, 1..(i - 1)) = q
      <4> DEFINE x == offers[j].quantity
                 d == m.supply
      <4>1. d < q /\ q < d + x /\ Quantity(asks, 1..(i - 1)) = q
        BY <1>1, <2>3 DEF SellerLeft
      <4>2. d \in Nat /\ x \in Nat /\ q \in Nat
        BY <1>1, <3>2
      <4> HIDE DEF d, x, q
      <4>3. d <= q /\ q <= d + x
        BY <4>1, <4>2
      <4> QED  BY <1>1, <3>2, <4>1, <4>3 DEF d, x
    <3>4. P = offers[j].price /\ P <= asks[i - 1].price
      BY <2>3 DEF SellerLeft, Fits
    <3>5. \A n \in 1..j : offers[n].price <= P
      <4> TAKE n \in 1..j
      <4>1. n \in 1..Lo /\ n <= j
        BY <1>1, <3>1
      <4> QED  BY <1>4, <3>1, <3>4, <4>1
    <3>6. \A n \in ((j - 1) + 1)..Lo : offers[n].price >= P
      <4> TAKE n \in ((j - 1) + 1)..Lo
      <4>1. n \in 1..Lo /\ j <= n
        BY <1>1
      <4>2. P <= offers[n].price /\ offers[n].price \in Int
        BY <1>2, <1>4, <3>1, <3>4, <4>1
      <4> QED  BY <4>2
    <3>7. \A n \in 1..(i - 1) : asks[n].price >= P
      <4> TAKE n \in 1..(i - 1)
      <4>1. n \in 1..La /\ n <= i - 1
        BY <1>1, <3>1
      <4>2. asks[n].price >= asks[i - 1].price /\ asks[n].price \in Int /\ asks[i - 1].price \in Int
        BY <1>2, <1>3, <3>1, <4>1
      <4> QED  BY <3>4, <4>2
    <3>8. \A n \in ((i - 1) + 1)..La : asks[n].price <= P
      <4> TAKE n \in ((i - 1) + 1)..La
      <4>1. n \in 1..La /\ i <= n /\ i \in 1..La /\ i <= La
        BY <1>1
      <4>2. asks[i].price >= asks[n].price /\ asks[n].price \in Int /\ asks[i].price \in Int
        BY <1>2, <1>3, <4>1
      <4>3. ~(asks[i].price >= P)
        BY <1>5, <3>1, <3>4, <4>1
      <4> QED  BY <4>2, <4>3
    <3>9. q <= q
      BY <1>1
    <3> HIDE DEF i, j, q, La, Lo
    <3> QED  BY <3>1, <3>3, <3>5, <3>6, <3>7, <3>8, <3>9
  <2>4. ~Start(m)
    BY <1>1 DEF Start
  <2> QED  BY <2>1, <2>2, <2>3, <2>4 DEF WalkInv
<1>7. PICK k \in 0..La, l \in 0..La, g \in 0..Lo, h \in 0..Lo :
        /\ Quantity(asks, 1..k) <= q /\ q <= Quantity(asks, 1..l)
        /\ Quantity(offers, 1..g) <= q /\ q <= Quantity(offers, 1..h)
        /\ \A n \in 1..l : asks[n].price >= P
        /\ \A n \in (k + 1)..La : asks[n].price <= P
        /\ \A n \in 1..h : offers[n].price <= P
        /\ \A n \in (g + 1)..Lo : offers[n].price >= P
  BY <1>6
<1>8. Preferred(asks, -1, P) <= q /\ q <= Willing(asks, -1, P)
  <2>1. \A x \in Int : (x >= P => (-1) * x <= (-1) * P) /\ (x <= P => (-1) * x >= (-1) * P)
    OBVIOUS
  <2>2. \A n \in 1..l : n \in 1..La
    BY <1>1
  <2>3. \A n \in (k + 1)..La : n \in 1..La
    BY <1>1
  <2>4. \A n \in 1..l : (-1) * asks[n].price <= (-1) * P
    BY <1>2, <1>7, <2>1, <2>2
  <2>5. \A n \in (k + 1)..La : (-1) * asks[n].price >= (-1) * P
    BY <1>2, <1>7, <2>1, <2>3
  <2>6. q \in Int /\ -1 \in {1, -1}
    BY <1>1
  <2> HIDE DEF q
  <2> QED  BY <1>7, <2>4, <2>5, <2>6, CalledBetween
<1>9. Preferred(offers, 1, P) <= q /\ q <= Willing(offers, 1, P)
  <2>1. \A x \in Int : (x <= P => 1 * x <= 1 * P) /\ (x >= P => 1 * x >= 1 * P)
    OBVIOUS
  <2>2. \A n \in 1..h : n \in 1..Lo
    BY <1>1
  <2>3. \A n \in (g + 1)..Lo : n \in 1..Lo
    BY <1>1
  <2>4. \A n \in 1..h : 1 * offers[n].price <= 1 * P
    BY <1>2, <1>7, <2>1, <2>2
  <2>5. \A n \in (g + 1)..Lo : 1 * offers[n].price >= 1 * P
    BY <1>2, <1>7, <2>1, <2>3
  <2>6. q \in Int /\ 1 \in {1, -1}
    BY <1>1
  <2> HIDE DEF q
  <2> QED  BY <1>7, <2>4, <2>5, <2>6, CalledBetween
<1> QED  BY <1>8, <1>9

-----------------------------------------------------------------------------
(* The price *)

\* The smaller and the larger of two.
LEMMA OfTwo ==
    ASSUME NEW x \in Int, NEW y \in Int
    PROVE  /\ Min({x, y}) = IF x <= y THEN x ELSE y
           /\ Max({x, y}) = IF x >= y THEN x ELSE y
<1>1. ASSUME NEW u \in Int, NEW v \in Int, u <= v PROVE Min({u, v}) = u /\ Max({u, v}) = v
  <2>1. \A w \in {u, v} : u <= w /\ v >= w
    BY <1>1
  <2>2. \A z \in {u, v} : (\A w \in {u, v} : z <= w) => z = u
    BY <1>1
  <2>3. \A z \in {u, v} : (\A w \in {u, v} : z >= w) => z = v
    BY <1>1
  <2> QED  BY <2>1, <2>2, <2>3 DEF Min, Max
<1>2. CASE x <= y
  <2>1. Min({x, y}) = x /\ Max({x, y}) = y
    BY <1>1, <1>2
  <2> QED  BY <1>2, <2>1
<1>3. CASE ~(x <= y)
  <2>1. y <= x /\ {x, y} = {y, x}
    BY <1>3
  <2>2. Min({y, x}) = y /\ Max({y, x}) = x
    BY <1>1, <2>1
  <2> QED  BY <1>3, <2>1, <2>2
<1> QED  BY <1>2, <1>3

\* A price is kept within the cap and its negative, and one that is there already is kept.
LEMMA CappedPrice ==
    ASSUME NEW p \in Int
    PROVE  /\ Capped(p) \in (-pricecap)..pricecap
           /\ Capped(p) = IF p > pricecap THEN pricecap ELSE IF p < -pricecap THEN -pricecap ELSE p
<1>1. pricecap \in Nat /\ -pricecap \in Int
  BY AuctionAssumption DEF ClearingAssumption
<1>2. Min({p, pricecap}) = IF p <= pricecap THEN p ELSE pricecap
  BY <1>1, OfTwo
<1> DEFINE least == Min({p, pricecap})
<1>3. least \in Int /\ least = IF p <= pricecap THEN p ELSE pricecap
  BY <1>1, <1>2
<1>4. Capped(p) = Max({-pricecap, least})
  BY DEF Capped
<1> HIDE DEF least
<1>5. Max({-pricecap, least}) = IF -pricecap >= least THEN -pricecap ELSE least
  BY <1>1, <1>3, OfTwo
<1> QED  BY <1>1, <1>3, <1>4, <1>5

\* The next bid, or the last one.
LEMMA NextBid ==
    ASSUME NEW list, Len(list) \in Nat, NEW n \in Nat
    PROVE  NextIn(list, n) = IF n <= Len(list) THEN list[n] ELSE list[Len(list)]
<1>1. Min({n, Len(list)}) = IF n <= Len(list) THEN n ELSE Len(list)
  BY OfTwo
<1> QED  BY <1>1 DEF NextIn

\* The price after a walk that ended even, between bids that both go on: it calls on
\* nobody else.
LEMMA SplitBetween ==
    ASSUME NEW asks, NEW offers, NEW m, Len(asks) \in Nat, Len(offers) \in Nat,
           m.i \in Nat, m.j \in Nat, m.i <= Len(asks), m.j <= Len(offers),
           NEW Pr, Grid(Pr), m.a \in Pr, m.b \in Pr, asks[m.i].price \in Pr, offers[m.j].price \in Pr,
           m.b < m.a, asks[m.i].price < m.a, m.b < offers[m.j].price, asks[m.i].price < offers[m.j].price
    PROVE  LET p == SplitPrice(asks, offers, m)
           IN  /\ p \in Int /\ m.b <= p /\ p <= m.a
               /\ asks[m.i].price <= p /\ p <= offers[m.j].price
<1> DEFINE a == m.a
           b == m.b
           buy == asks[m.i].price
           sell == offers[m.j].price
           avg == (a + b) \div 2
           mid == (buy + sell) \div 2
           p == SplitPrice(asks, offers, m)
<1>1. /\ pricecap \in Nat /\ bid_offset \in Nat
      /\ \A x \in Pr : x \in Int /\ -pricecap <= x /\ x <= pricecap
      /\ \A x, y \in Pr : x < y => x + bid_offset <= y
  <2>1. pricecap \in Nat /\ bid_offset \in Nat
    BY AuctionAssumption DEF ClearingAssumption
  <2>2. \A x \in Pr : x \in (-pricecap)..pricecap
    BY DEF Grid
  <2>3. \A x \in Pr : x \in Int /\ -pricecap <= x /\ x <= pricecap
    BY <2>1, <2>2
  <2>4. \A x, y \in Pr : x < y => x + bid_offset <= y
    BY DEF Grid
  <2> QED  BY <2>1, <2>3, <2>4
<1>2. NextIn(asks, m.i).price = buy /\ NextIn(offers, m.j).price = sell /\ ~(m.i > Len(asks)) /\ ~(m.j > Len(offers))
  BY NextBid
<1>3. p = CASE a = pricecap /\ b # -pricecap -> IF buy > b THEN buy + bid_offset ELSE b
            [] a # pricecap /\ b = -pricecap -> IF sell < a THEN sell - bid_offset ELSE a
            [] a = pricecap /\ b = -pricecap -> IF m.j = Len(asks) + 1 THEN sell - bid_offset ELSE mid
            [] OTHER -> IF buy = a THEN a
                        ELSE IF sell = b THEN b
                        ELSE IF avg < buy THEN buy + bid_offset
                        ELSE IF avg > sell THEN sell - bid_offset
                        ELSE avg
  BY <1>2 DEF SplitPrice
<1>4. a \in Pr /\ b \in Pr /\ buy \in Pr /\ sell \in Pr
  OBVIOUS
<1>5. b < a /\ buy < a /\ b < sell /\ buy < sell
  OBVIOUS
<1> HIDE DEF a, b, buy, sell, p
<1>6. a \in Int /\ b \in Int /\ buy \in Int /\ sell \in Int
      /\ -pricecap <= buy /\ -pricecap <= b /\ sell <= pricecap /\ a <= pricecap
  BY <1>1, <1>4
<1>7. buy + bid_offset <= a /\ buy + bid_offset <= sell /\ b + bid_offset <= sell
  BY <1>1, <1>4, <1>5
<1>8. avg \in Int /\ b <= avg /\ avg <= a /\ mid \in Int /\ buy <= mid /\ mid <= sell
  BY <1>5, <1>6, Z3
<1> HIDE DEF avg, mid
<1>9. \/ p = buy + bid_offset /\ (buy > b \/ avg < buy)
      \/ p = sell - bid_offset /\ (sell < a \/ avg > sell \/ a = pricecap)
      \/ p = b /\ buy <= b
      \/ p = a /\ a <= sell
      \/ p = mid /\ a = pricecap /\ b = -pricecap
      \/ p = avg /\ buy <= avg /\ avg <= sell
  <2>1. CASE a = pricecap /\ b # -pricecap
    <3>1. p = IF buy > b THEN buy + bid_offset ELSE b
      BY <1>3, <2>1
    <3> QED  BY <1>6, <3>1
  <2>2. CASE a # pricecap /\ b = -pricecap
    <3>1. p = IF sell < a THEN sell - bid_offset ELSE a
      BY <1>3, <2>2
    <3> QED  BY <1>6, <3>1
  <2>3. CASE a = pricecap /\ b = -pricecap
    <3>1. p = IF m.j = Len(asks) + 1 THEN sell - bid_offset ELSE mid
      BY <1>3, <2>3
    <3> QED  BY <2>3, <3>1
  <2>4. CASE a # pricecap /\ b # -pricecap
    <3>1. p = IF buy = a THEN a
              ELSE IF sell = b THEN b
              ELSE IF avg < buy THEN buy + bid_offset
              ELSE IF avg > sell THEN sell - bid_offset
              ELSE avg
      BY <1>3, <2>4
    <3>2. buy # a /\ sell # b
      BY <1>5, <1>6
    <3> QED  BY <1>6, <1>8, <3>1, <3>2
  <2> QED  BY <2>1, <2>2, <2>3, <2>4
<1>10. p \in Int /\ b <= p /\ p <= a /\ buy <= p /\ p <= sell
  <2>0. bid_offset \in Nat /\ pricecap \in Nat
    BY <1>1
  <2>1. CASE p = buy + bid_offset /\ (buy > b \/ avg < buy)
    BY <1>5, <1>6, <1>7, <1>8, <2>0, <2>1
  <2>2. CASE p = sell - bid_offset /\ (sell < a \/ avg > sell \/ a = pricecap)
    BY <1>5, <1>6, <1>7, <1>8, <2>0, <2>2
  <2>3. CASE p = b /\ buy <= b
    BY <1>5, <1>6, <2>3
  <2>4. CASE p = a /\ a <= sell
    BY <1>5, <1>6, <2>4
  <2>5. CASE p = mid /\ a = pricecap /\ b = -pricecap
    BY <1>5, <1>6, <1>8, <2>0, <2>5
  <2>6. CASE p = avg /\ buy <= avg /\ avg <= sell
    BY <1>5, <1>6, <1>8, <2>6
  <2> QED  BY <1>9, <2>1, <2>2, <2>3, <2>4, <2>5, <2>6
<1> QED  BY <1>10 DEF a, b, buy, sell, p

\* The price when both sides have run out at the same quantity lies between the last bids
\* once it has been cut to the cap.
LEMMA SplitAtTheEnd ==
    ASSUME NEW asks, NEW offers, NEW m, Len(asks) \in Nat, Len(offers) \in Nat,
           m.i \in Nat, m.j \in Nat, m.i > Len(asks), m.j > Len(offers),
           m.a \in (-pricecap)..pricecap, m.b \in (-pricecap)..pricecap,
           asks[Len(asks)].price = m.a, offers[Len(offers)].price = m.b, m.b < m.a
    PROVE  LET p == SplitPrice(asks, offers, m)
           IN  p \in Int /\ m.b <= Capped(p) /\ Capped(p) <= m.a
<1> DEFINE a == m.a
           b == m.b
           avg == (a + b) \div 2
           p == SplitPrice(asks, offers, m)
<1>1. /\ pricecap \in Nat /\ bid_offset \in Nat /\ a \in Int /\ b \in Int /\ b < a
      /\ -pricecap <= b /\ a <= pricecap
  BY AuctionAssumption DEF ClearingAssumption
<1>2. ~(m.i <= Len(asks)) /\ ~(m.j <= Len(offers))
  OBVIOUS
<1>3. NextIn(asks, m.i).price = a /\ NextIn(offers, m.j).price = b
  BY <1>2, NextBid
<1>4. p = CASE a = pricecap /\ b # -pricecap -> IF a > b THEN a + bid_offset ELSE b
            [] a # pricecap /\ b = -pricecap -> IF b < a THEN b - bid_offset ELSE a
            [] a = pricecap /\ b = -pricecap -> 0
            [] OTHER -> avg
  BY <1>2, <1>3 DEF SplitPrice
<1> HIDE DEF a, b, p
<1>5. avg \in Int /\ b <= avg /\ avg <= a
  BY <1>1, Z3
<1> HIDE DEF avg
<1>6. p \in Int
  BY <1>1, <1>4, <1>5
<1>7. Capped(p) = IF p > pricecap THEN pricecap ELSE IF p < -pricecap THEN -pricecap ELSE p
  BY <1>6, CappedPrice
<1>8. b <= Capped(p) /\ Capped(p) <= a
  <2>1. CASE a = pricecap /\ b # -pricecap
    BY <1>1, <1>4, <1>7, <2>1
  <2>2. CASE a # pricecap /\ b = -pricecap
    BY <1>1, <1>4, <1>7, <2>2
  <2>3. CASE a = pricecap /\ b = -pricecap
    BY <1>1, <1>4, <1>7, <2>3
  <2>4. CASE a # pricecap /\ b # -pricecap
    BY <1>1, <1>4, <1>5, <1>7, <2>4
  <2> QED  BY <2>1, <2>2, <2>3, <2>4
<1> QED  BY <1>6, <1>8 DEF a, b, p

TradedTypes == {"CT_BUYER", "CT_SELLER", "CT_PRICE", "CT_EXACT"}

\* A clearing of two lists that trades has the quantity of the walk, and the price of the
\* type that the walk has found.
LEMMA DoubleMakes ==
    ASSUME NEW asks, NEW offers, Bids(asks), Bids(offers),
           DoubleAuction(asks, offers).type \in TradedTypes,
           {DoubleAuction(asks, offers).quantity} # {UnresponsiveBuy(asks), UnresponsiveSell(offers)}
    PROVE  LET m == Walk(asks, offers)
               type == IF m.check THEN MarginalType(asks, offers, m) ELSE m.type
           IN  /\ m.quantity # 0
               /\ DoubleAuction(asks, offers) =
                     [type |-> type, quantity |-> m.quantity,
                      price |-> IF m.check /\ type = "CT_PRICE" THEN SplitPrice(asks, offers, m)
                                ELSE IF m.check /\ type = "CT_SELLER" /\ m.i <= Len(asks) /\ m.j <= Len(offers)
                                     THEN m.b ELSE m.a]
<1> DEFINE m == Walk(asks, offers)
           q == m.quantity
           type == IF m.check THEN MarginalType(asks, offers, m) ELSE m.type
           price == CASE m.check /\ type = "CT_PRICE" -> SplitPrice(asks, offers, m)
                      [] m.check /\ type = "CT_SELLER" /\ m.i <= Len(asks) /\ m.j <= Len(offers) -> m.b
                      [] OTHER -> m.a
           ub == UnresponsiveBuy(asks)
           us == UnresponsiveSell(offers)
           d == DoubleAuction(asks, offers)
<1>1. price = IF m.check /\ type = "CT_PRICE" THEN SplitPrice(asks, offers, m)
              ELSE IF m.check /\ type = "CT_SELLER" /\ m.i <= Len(asks) /\ m.j <= Len(offers)
                   THEN m.b ELSE m.a
  <2> HIDE DEF type, m
  <2>1. CASE m.check /\ type = "CT_PRICE"
    BY <2>1
  <2>2. CASE ~(m.check /\ type = "CT_PRICE")
    BY <2>2
  <2> QED  BY <2>1, <2>2
<1>2. d = CASE q = 0 -> [type |-> "CT_NULL", price |-> NoTradePrice(asks, offers), quantity |-> q]
            [] q > 0 /\ q < ub -> [type |-> "CT_FAILURE", price |-> pricecap, quantity |-> q]
            [] q >= ub /\ q > 0 /\ q < us -> [type |-> "CT_FAILURE", price |-> -pricecap, quantity |-> q]
            [] q > 0 /\ q = ub /\ q = us -> [type |-> "CT_PRICE", price |-> 0, quantity |-> q]
            [] OTHER -> [type |-> type, price |-> price, quantity |-> q]
  BY DEF DoubleAuction
<1> HIDE DEF price, type, d, q, ub, us
<1>3. d.type \in TradedTypes /\ {d.quantity} # {ub, us}
  BY DEF d, ub, us
<1>4. d.quantity = q
  BY <1>2
<1>5. ~(q > 0 /\ q = ub /\ q = us)
  BY <1>3, <1>4
<1>6. \/ q = 0 /\ d.type = "CT_NULL"
      \/ q > 0 /\ q < ub /\ d.type = "CT_FAILURE"
      \/ q >= ub /\ q > 0 /\ q < us /\ d.type = "CT_FAILURE"
      \/ q # 0 /\ d = [type |-> type, price |-> price, quantity |-> q]
  BY <1>2, <1>5
<1>7. q # 0 /\ d = [type |-> type, price |-> price, quantity |-> q]
  BY <1>3, <1>6 DEF TradedTypes
<1> QED  BY <1>1, <1>7 DEF d, q, type

Prices(list, Pr) == \A n \in 1..Len(list) : list[n].price \in Pr

\* Its price fits the walk, and is that of a bid at the margin when there is one.
LEMMA DoubleFits ==
    ASSUME NEW asks, NEW offers, Bids(asks), Bids(offers), Ordered(asks, -1), Ordered(offers, 1),
           NEW Pr, Grid(Pr), Prices(asks, Pr), Prices(offers, Pr),
           NEW m, WalkInv(asks, offers, m), ~Crossing(asks, offers, m), m.quantity # 0,
           ~(m.check /\ ((m.i > Len(asks)) # (m.j > Len(offers)))),
           NEW type, type = IF m.check THEN MarginalType(asks, offers, m) ELSE m.type,
           NEW price, price = IF m.check /\ type = "CT_PRICE" THEN SplitPrice(asks, offers, m)
                              ELSE IF m.check /\ type = "CT_SELLER" /\ m.i <= Len(asks) /\ m.j <= Len(offers)
                                   THEN m.b ELSE m.a
    PROVE  /\ price \in Int /\ Fits(asks, offers, m, Capped(price))
           /\ type = "CT_BUYER" => \E n \in 1..Len(asks) : asks[n].price = price
           /\ type = "CT_SELLER" => \E n \in 1..Len(offers) : offers[n].price = price
<1> DEFINE i == m.i
           j == m.j
           a == m.a
           b == m.b
           La == Len(asks)
           Lo == Len(offers)
<1>1. /\ i \in 1..(La + 1) /\ j \in 1..(Lo + 1) /\ La \in Nat /\ Lo \in Nat /\ a \in Int /\ b \in Int
      /\ m.check \in BOOLEAN
  BY DEF WalkInv, Bids
<1>2. Pr \in SUBSET ((-pricecap)..pricecap) /\ pricecap \in Nat /\ Pr \in SUBSET Int
  BY AuctionAssumption DEF ClearingAssumption, Grid
<1>3. (\A n \in 1..La : asks[n].price \in Pr) /\ (\A n \in 1..Lo : offers[n].price \in Pr)
  BY DEF Prices
<1>4. \A p \in Pr : p \in Int /\ Capped(p) = p
  <2> TAKE p \in Pr
  <2>1. p \in Int /\ ~(p > pricecap) /\ ~(p < -pricecap)
    BY <1>2
  <2> QED  BY <2>1, CappedPrice
<1>5. ~Start(m)
  BY DEF Start
<1>6. ~(i <= La /\ j <= Lo /\ asks[i].price >= offers[j].price)
  BY DEF Crossing
<1>7. CASE ~m.check
  <2>1. price = a /\ type = m.type
    BY <1>7
  <2>2. CASE BuyerLeft(asks, offers, m)
    <3>1. i \in 1..La /\ a = asks[i].price /\ m.type = "CT_BUYER"
      BY <1>1, <2>2 DEF BuyerLeft
    <3>2. Capped(price) = a /\ price \in Int
      BY <1>3, <1>4, <2>1, <3>1
    <3> QED  BY <1>7, <2>1, <3>1, <3>2 DEF Fits
  <2>3. CASE SellerLeft(asks, offers, m)
    <3>1. j \in 1..Lo /\ a = offers[j].price /\ m.type = "CT_SELLER"
      BY <1>1, <2>3 DEF SellerLeft
    <3>2. Capped(price) = a /\ price \in Int
      BY <1>3, <1>4, <2>1, <3>1
    <3> QED  BY <1>7, <2>1, <3>1, <3>2 DEF Fits
  <2>4. ~Even(asks, offers, m)
    BY <1>7 DEF Even
  <2> QED  BY <1>5, <2>2, <2>3, <2>4 DEF WalkInv
<1>8. CASE m.check
  <2>1. i > 1 /\ j > 1 /\ a = asks[i - 1].price /\ b = offers[j - 1].price /\ b <= a
    <3>1. Even(asks, offers, m)
      BY <1>5, <1>8 DEF WalkInv, BuyerLeft, SellerLeft
    <3> QED  BY <3>1 DEF Even
  <2>2. i - 1 \in 1..La /\ j - 1 \in 1..Lo
    <3> HIDE DEF i, j, La, Lo
    <3> QED  BY <1>1, <2>1
  <2>3. a \in Pr /\ b \in Pr /\ a \in (-pricecap)..pricecap /\ b \in (-pricecap)..pricecap
    BY <1>2, <1>3, <2>1, <2>2
  <2>4. type = MarginalType(asks, offers, m)
    BY <1>8
  <2>5. (i > La) = (j > Lo)
    BY <1>8
  <2>6. CASE i <= La /\ j <= Lo
    <3> DEFINE buy == asks[i].price
               sell == offers[j].price
    <3>0. i \in 1..La /\ j \in 1..Lo
      <4> HIDE DEF i, j, La, Lo
      <4> QED  BY <1>1, <2>6
    <3>1. i \in 1..La /\ j \in 1..Lo /\ buy \in Pr /\ sell \in Pr /\ buy \in Int /\ sell \in Int
      BY <1>2, <1>3, <3>0
    <3>2. buy < sell
      BY <1>6, <2>6, <3>1
    <3>3. buy <= a
      <4>1. (-1) * asks[i - 1].price <= (-1) * buy
        <5>1. i - 1 \in 1..La /\ i \in 1..La /\ i - 1 <= i
          BY <1>1, <2>2, <3>1
        <5> QED  BY <5>1 DEF Ordered
      <4>2. (-1) * a <= (-1) * buy
        BY <2>1, <4>1
      <4> HIDE DEF a, buy
      <4> QED  BY <1>1, <3>1, <4>2
    <3>4. b <= sell
      <4>1. 1 * offers[j - 1].price <= 1 * sell
        <5>1. j - 1 \in 1..Lo /\ j \in 1..Lo /\ j - 1 <= j
          BY <1>1, <2>2, <3>1
        <5> QED  BY <5>1 DEF Ordered
      <4>2. 1 * b <= 1 * sell
        BY <2>1, <4>1
      <4> HIDE DEF b, sell
      <4> QED  BY <1>1, <3>1, <4>2
    <3>5. NextIn(asks, i).price = buy /\ NextIn(offers, j).price = sell
      <4>1. i \in Nat /\ j \in Nat
        BY <1>1
      <4> QED  BY <1>1, <2>6, <4>1, NextBid
    <3>6. ~(i > La) /\ ~(j > Lo)
      BY <1>1, <2>6
    <3>7. type = CASE buy = a /\ sell # b -> "CT_BUYER"
                   [] buy # a /\ sell = b -> "CT_SELLER"
                   [] buy # a /\ sell # b -> IF a = b THEN "CT_EXACT" ELSE "CT_PRICE"
                   [] OTHER -> m.type
      <4> HIDE DEF buy, sell
      <4> QED  BY <2>4, <3>5, <3>6 DEF MarginalType
    <3>8. price = IF type = "CT_PRICE" THEN SplitPrice(asks, offers, m)
                  ELSE IF type = "CT_SELLER" THEN b ELSE a
      BY <1>8, <2>6
    <3>9. Fits(asks, offers, m, Capped(price)) <=>
              /\ b <= Capped(price) /\ Capped(price) <= a
              /\ buy <= Capped(price) /\ Capped(price) <= sell
      BY <1>8, <2>6 DEF Fits
    <3>10. ASSUME NEW c \in Pr PROVE Capped(c) = c /\ c \in Int
      BY <1>4
    <3>12. b < a /\ buy < a /\ b < sell =>
             LET p == SplitPrice(asks, offers, m)
             IN  p \in Int /\ b <= p /\ p <= a /\ buy <= p /\ p <= sell
      <4>1. i \in Nat /\ j \in Nat
        BY <1>1
      <4> QED  BY <1>1, <2>3, <2>6, <3>1, <3>2, <4>1, SplitBetween
    <3>13. a \in Pr /\ b \in Pr /\ b <= a
      BY <2>1, <2>3
    <3>14. i \in 1..La /\ asks[i].price = buy /\ j \in 1..Lo /\ offers[j].price = sell
      BY <3>1
    <3> DEFINE split == SplitPrice(asks, offers, m)
               c == Capped(price)
    <3> HIDE DEF a, b, buy, sell, split, c
    <3>15. CASE buy = a /\ sell # b
      <4>1. type = "CT_BUYER" /\ price = a /\ c = a
        BY <3>7, <3>8, <3>10, <3>13, <3>15 DEF c
      <4>2. b <= c /\ c <= a /\ buy <= c /\ c <= sell
        BY <1>1, <3>1, <3>2, <3>13, <3>15, <4>1
      <4> QED  BY <1>1, <3>9, <3>14, <3>15, <4>1, <4>2 DEF c
    <3>16. CASE buy # a /\ sell = b
      <4>1. type = "CT_SELLER" /\ price = b /\ c = b
        BY <3>7, <3>8, <3>10, <3>13, <3>16 DEF c
      <4>2. b <= c /\ c <= a /\ buy <= c /\ c <= sell
        BY <1>1, <3>1, <3>2, <3>13, <3>16, <4>1
      <4> QED  BY <1>1, <3>9, <3>14, <3>16, <4>1, <4>2 DEF c
    <3>17. CASE buy # a /\ sell # b /\ a = b
      <4>1. type = "CT_EXACT" /\ price = a /\ c = a
        BY <3>7, <3>8, <3>10, <3>13, <3>17 DEF c
      <4>2. b <= c /\ c <= a /\ buy <= c /\ c <= sell
        BY <1>1, <3>1, <3>3, <3>4, <3>13, <3>17, <4>1
      <4> QED  BY <1>1, <3>9, <4>1, <4>2 DEF c
    <3>18. CASE buy # a /\ sell # b /\ a # b
      <4>1. type = "CT_PRICE" /\ price = split
        BY <3>7, <3>8, <3>18 DEF split
      <4>2. b < a /\ buy < a /\ b < sell
        BY <1>1, <3>1, <3>3, <3>4, <3>13, <3>18
      <4>3. split \in Int /\ b <= split /\ split <= a /\ buy <= split /\ split <= sell
        BY <3>12, <4>2 DEF split
      <4>4. -pricecap <= b /\ a <= pricecap /\ -pricecap \in Int
        BY <1>2, <2>3
      <4>5. c = split
        <5>1. ~(split > pricecap) /\ ~(split < -pricecap)
          BY <1>1, <1>2, <4>3, <4>4
        <5>2. Capped(split) = split
          BY <4>3, <5>1, CappedPrice
        <5> QED  BY <4>1, <5>2 DEF c
      <4> QED  BY <3>9, <4>1, <4>3, <4>5 DEF c
    <3>19. ~(buy = a /\ sell = b)
      BY <1>1, <3>1, <3>2, <3>13
    <3> QED  BY <3>15, <3>16, <3>17, <3>18, <3>19
  <2>7. CASE i > La /\ j > Lo
    <3>1. i = La + 1 /\ j = Lo + 1
      <4> HIDE DEF i, j, La, Lo
      <4> QED  BY <1>1, <2>7
    <3>2. asks[La].price = a /\ offers[Lo].price = b
      <4>1. i - 1 = La /\ j - 1 = Lo
        BY <1>1, <3>1
      <4> QED  BY <2>1, <4>1
    <3>3. type = IF a = b THEN "CT_EXACT" ELSE "CT_PRICE"
      <4>1. i > Len(asks) /\ j > Len(offers)
        BY <2>7
      <4> QED  BY <2>4, <4>1 DEF MarginalType
    <3>4. ~(i <= La) /\ ~(j <= Lo)
      BY <1>1, <2>7
    <3>5. Fits(asks, offers, m, Capped(price)) <=> b <= Capped(price) /\ Capped(price) <= a
      BY <1>8, <3>4 DEF Fits
    <3>6. CASE a = b
      <4>1. price = a /\ Capped(price) = a /\ price \in Int
        BY <1>4, <1>8, <2>3, <3>3, <3>6
      <4> QED  BY <1>1, <2>1, <3>3, <3>5, <3>6, <4>1
    <3>7. CASE a # b
      <4>1. price = SplitPrice(asks, offers, m) /\ type = "CT_PRICE"
        BY <1>8, <3>3, <3>7
      <4>2. b < a
        <5>1. b <= a /\ a # b /\ a \in Int /\ b \in Int
          BY <1>1, <2>1, <3>7
        <5> HIDE DEF a, b
        <5> QED  BY <5>1
      <4>3. i \in Nat /\ j \in Nat
        BY <1>1
      <4>4. price \in Int /\ b <= Capped(price) /\ Capped(price) <= a
        BY <1>1, <2>3, <2>7, <3>2, <4>1, <4>2, <4>3, SplitAtTheEnd
      <4> QED  BY <3>5, <4>1, <4>4
    <3> QED  BY <3>6, <3>7
  <2> QED  BY <1>1, <2>5, <2>6, <2>7
<1> QED  BY <1>1, <1>7, <1>8

-----------------------------------------------------------------------------
(* What a clearing promises *)

\* The bids called on at a price and a quantity, and the marginal ones.
CalledAt(list, side, clear) ==
    /\ Preferred(list, side, Capped(clear.price)) <= clear.quantity
    /\ clear.quantity <= Willing(list, side, Capped(clear.price))
Shared(list, side, clear) ==
    LET margin == Margin(list, side, clear)
    IN  margin.quantity \in 0..margin.total /\ margin.total > 0

\* When the price is that of a bid, those at the price share what is left.
LEMMA SharedMargin ==
    ASSUME NEW list, Bids(list), NEW side \in {1, -1}, NEW clear, clear.price \in Int, clear.quantity \in Int,
           CalledAt(list, side, clear), Capped(clear.price) = clear.price,
           \E n \in 1..Len(list) : list[n].price = clear.price
    PROVE  Shared(list, side, clear)
<1>1. PICK k \in 1..Len(list) : list[k].price = clear.price
  OBVIOUS
<1>2. Preferred(list, side, clear.price) <= clear.quantity /\ clear.quantity <= Willing(list, side, clear.price)
  BY DEF CalledAt
<1>3. LET margin == Margin(list, side, clear)
      IN  margin.quantity \in 0..margin.total /\ margin.total > 0
  BY <1>1, <1>2, MarginShared
<1> QED  BY <1>3 DEF Shared

\* Prices of a grid are within the cap.
LEMMA GridCapped ==
    ASSUME NEW Pr, Grid(Pr)
    PROVE  \A p \in Pr : p \in Int /\ Capped(p) = p
<1>1. Pr \in SUBSET ((-pricecap)..pricecap) /\ pricecap \in Nat
  BY AuctionAssumption DEF ClearingAssumption, Grid
<1> TAKE p \in Pr
<1>2. p \in Int /\ ~(p > pricecap) /\ ~(p < -pricecap)
  BY <1>1
<1> QED  BY <1>2, CappedPrice

\* A clearing of two sides is fair.
LEMMA DoubleFair ==
    ASSUME NEW asks, NEW offers, Bids(asks), Bids(offers), Ordered(asks, -1), Ordered(offers, 1),
           NEW Pr, Grid(Pr), Prices(asks, Pr), Prices(offers, Pr),
           NEW d, d = DoubleAuction(asks, offers), d.type \in TradedTypes,
           {d.quantity} # {UnresponsiveBuy(asks), UnresponsiveSell(offers)},
           LET m == Walk(asks, offers) IN ~(m.check /\ ((m.i > Len(asks)) # (m.j > Len(offers))))
    PROVE  /\ CalledAt(asks, -1, d) /\ CalledAt(offers, 1, d)
           /\ d.type = "CT_BUYER" => Shared(asks, -1, d)
           /\ d.type = "CT_SELLER" => Shared(offers, 1, d)
<1> DEFINE m == Walk(asks, offers)
           type == IF m.check THEN MarginalType(asks, offers, m) ELSE m.type
           price == IF m.check /\ type = "CT_PRICE" THEN SplitPrice(asks, offers, m)
                    ELSE IF m.check /\ type = "CT_SELLER" /\ m.i <= Len(asks) /\ m.j <= Len(offers)
                         THEN m.b ELSE m.a
<1>1. m.quantity # 0 /\ d = [type |-> type, quantity |-> m.quantity, price |-> price]
  BY DoubleMakes
<1>2. WalkInv(asks, offers, m) /\ ~Crossing(asks, offers, m)
  BY WalkEnds
<1>3. ~(m.check /\ ((m.i > Len(asks)) # (m.j > Len(offers))))
  OBVIOUS
<1>4. d.type = type /\ d.price = price /\ d.quantity = m.quantity
  BY <1>1
<1> HIDE DEF m
<1>5. \E t, p : t = type /\ p = price
  OBVIOUS
<1>6. PICK t, p : t = type /\ p = price
  BY <1>5
<1>7. /\ t = IF m.check THEN MarginalType(asks, offers, m) ELSE m.type
      /\ p = IF m.check /\ t = "CT_PRICE" THEN SplitPrice(asks, offers, m)
             ELSE IF m.check /\ t = "CT_SELLER" /\ m.i <= Len(asks) /\ m.j <= Len(offers)
                  THEN m.b ELSE m.a
  BY <1>6
<1>8. d.type = t /\ d.price = p
  BY <1>4, <1>6
<1> HIDE DEF type, price
<1>9. /\ p \in Int /\ Fits(asks, offers, m, Capped(p))
      /\ t = "CT_BUYER" => \E n \in 1..Len(asks) : asks[n].price = p
      /\ t = "CT_SELLER" => \E n \in 1..Len(offers) : offers[n].price = p
  BY <1>1, <1>2, <1>3, <1>7, DoubleFits
<1>10. m.quantity \in Nat /\ m.quantity > 0
  <2>1. m.quantity \in Nat
    BY <1>2 DEF WalkInv
  <2> QED  BY <1>1, <2>1
<1>11. Capped(p) \in Int
  <2>1. pricecap \in Nat /\ Capped(p) \in (-pricecap)..pricecap
    BY <1>9, CappedPrice, AuctionAssumption DEF ClearingAssumption
  <2> QED  BY <2>1
<1>12. /\ Preferred(asks, -1, Capped(p)) <= m.quantity /\ m.quantity <= Willing(asks, -1, Capped(p))
       /\ Preferred(offers, 1, Capped(p)) <= m.quantity /\ m.quantity <= Willing(offers, 1, Capped(p))
  BY <1>2, <1>9, <1>10, <1>11, WalkFair
<1>13. CalledAt(asks, -1, d) /\ CalledAt(offers, 1, d)
  BY <1>4, <1>8, <1>12 DEF CalledAt
<1>14. d.price \in Int /\ d.quantity \in Int
  BY <1>4, <1>8, <1>9, <1>10
<1>15. ASSUME d.type = "CT_BUYER" PROVE Shared(asks, -1, d)
  <2>1. \E n \in 1..Len(asks) : asks[n].price = d.price
    BY <1>8, <1>9, <1>15
  <2>2. Capped(d.price) = d.price
    BY <2>1, GridCapped DEF Prices
  <2>3. -1 \in {1, -1}
    OBVIOUS
  <2> QED  BY <1>13, <1>14, <2>1, <2>2, <2>3, SharedMargin
<1>16. ASSUME d.type = "CT_SELLER" PROVE Shared(offers, 1, d)
  <2>1. \E n \in 1..Len(offers) : offers[n].price = d.price
    BY <1>8, <1>9, <1>16
  <2>2. Capped(d.price) = d.price
    BY <2>1, GridCapped DEF Prices
  <2> QED  BY <1>13, <1>14, <2>1, <2>2, SharedMargin
<1> QED  BY <1>13, <1>15, <1>16

\* The last of the bids that are added up before a fixed quantity is reached.
LEMMA LastCalled ==
    ASSUME NEW list, Bids(list), NEW q
    PROVE  LET last == CalledOn(list, q)
           IN  last \in 0..Len(list) /\ (last # 0 => Quantity(list, 1..(last - 1)) < q)
<1> DEFINE N == Len(list)
           Reached(n) == Quantity(list, 1..(n - 1)) < q
           S == {0} \cup {n \in 1..N : Reached(n)}
           last == CalledOn(list, q)
           First(k) == \E x \in S : x <= k /\ \A y \in S : y <= k => x >= y
           Upto == {k \in 0..N : First(k)}
<1>0. N \in Nat
  BY DEF Bids
<1>1. last = Max(S)
  BY DEF CalledOn
<1>2. S \in SUBSET (0..N)
  BY <1>0
<1> HIDE DEF Reached
<1>3. 0 \in Upto
  <2>1. 0 \in S /\ \A y \in S : y <= 0 => 0 >= y
    BY <1>0
  <2> HIDE DEF S
  <2> QED  BY <1>0, <2>1
<1>4. ASSUME NEW n \in 1..N, n - 1 \in Upto PROVE n \in Upto
  <2>1. PICK x \in S : x <= n - 1 /\ \A y \in S : y <= n - 1 => x >= y
    BY <1>4
  <2>2. x \in Int /\ n \in Int /\ n \in 0..N /\ \A y \in S : y \in Int
    BY <1>0, <1>2
  <2> HIDE DEF S
  <2>3. CASE n \in S
    <3>1. \A y \in S : y <= n => n >= y
      BY <2>2
    <3> QED  BY <2>2, <2>3, <3>1
  <2>4. CASE n \notin S
    <3>1. \A y \in S : y <= n => y <= n - 1
      <4> TAKE y \in S
      <4>1. y # n /\ y \in Int
        BY <2>2, <2>4
      <4> QED  BY <2>2, <4>1
    <3>2. x <= n
      BY <2>1, <2>2
    <3> QED  BY <2>1, <2>2, <3>1, <3>2
  <2> QED  BY <2>3, <2>4
<1>5. First(N)
  <2> HIDE DEF First
  <2>1. \A n \in 1..N : n - 1 \in Upto => n \in Upto
    BY <1>4
  <2>2. Upto \in SUBSET (0..N)
    OBVIOUS
  <2> HIDE DEF Upto
  <2>3. 0..N \subseteq Upto
    BY <1>0, <1>3, <2>1, CountingUp
  <2>4. N \in Upto
    BY <1>0, <2>3
  <2> QED  BY <2>4 DEF Upto
<1>6. \E x \in S : \A y \in S : x >= y
  <2>1. \A y \in S : y <= N
    BY <1>0, <1>2
  <2> HIDE DEF S
  <2> QED  BY <1>5, <2>1
<1>7. last \in S
  <2> HIDE DEF S
  <2>1. Max(S) \in S
    BY <1>6 DEF Max
  <2> QED  BY <1>1, <2>1
<1>8. last \in 0..N /\ (last # 0 => Reached(last))
  <2> HIDE DEF last
  <2> QED  BY <1>0, <1>7
<1> QED  BY <1>8 DEF Reached

\* One side against a fixed quantity or at a fixed price.
LEMMA SingleFair ==
    ASSUME NEW list, Bids(list), NEW side \in {1, -1}, Ordered(list, side), NEW Pr, Grid(Pr), Prices(list, Pr),
           NEW fixed_quantity \in Nat, NEW fixed_price \in Int, NEW none,
           NEW d, d = SingleAuction(list, side, fixed_quantity, fixed_price, none), d.type \in TradedTypes
    PROVE  /\ CalledAt(list, side, d)
           /\ d.type \in {"CT_BUYER", "CT_SELLER"} =>
                  d.type = (IF side = 1 THEN "CT_SELLER" ELSE "CT_BUYER") /\ Shared(list, side, d)
<1> DEFINE N == Len(list)
           q == fixed_quantity
           last == CalledOn(list, q)
           sum == Quantity(list, 1..last)
           willing == Willing(list, side, fixed_price)
           name == IF side = 1 THEN "CT_SELLER" ELSE "CT_BUYER"
<1>1. N \in Nat /\ \A n \in 1..N : list[n].price \in Pr /\ list[n].quantity \in Nat
  BY DEF Bids, Prices
<1>2. \A p \in Pr : p \in Int /\ Capped(p) = p /\ p \in (-pricecap)..pricecap
  BY GridCapped DEF Grid
<1>3. pricecap \in Nat
  BY AuctionAssumption DEF ClearingAssumption
<1>4. d = CASE q = 0 -> [type |-> IF willing > 0 THEN "CT_EXACT" ELSE "CT_NULL", price |-> fixed_price, quantity |-> willing]
            [] q > 0 /\ sum > q -> [type |-> name, price |-> list[last].price, quantity |-> q]
            [] q > 0 /\ sum = q -> [type |-> "CT_EXACT", price |-> list[last].price, quantity |-> q]
            [] q > 0 /\ sum < q -> [type |-> "CT_FAILURE", price |-> none, quantity |-> 0]
  BY DEF SingleAuction
<1>5. CASE q = 0
  <2>1. d.price = fixed_price /\ d.quantity = willing /\ d.type \notin {"CT_BUYER", "CT_SELLER"}
    BY <1>4, <1>5
  <2> DEFINE P == Capped(fixed_price)
             better == {n \in 1..N : side * list[n].price < side * P}
             wanted == {n \in 1..N : side * list[n].price <= side * fixed_price}
             able == {n \in 1..N : side * list[n].price <= side * P}
  <2>2. better \in SUBSET wanted /\ wanted \in SUBSET able /\ wanted \in SUBSET (1..N) /\ able \in SUBSET (1..N)
    <3>1. ASSUME NEW n \in 1..N
          PROVE  /\ side * list[n].price < side * P => side * list[n].price <= side * fixed_price
                 /\ side * list[n].price <= side * fixed_price => side * list[n].price <= side * P
      <4> DEFINE p == list[n].price
      <4>1. p \in Int /\ -pricecap <= p /\ p <= pricecap
        BY <1>1, <1>2, <1>3
      <4>2. P = IF fixed_price > pricecap THEN pricecap
                ELSE IF fixed_price < -pricecap THEN -pricecap ELSE fixed_price
        BY CappedPrice
      <4> HIDE DEF p, P
      <4>3. /\ side * p < side * P => side * p <= side * fixed_price
            /\ side * p <= side * fixed_price => side * p <= side * P
        <5>1. CASE side = 1
          BY <1>3, <4>1, <4>2, <5>1
        <5>2. CASE side = -1
          BY <1>3, <4>1, <4>2, <5>2
        <5> QED  BY <5>1, <5>2
      <4> QED  BY <4>3 DEF p
    <3> HIDE DEF P
    <3> QED  BY <3>1
  <2>3. \A T \in SUBSET (1..N) : CountsUp(list, T)
    <3>1. IsFiniteSet(1..N)
      BY <1>1, FS_Interval
    <3> TAKE T \in SUBSET (1..N)
    <3>2. IsFiniteSet(T)
      BY <3>1, FS_Subset
    <3> QED  BY <1>1, <3>2 DEF CountsUp
  <2>4. /\ Preferred(list, side, P) = Quantity(list, better) /\ willing = Quantity(list, wanted)
        /\ Willing(list, side, P) = Quantity(list, able)
    BY DEF Preferred, Willing
  <2> HIDE DEF better, wanted, able, willing, P
  <2>5. Quantity(list, better) <= Quantity(list, wanted)
    BY <2>2, <2>3, QuantityWithin
  <2>6. Quantity(list, wanted) <= Quantity(list, able)
    BY <2>2, <2>3, QuantityWithin
  <2>7. CalledAt(list, side, d)
    BY <2>1, <2>4, <2>5, <2>6 DEF CalledAt, P
  <2> QED  BY <2>1, <2>7
<1>6. CASE q # 0
  <2>0. q \in Nat \ {0} /\ q > 0
    BY <1>6
  <2> HIDE DEF sum, willing, name
  <2>1. d.price = list[last].price /\ d.quantity = q /\ d.type \in {"CT_EXACT", name} /\ (sum > q \/ sum = q)
    <3>1. \/ sum > q /\ d = [type |-> name, price |-> list[last].price, quantity |-> q]
          \/ sum = q /\ d = [type |-> "CT_EXACT", price |-> list[last].price, quantity |-> q]
          \/ d.type = "CT_FAILURE"
          \/ ~(sum > q) /\ ~(sum = q) /\ ~(sum < q)
      BY <1>4, <1>6, <2>0
    <3>2. sum \in Int
      <4>1. last \in 0..N
        BY LastCalled
      <4> QED  BY <4>1, FirstQuantities DEF sum
    <3>3. ~(~(sum > q) /\ ~(sum = q) /\ ~(sum < q))
      BY <3>2
    <3> QED  BY <3>1, <3>3 DEF TradedTypes
  <2>2. last \in 1..N /\ Quantity(list, 1..(last - 1)) < q
    <3>1. last \in 0..N /\ (last # 0 => Quantity(list, 1..(last - 1)) < q)
      BY LastCalled
    <3>2. last # 0
      <4> SUFFICES ASSUME last = 0 PROVE FALSE
        OBVIOUS
      <4>1. sum = 0
        BY FirstQuantities DEF sum
      <4> QED  BY <2>0, <2>1, <4>1
    <3> HIDE DEF last
    <3> QED  BY <1>1, <3>1, <3>2
  <2> DEFINE P == list[last].price
             k == last - 1
  <2>3. P \in Int /\ Capped(P) = P
    BY <1>1, <1>2, <2>2
  <2>4. k \in 0..N /\ last \in 0..N /\ k + 1 = last
    <3> HIDE DEF last
    <3> QED  BY <1>1, <2>2
  <2>5. Quantity(list, 1..k) \in Nat /\ sum \in Nat
    BY <2>4, FirstQuantities DEF sum
  <2>6. Quantity(list, 1..k) <= q /\ q <= sum
    <3> DEFINE u == Quantity(list, 1..k)
    <3>1. u \in Nat /\ sum \in Nat /\ u < q /\ (sum > q \/ sum = q)
      BY <2>1, <2>2, <2>5
    <3> HIDE DEF u
    <3>2. u <= q /\ q <= sum
      BY <3>1
    <3> QED  BY <3>2 DEF u
  <2>7. \A n \in 1..last : side * list[n].price <= side * P
    <3>1. \A n \in 1..last : n \in 1..N /\ n <= last
      <4> HIDE DEF last
      <4> QED  BY <1>1, <2>2
    <3> QED  BY <2>2, <3>1 DEF Ordered
  <2>8. \A n \in (k + 1)..N : side * list[n].price >= side * P
    <3> TAKE n \in (k + 1)..N
    <3>1. n \in 1..N /\ last <= n
      <4>1. n \in last..N
        BY <2>4
      <4> HIDE DEF last
      <4> QED  BY <1>1, <2>2, <4>1
    <3>2. side * P <= side * list[n].price
      BY <2>2, <3>1 DEF Ordered
    <3> DEFINE x == side * P
               y == side * list[n].price
    <3>3. x \in Int /\ y \in Int
      BY <1>1, <1>2, <2>3, <3>1
    <3> HIDE DEF x, y
    <3>4. x <= y => y >= x
      BY <3>3
    <3> QED  BY <3>2, <3>4 DEF x, y
  <2>9. Preferred(list, side, P) <= q /\ q <= Willing(list, side, P)
    <3>1. q \in Int /\ Quantity(list, 1..last) = sum
      BY DEF sum
    <3> HIDE DEF k, P, last
    <3> QED  BY <2>3, <2>4, <2>6, <2>7, <2>8, <3>1, CalledBetween
  <2>10. CalledAt(list, side, d)
    BY <2>1, <2>3, <2>9 DEF CalledAt
  <2>11. Shared(list, side, d)
    <3>1. \E n \in 1..Len(list) : list[n].price = d.price
      BY <2>1, <2>2
    <3>2. d.price \in Int /\ d.quantity \in Int /\ Capped(d.price) = d.price
      BY <2>1, <2>3
    <3> QED  BY <2>10, <3>1, <3>2, SharedMargin
  <2> QED  BY <2>1, <2>10, <2>11 DEF name
<1> QED  BY <1>5, <1>6

-----------------------------------------------------------------------------
(* The lists that are cleared *)

FairBids(market) ==
    [id : Bidder \cup {Own, Reference}, quantity : Nat \ {0}, price : PricesOf(market), state : States]

\* They are plain, and what memory nobody has written holds is one of them.
LEMMA FairBidsFit ==
    ASSUME PlainMarkets, NEW market \in Markets
    PROVE  /\ Countable(FairBids(market)) /\ Priced(FairBids(market)) /\ Grid(PricesOf(market))
           /\ market.garbage \in FairBids(market) /\ pricecap \in PricesOf(market)
<1>1. Grid(PricesOf(market)) /\ market.garbage.quantity > 0
  BY DEF PlainMarkets
<1>2. \A p \in PricesOf(market) : p \in Int
  BY <1>1, GridCapped
<1>3. Countable(FairBids(market)) /\ Priced(FairBids(market))
  BY <1>2 DEF Countable, Priced, FairBids
<1>4. market.garbage \in FairBids(market)
  <2>1. market.garbage \in [id : {Own}, quantity : Nat, price : Int, state : {"BS_ON"}]
    BY AuctionAssumption
  <2>2. market.garbage.price \in PricesOf(market)
    BY DEF PricesOf
  <2>3. PICK i \in {Own}, q \in Nat, p \in Int, s \in {"BS_ON"} :
            market.garbage = [id |-> i, quantity |-> q, price |-> p, state |-> s]
    BY <2>1
  <2>4. q > 0 /\ p \in PricesOf(market)
    BY <1>1, <2>2, <2>3
  <2>5. q \in Nat \ {0}
    BY <2>4
  <2> HIDE DEF PricesOf
  <2> QED  BY <2>3, <2>4, <2>5 DEF FairBids, States
<1>5. pricecap \in PricesOf(market)
  <2>1. Min({pricecap, pricecap}) = pricecap
    BY OfTwo, AuctionAssumption DEF ClearingAssumption
  <2>2. Min({pricecap, pricecap}) \in PricesOf(market)
    BY DEF PricesOf
  <2> QED  BY <2>1, <2>2
<1> QED  BY <1>1, <1>3, <1>4, <1>5

\* What is listed are such bids.
LEMMA ListedFair ==
    ASSUME NEW market \in Markets, PlainMarkets, NEW c, Listable(c, FairBids(market))
    PROVE  Bids(Listed(c)) /\ Prices(Listed(c), PricesOf(market)) /\ Len(Listed(c)) = c.n_bids
<1>1. c.n_bids \in Nat /\ \A n \in 1..c.n_bids : c.keys[n] \in 1..c.len /\ c.bids[c.keys[n]] \in FairBids(market)
  BY DEF Listable, Shape, Holds
<1>2. Len(Listed(c)) = c.n_bids /\ \A n \in 1..c.n_bids : Listed(c)[n] \in FairBids(market)
  BY <1>1 DEF Listed, GetBid
<1>3. \A p \in PricesOf(market) : p \in Int
  BY FairBidsFit, GridCapped
<1>4. \A x \in FairBids(market) : x.quantity \in Nat \ {0} /\ x.price \in PricesOf(market) /\ x.price \in Int
  BY <1>3 DEF FairBids
<1> HIDE DEF FairBids
<1> QED  BY <1>1, <1>2, <1>4 DEF Bids, Prices

\* Both sides hold such bids.
Both(c, B) == c = [asks |-> c.asks, offers |-> c.offers] /\ Listable(c.asks, B) /\ Listable(c.offers, B)

\* A bid made keeps both sides to such bids,
LEMMA SubmittedBoth ==
    ASSUME NEW B, Countable(B), NEW c, Both(c, B), NEW id, NEW quantity \in Int, NEW price, NEW state,
           NEW rebid \in BOOLEAN,
           quantity # 0 => [id |-> id, quantity |-> IF quantity < 0 THEN -quantity ELSE quantity,
                            price |-> Min({price, pricecap}), state |-> state] \in B
    PROVE  Both(Submitted(c, id, quantity, price, state, rebid), B)
<1> DEFINE bid == [id |-> id, quantity |-> IF quantity < 0 THEN -quantity ELSE quantity,
                   price |-> Min({price, pricecap}), state |-> state]
<1>1. Listable(c.asks, B) /\ Listable(c.offers, B) /\ c = [asks |-> c.asks, offers |-> c.offers]
  BY DEF Both
<1>2. quantity # 0 => bid \in B
  OBVIOUS
<1>3. \/ Submitted(c, id, quantity, price, state, rebid) \in {c, [asks |-> RemoveBid(c.asks, id), offers |-> RemoveBid(c.offers, id)]}
      \/ /\ quantity # 0
         /\ Submitted(c, id, quantity, price, state, rebid) \in
               {[asks |-> Resubmit(c.asks, bid), offers |-> RemoveBid(c.offers, id)],
                [asks |-> RemoveBid(c.asks, id), offers |-> Resubmit(c.offers, bid)],
                [c EXCEPT !.asks = Submit(c.asks, bid)], [c EXCEPT !.offers = Submit(c.offers, bid)]}
  <2> HIDE DEF Suppressed
  <2> QED  BY DEF Submitted
<1> HIDE DEF bid
<1>4. \A a, o : Listable(a, B) /\ Listable(o, B) => Both([asks |-> a, offers |-> o], B)
  BY DEF Both
<1>5. Listable(RemoveBid(c.asks, id), B) /\ Listable(RemoveBid(c.offers, id), B)
  BY <1>1, RemoveLists
<1>6. CASE quantity = 0
  BY <1>1, <1>3, <1>4, <1>5, <1>6
<1>7. CASE quantity # 0
  <2>1. /\ Listable(Submit(c.asks, bid), B) /\ Listable(Submit(c.offers, bid), B)
        /\ Listable(Resubmit(c.asks, bid), B) /\ Listable(Resubmit(c.offers, bid), B)
    BY <1>1, <1>2, <1>7, SubmitLists, ResubmitLists
  <2>2. /\ [c EXCEPT !.asks = Submit(c.asks, bid)] = [asks |-> Submit(c.asks, bid), offers |-> c.offers]
        /\ [c EXCEPT !.offers = Submit(c.offers, bid)] = [asks |-> c.asks, offers |-> Submit(c.offers, bid)]
    <3>1. PICK a, o : c = [asks |-> a, offers |-> o]
      BY <1>1
    <3> QED  BY <3>1
  <2> QED  BY <1>1, <1>3, <1>4, <1>5, <2>1, <2>2
<1> QED  BY <1>6, <1>7

\* A bid of the auction's own or of the reference is such a bid.
LEMMA OwnFair ==
    ASSUME PlainMarkets, config \in Markets, NEW id \in {Own, Reference}, NEW quantity \in Int, quantity # 0,
           NEW price \in {config.fixed_price, config.reference_price, pricecap}
    PROVE  [id |-> id, quantity |-> IF quantity < 0 THEN -quantity ELSE quantity,
            price |-> Min({price, pricecap}), state |-> "BS_ON"] \in FairBids(config)
<1> DEFINE q == IF quantity < 0 THEN -quantity ELSE quantity
<1>1. q \in Nat \ {0}
  OBVIOUS
<1>2. Min({price, pricecap}) \in PricesOf(config)
  BY DEF PricesOf
<1> HIDE DEF q
<1>3. [id |-> id, quantity |-> q, price |-> Min({price, pricecap}), state |-> "BS_ON"] \in FairBids(config)
  BY <1>1, <1>2 DEF FairBids, States
<1> QED  BY <1>3 DEF q

\* and so does the load that did not bid.
LEMMA ReferenceBoth ==
    ASSUME PlainMarkets, config \in Markets, NEW c, Both(c, FairBids(config))
    PROVE  Both(WithReference(c), FairBids(config))
<1> DEFINE B == FairBids(config)
           unresponsive == config.refload - c.asks.total_on
                             - ((c.asks.total - c.asks.total_on - c.asks.total_off) \div 2)
           asked == IF config.refload # 0 /\ config.special_mode # "MD_FIXED_BUYER" /\ unresponsive > 0
                    THEN Submitted(c, Reference, -unresponsive, pricecap, "BS_ON", FALSE) ELSE c
<1>1. config.refload \in Nat /\ config.reference_bid \in Nat
  BY AuctionAssumption
<1>2. unresponsive \in Int
  <2> DEFINE t == c.asks.total
             on == c.asks.total_on
             off == c.asks.total_off
             r == config.refload
  <2>1. t \in Int /\ on \in Int /\ off \in Int /\ r \in Int
    BY <1>1 DEF Both, Listable, IntTotals
  <2> HIDE DEF t, on, off, r
  <2>2. (r - on - ((t - on - off) \div 2)) \in Int
    BY <2>1
  <2> QED  BY <2>2 DEF t, on, off, r
<1>3. Countable(B)
  BY FairBidsFit
<1>4. WithReference(c) \in {asked, Submitted(asked, Own, config.reference_bid, config.reference_price, "BS_ON", FALSE)}
  BY DEF WithReference
<1> HIDE DEF unresponsive
<1>5. Both(asked, B)
  <2>1. CASE unresponsive > 0
    <3> DEFINE q == -unresponsive
    <3>1. q \in Int /\ q # 0
      BY <1>2, <2>1
    <3> HIDE DEF q
    <3>2. [id |-> Reference, quantity |-> IF q < 0 THEN -q ELSE q,
           price |-> Min({pricecap, pricecap}), state |-> "BS_ON"] \in B
      BY <3>1, OwnFair
    <3> HIDE DEF B
    <3>3. Both(c, B)
      BY DEF B
    <3>4. Both(Submitted(c, Reference, q, pricecap, "BS_ON", FALSE), B)
      BY <1>3, <3>1, <3>2, <3>3, SubmittedBoth
    <3> QED  BY <3>3, <3>4 DEF q
  <2>2. CASE ~(unresponsive > 0)
    BY <2>2
  <2> QED  BY <2>1, <2>2
<1> HIDE DEF asked
<1>6. Both(Submitted(asked, Own, config.reference_bid, config.reference_price, "BS_ON", FALSE), B)
  <2> DEFINE q == config.reference_bid
  <2>1. q \in Int
    BY <1>1
  <2>2. q # 0 => [id |-> Own, quantity |-> IF q < 0 THEN -q ELSE q,
                  price |-> Min({config.reference_price, pricecap}), state |-> "BS_ON"] \in B
    BY <2>1, OwnFair
  <2> HIDE DEF B, q
  <2>3. Both(Submitted(asked, Own, q, config.reference_price, "BS_ON", FALSE), B)
    BY <1>3, <1>5, <2>1, <2>2, SubmittedBoth
  <2> QED  BY <2>3 DEF q
<1> QED  BY <1>4, <1>5, <1>6

\* One bid alone is in order.
LEMMA Alone ==
    ASSUME NEW list, Bids(list), Len(list) <= 1, NEW side \in {1, -1}
    PROVE  Ordered(list, side)
<1> SUFFICES ASSUME NEW m \in 1..Len(list), NEW n \in 1..Len(list), m <= n
             PROVE  side * list[m].price <= side * list[n].price
  BY DEF Ordered
<1>1. m = n /\ list[m].price \in Int
  BY DEF Bids
<1> DEFINE p == list[m].price
<1>2. p \in Int /\ list[n].price = p
  BY <1>1
<1> HIDE DEF p
<1>3. side * p <= side * p
  BY <1>2
<1> QED  BY <1>2, <1>3 DEF p

\* The lists that are cleared hold such bids, and the sides that a clearing looks at are in order.
LEMMA ArrangedBoth ==
    ASSUME PlainMarkets, config \in Markets, NEW c, Both(c, FairBids(config))
    PROVE  LET d == Arranged(c)
           IN  /\ Both(d, FairBids(config))
               /\ config.special_mode # "MD_SELLERS" => Ordered(Listed(d.asks), -1)
               /\ config.special_mode # "MD_BUYERS" => Ordered(Listed(d.offers), 1)
<1> DEFINE B == FairBids(config)
           a == Sort(c.asks, TRUE)
           o == Sort(c.offers, FALSE)
           own(e, q) == Submitted(e, Own, q, config.fixed_price, "BS_ON", FALSE)
           d == Arranged(c)
<1>0. config.special_mode \in MODES /\ config.fixed_quantity \in Nat
  BY AuctionAssumption
<1>1. Countable(B) /\ Priced(B)
  BY FairBidsFit
<1>2. c = [asks |-> c.asks, offers |-> c.offers] /\ Listable(c.asks, B) /\ Listable(c.offers, B)
  BY DEF Both
<1> HIDE DEF B
<1>3. /\ Listable(a, B) /\ Ordered(Listed(a), -1)
      /\ Listable(o, B) /\ Ordered(Listed(o), 1)
  <2>1. Listable(Sort(c.asks, TRUE), B) /\ Ordered(Listed(Sort(c.asks, TRUE)), -1)
    BY <1>1, <1>2, SortLists
  <2>2. Listable(Sort(c.offers, FALSE), B) /\ Ordered(Listed(Sort(c.offers, FALSE)), 1)
    BY <1>1, <1>2, SortLists
  <2> QED  BY <2>1, <2>2
<1>4. /\ Listable(Clear(c.asks), B) /\ Clear(c.asks).n_bids = 0
      /\ Listable(Clear(c.offers), B) /\ Clear(c.offers).n_bids = 0
  BY <1>2, ClearLists
<1>5. \A x, y : Listable(x, B) /\ Listable(y, B) => Both([asks |-> x, offers |-> y], B)
  BY DEF Both
<1>6. ASSUME NEW e, Both(e, B), NEW q \in Int PROVE Both(own(e, q), B)
  <2>1. q # 0 => [id |-> Own, quantity |-> IF q < 0 THEN -q ELSE q,
                  price |-> Min({config.fixed_price, pricecap}), state |-> "BS_ON"] \in B
    BY OwnFair DEF B
  <2> QED  BY <1>1, <1>6, <2>1, SubmittedBoth
<1>7. ASSUME NEW e, Both(e, B), NEW q \in Int
      PROVE  /\ q <= 0 => own(e, q).offers = e.offers
             /\ q >= 0 => own(e, q).asks = e.asks
             /\ own(e, q).asks.n_bids \in {e.asks.n_bids, e.asks.n_bids + 1}
             /\ own(e, q).offers.n_bids \in {e.offers.n_bids, e.offers.n_bids + 1}
  <2> DEFINE bid == [id |-> Own, quantity |-> IF q < 0 THEN -q ELSE q,
                     price |-> Min({config.fixed_price, pricecap}), state |-> "BS_ON"]
  <2>1. \/ own(e, q) = e
        \/ q < 0 /\ own(e, q) = [e EXCEPT !.asks = Submit(e.asks, bid)]
        \/ q > 0 /\ own(e, q) = [e EXCEPT !.offers = Submit(e.offers, bid)]
    <3> HIDE DEF Suppressed
    <3> QED  BY DEF Submitted
  <2> HIDE DEF bid, own
  <2>2. PICK x, y : e = [asks |-> x, offers |-> y]
    BY <1>7 DEF Both
  <2>3. Shape(x) /\ Shape(y)
    BY <1>7, <2>2 DEF Both, Listable
  <2>4. Submit(x, bid).n_bids = x.n_bids + 1
    BY <2>3, SubmitMakes DEF SubmitsBid
  <2>5. Submit(y, bid).n_bids = y.n_bids + 1
    BY <2>3, SubmitMakes DEF SubmitsBid
  <2>6. CASE own(e, q) = e
    BY <2>6
  <2>7. CASE q < 0 /\ own(e, q) = [e EXCEPT !.asks = Submit(e.asks, bid)]
    <3>1. own(e, q) = [asks |-> Submit(x, bid), offers |-> y] /\ ~(q >= 0)
      BY <2>2, <2>7
    <3> QED  BY <2>2, <2>4, <3>1
  <2>8. CASE q > 0 /\ own(e, q) = [e EXCEPT !.offers = Submit(e.offers, bid)]
    <3>1. own(e, q) = [asks |-> x, offers |-> Submit(y, bid)] /\ ~(q <= 0)
      BY <2>2, <2>8
    <3> QED  BY <2>2, <2>5, <3>1
  <2> QED  BY <2>1, <2>6, <2>7, <2>8
<1>8. ASSUME NEW x, Listable(x, B), x.n_bids \in {0, 1}, NEW side \in {1, -1} PROVE Ordered(Listed(x), side)
  <2>1. Bids(Listed(x)) /\ Len(Listed(x)) = x.n_bids
    BY <1>8, ListedFair DEF B
  <2>2. Len(Listed(x)) <= 1
    BY <1>8, <2>1
  <2> QED  BY <2>1, <2>2, Alone
<1> HIDE DEF a, o, own, d
<1>9. CASE config.special_mode = "MD_NONE"
  <2>1. d = [asks |-> a, offers |-> o]
    BY <1>9 DEF Arranged, a, o, d
  <2> QED  BY <1>3, <1>5, <2>1 DEF B, d
<1>10. CASE config.special_mode = "MD_SELLERS"
  <2>1. d = [asks |-> c.asks, offers |-> o]
    <3>1. d = [c EXCEPT !.offers = o]
      BY <1>10 DEF Arranged, a, o, d
    <3>2. PICK x, y : c = [asks |-> x, offers |-> y]
      BY <1>2
    <3> QED  BY <3>1, <3>2
  <2> QED  BY <1>2, <1>3, <1>5, <1>10, <2>1 DEF B, d
<1>11. CASE config.special_mode = "MD_BUYERS"
  <2>1. d = [asks |-> a, offers |-> c.offers]
    <3>1. d = [c EXCEPT !.asks = a]
      BY <1>11 DEF Arranged, a, o, d
    <3>2. PICK x, y : c = [asks |-> x, offers |-> y]
      BY <1>2
    <3> QED  BY <3>1, <3>2
  <2> QED  BY <1>2, <1>3, <1>5, <1>11, <2>1 DEF B, d
<1>12. CASE config.special_mode = "MD_FIXED_SELLER"
  <2> DEFINE e == [asks |-> Clear(c.asks), offers |-> o]
             q == -config.fixed_quantity
  <2>1. d = own(e, q)
    BY <1>12 DEF Arranged, a, o, d, own
  <2>2. Both(e, B) /\ q \in Int /\ q <= 0 /\ e.asks.n_bids = 0 /\ e.offers = o
    BY <1>0, <1>3, <1>4, <1>5
  <2> HIDE DEF e, q
  <2>3. Both(d, B) /\ d.offers = o /\ d.asks.n_bids \in {0, 1}
    <3>1. Both(own(e, q), B)
      BY <1>6, <2>2
    <3>2. own(e, q).offers = e.offers /\ own(e, q).asks.n_bids \in {e.asks.n_bids, e.asks.n_bids + 1}
      BY <1>7, <2>2
    <3> QED  BY <2>1, <2>2, <3>1, <3>2
  <2>4. Ordered(Listed(d.asks), -1)
    BY <1>8, <2>3 DEF Both
  <2> QED  BY <1>3, <2>3, <2>4 DEF B, d
<1>13. CASE config.special_mode = "MD_FIXED_BUYER"
  <2> DEFINE e == [asks |-> a, offers |-> Clear(c.offers)]
             q == config.fixed_quantity
  <2>1. d = own(e, q)
    BY <1>13 DEF Arranged, a, o, d, own
  <2>2. Both(e, B) /\ q \in Int /\ q >= 0 /\ e.offers.n_bids = 0 /\ e.asks = a
    BY <1>0, <1>3, <1>4, <1>5
  <2> HIDE DEF e, q
  <2>3. Both(d, B) /\ d.asks = a /\ d.offers.n_bids \in {0, 1}
    <3>1. Both(own(e, q), B)
      BY <1>6, <2>2
    <3>2. own(e, q).asks = e.asks /\ own(e, q).offers.n_bids \in {e.offers.n_bids, e.offers.n_bids + 1}
      BY <1>7, <2>2
    <3> QED  BY <2>1, <2>2, <3>1, <3>2
  <2>4. Ordered(Listed(d.offers), 1)
    BY <1>8, <2>3 DEF Both
  <2> QED  BY <1>3, <2>3, <2>4 DEF B, d
<1> QED  BY <1>0, <1>9, <1>10, <1>11, <1>12, <1>13 DEF MODES

-----------------------------------------------------------------------------
(* Fair clearings *)

\* ClearingIsFair, of a record and a mode.
FairOutcome(mode, r) ==
    LET both == mode \notin {"MD_SELLERS", "MD_BUYERS"}
        m == Walk(r.asks, r.offers)
    IN  /\ r.type \in TradedTypes
        /\ both => /\ ~(m.check /\ ((m.i > Len(r.asks)) # (m.j > Len(r.offers))))
                   /\ {r.quantity} # {UnresponsiveBuy(r.asks), UnresponsiveSell(r.offers)}
        => /\ mode # "MD_SELLERS" => CalledAt(r.asks, -1, r)
           /\ mode # "MD_BUYERS" => CalledAt(r.offers, 1, r)
           /\ r.type \in {"CT_BUYER", "CT_SELLER"} =>
                  r.margin.quantity \in 0..r.margin.total /\ r.margin.total > 0

\* It is what the property says.
LEMMA FairSays == ClearingIsFair <=> FairOutcome(config.special_mode, outcome)
BY DEF ClearingIsFair, FairOutcome, Traded, TradedTypes, BothSides, RunsOut, OnlyUnresponsive, Called, CalledAt

\* A clearing of any mode is fair.
LEMMA ClearedFair ==
    ASSUME PlainMarkets, config \in Markets, NEW c, Both(c, FairBids(config)),
           config.special_mode # "MD_SELLERS" => Ordered(Listed(c.asks), -1),
           config.special_mode # "MD_BUYERS" => Ordered(Listed(c.offers), 1)
    PROVE  LET clear == Clearance(c)
           IN  FairOutcome(config.special_mode,
                           [asks |-> Listed(c.asks), offers |-> Listed(c.offers), price |-> clear.price,
                            quantity |-> clear.quantity, type |-> clear.type, margin |-> MarginOf(c, clear)])
<1> DEFINE asks == Listed(c.asks)
           offers == Listed(c.offers)
           Pr == PricesOf(config)
           d == Clearance(c)
           mode == config.special_mode
           r == [asks |-> asks, offers |-> offers, price |-> d.price, quantity |-> d.quantity, type |-> d.type,
                 margin |-> MarginOf(c, d)]
<1>0. config.fixed_quantity \in Nat /\ config.fixed_price \in Int
  BY AuctionAssumption
<1>1. Bids(asks) /\ Prices(asks, Pr) /\ Bids(offers) /\ Prices(offers, Pr) /\ Grid(Pr)
  <2>1. Listable(c.asks, FairBids(config)) /\ Listable(c.offers, FairBids(config))
    BY DEF Both
  <2> QED  BY <2>1, ListedFair, FairBidsFit
<1>2. r.type = d.type /\ r.quantity = d.quantity /\ r.price = d.price /\ r.asks = asks /\ r.offers = offers
      /\ r.margin = MarginOf(c, d)
  OBVIOUS
<1>3. /\ d.type = "CT_BUYER" => r.margin = Margin(asks, -1, d)
      /\ d.type = "CT_SELLER" => r.margin = Margin(offers, 1, d)
  BY DEF MarginOf
<1>4. /\ (mode # "MD_SELLERS" => Ordered(asks, -1))
      /\ (mode # "MD_BUYERS" => Ordered(offers, 1))
  OBVIOUS
<1> HIDE DEF asks, offers, Pr, r
<1>5. SUFFICES ASSUME d.type \in TradedTypes,
                      mode \notin {"MD_SELLERS", "MD_BUYERS"} =>
                          LET m == Walk(asks, offers)
                          IN  /\ ~(m.check /\ ((m.i > Len(asks)) # (m.j > Len(offers))))
                              /\ {d.quantity} # {UnresponsiveBuy(asks), UnresponsiveSell(offers)}
               PROVE  /\ mode # "MD_SELLERS" => CalledAt(asks, -1, d)
                      /\ mode # "MD_BUYERS" => CalledAt(offers, 1, d)
                      /\ d.type = "CT_BUYER" => Shared(asks, -1, d)
                      /\ d.type = "CT_SELLER" => Shared(offers, 1, d)
  <2> HIDE DEF d, mode
  <2> DEFINE Premise == d.type \in TradedTypes
                        /\ (mode \notin {"MD_SELLERS", "MD_BUYERS"} =>
                              LET m == Walk(asks, offers)
                              IN  /\ ~(m.check /\ ((m.i > Len(asks)) # (m.j > Len(offers))))
                                  /\ {d.quantity} # {UnresponsiveBuy(asks), UnresponsiveSell(offers)})
             Outcome == /\ mode # "MD_SELLERS" => CalledAt(asks, -1, d)
                        /\ mode # "MD_BUYERS" => CalledAt(offers, 1, d)
                        /\ d.type = "CT_BUYER" => Shared(asks, -1, d)
                        /\ d.type = "CT_SELLER" => Shared(offers, 1, d)
  <2>1. Premise => Outcome
    BY <1>5
  <2>2. CalledAt(asks, -1, d) = CalledAt(asks, -1, r) /\ CalledAt(offers, 1, d) = CalledAt(offers, 1, r)
    BY <1>2 DEF CalledAt
  <2>3. (d.type = "CT_BUYER" /\ Shared(asks, -1, d)) \/ (d.type = "CT_SELLER" /\ Shared(offers, 1, d))
           => r.margin.quantity \in 0..r.margin.total /\ r.margin.total > 0
    BY <1>3 DEF Shared
  <2>4. FairOutcome(mode, r)
    <3>1. SUFFICES ASSUME Premise
                   PROVE  /\ mode # "MD_SELLERS" => CalledAt(asks, -1, d)
                          /\ mode # "MD_BUYERS" => CalledAt(offers, 1, d)
                          /\ d.type \in {"CT_BUYER", "CT_SELLER"} =>
                                 r.margin.quantity \in 0..r.margin.total /\ r.margin.total > 0
      BY <1>2, <2>2 DEF FairOutcome
    <3> QED  BY <2>1, <2>3, <3>1
  <2> QED  BY <2>4 DEF r, d, mode, asks, offers
<1>6. CASE mode = "MD_SELLERS"
  <2>1. \E none : d = SingleAuction(offers, 1, config.fixed_quantity, config.fixed_price, none)
    BY <1>6 DEF Clearance, offers
  <2>2. PICK none : d = SingleAuction(offers, 1, config.fixed_quantity, config.fixed_price, none)
    BY <2>1
  <2>3. Ordered(offers, 1)
    BY <1>4, <1>6
  <2> HIDE DEF d
  <2>4. CalledAt(offers, 1, d)
        /\ (d.type \in {"CT_BUYER", "CT_SELLER"} => d.type = "CT_SELLER" /\ Shared(offers, 1, d))
    BY <1>0, <1>1, <1>5, <2>2, <2>3, SingleFair
  <2> QED  BY <1>6, <2>4
<1>7. CASE mode = "MD_BUYERS"
  <2>1. \E none : d = SingleAuction(asks, -1, config.fixed_quantity, config.fixed_price, none)
    BY <1>7 DEF Clearance, asks
  <2>2. PICK none : d = SingleAuction(asks, -1, config.fixed_quantity, config.fixed_price, none)
    BY <2>1
  <2>3. Ordered(asks, -1) /\ -1 \in {1, -1} /\ -1 # 1
    BY <1>4, <1>7
  <2> HIDE DEF d
  <2>4. CalledAt(asks, -1, d)
        /\ (d.type \in {"CT_BUYER", "CT_SELLER"} => d.type = "CT_BUYER" /\ Shared(asks, -1, d))
    BY <1>0, <1>1, <1>5, <2>2, <2>3, SingleFair
  <2> QED  BY <1>7, <2>4
<1>8. CASE mode \notin {"MD_SELLERS", "MD_BUYERS"}
  <2>1. d = DoubleAuction(asks, offers)
    <3>1. d \in {DoubleAuction(asks, offers),
                 [type |-> "CT_NULL", price |-> NullPrice(asks, offers), quantity |-> 0]}
      BY <1>8 DEF Clearance, asks, offers
    <3>2. d.type # "CT_NULL"
      BY <1>5 DEF TradedTypes
    <3> HIDE DEF d
    <3> QED  BY <3>1, <3>2
  <2>2. Ordered(asks, -1) /\ Ordered(offers, 1)
    BY <1>4, <1>8
  <2>3. {d.quantity} # {UnresponsiveBuy(asks), UnresponsiveSell(offers)}
        /\ LET m == Walk(asks, offers) IN ~(m.check /\ ((m.i > Len(asks)) # (m.j > Len(offers))))
    BY <1>5, <1>8
  <2> HIDE DEF d
  <2>4. /\ CalledAt(asks, -1, d) /\ CalledAt(offers, 1, d)
        /\ d.type = "CT_BUYER" => Shared(asks, -1, d)
        /\ d.type = "CT_SELLER" => Shared(offers, 1, d)
    BY <1>1, <1>5, <2>1, <2>2, <2>3, DoubleFair
  <2> QED  BY <2>4
<1> QED  BY <1>6, <1>7, <1>8

FairInv ==
    /\ config \in Markets /\ Both(curves, FairBids(config))
    /\ ClearingIsFair

\* Nothing is cleared at first.
LEMMA FairStart == ASSUME PlainMarkets, Init PROVE FairInv
<1>1. config \in Markets /\ outcome.type = "CT_NULL"
  BY DEF Init
<1>2. ClearingIsFair
  BY <1>1 DEF ClearingIsFair, Traded
<1>3. curves = [asks |-> EmptyCurve(config.garbage), offers |-> EmptyCurve(config.garbage)]
  BY DEF Init
<1>4. config.garbage \in FairBids(config)
  BY <1>1, FairBidsFit
<1>5. Listable(EmptyCurve(config.garbage), FairBids(config))
  <2> DEFINE g == config.garbage
             B == FairBids(config)
  <2>1. g \in B
    BY <1>4
  <2> HIDE DEF g, B
  <2>2. Shape(EmptyCurve(g))
    BY EmptyShape
  <2>3. Listable(EmptyCurve(g), B)
    BY <2>1, <2>2 DEF Listable, Holds, IntTotals, EmptyCurve
  <2> QED  BY <2>3 DEF g, B
<1>6. Both(curves, FairBids(config))
  BY <1>3, <1>5 DEF Both
<1> QED  BY <1>1, <1>2, <1>6 DEF FairInv

\* FairInv is inductive.
LEMMA FairNext == ASSUME PlainMarkets, FairInv, [Next]_vars PROVE FairInv'
<1> DEFINE B == FairBids(config)
<1>0. config \in Markets /\ Both(curves, B) /\ ClearingIsFair
  BY DEF FairInv
<1>1. ASSUME NEW b \in Bidder, Bid(b) PROVE FairInv'
  <2>1. PICK bid \in config.bids :
            curves' = Submitted(curves, b, bid.quantity, bid.price, bid.state, book[b] # NoBid)
    BY <1>1 DEF Bid
  <2>2. config' = config /\ outcome' = outcome
    BY <1>1 DEF Bid
  <2>3. bid.quantity \in Int /\ bid.state \in States
    <3>1. bid \in [quantity : Int, price : Int, state : {"BS_ON", "BS_OFF", "BS_UNKNOWN"}]
      BY <1>0, AuctionAssumption
    <3> QED  BY <3>1 DEF States
  <2> DEFINE q == bid.quantity
  <2>4. q # 0 => [id |-> b, quantity |-> IF q < 0 THEN -q ELSE q,
                  price |-> Min({bid.price, pricecap}), state |-> bid.state] \in B
    <3> HAVE q # 0
    <3> DEFINE n == IF q < 0 THEN -q ELSE q
    <3>1. n \in Nat \ {0}
      BY <2>3
    <3>2. Min({bid.price, pricecap}) \in PricesOf(config)
      BY DEF PricesOf
    <3> HIDE DEF n
    <3> QED  BY <2>3, <3>1, <3>2 DEF FairBids
  <2>5. Both(curves', B)
    <3>1. Countable(B) /\ (book[b] # NoBid) \in BOOLEAN
      BY <1>0, FairBidsFit
    <3>2. Both(Submitted(curves, b, bid.quantity, bid.price, bid.state, book[b] # NoBid), B)
      BY <1>0, <2>3, <2>4, <3>1, SubmittedBoth
    <3> QED  BY <2>1, <3>2
  <2>6. ClearingIsFair'
    BY <1>0, <2>2, FairSays DEF ClearingIsFair, Traded, BothSides, RunsOut, OnlyUnresponsive, Called
  <2> QED  BY <1>0, <2>2, <2>5, <2>6 DEF FairInv
<1>2. ASSUME ClearMarket PROVE FairInv'
  <2> DEFINE c == Arranged(WithReference(curves))
             clear == Clearance(c)
             r == [asks |-> Listed(c.asks), offers |-> Listed(c.offers), price |-> clear.price,
                   quantity |-> clear.quantity, type |-> clear.type, margin |-> MarginOf(c, clear)]
  <2>1. config' = config /\ outcome' = r /\ curves' = [asks |-> Clear(c.asks), offers |-> Clear(c.offers)]
    BY <1>2 DEF ClearMarket
  <2>2. /\ Both(c, B)
        /\ config.special_mode # "MD_SELLERS" => Ordered(Listed(c.asks), -1)
        /\ config.special_mode # "MD_BUYERS" => Ordered(Listed(c.offers), 1)
    <3>1. Both(WithReference(curves), B)
      BY <1>0, ReferenceBoth
    <3> QED  BY <1>0, <3>1, ArrangedBoth
  <2> HIDE DEF c
  <2>3. FairOutcome(config.special_mode, r)
    BY <1>0, <2>2, ClearedFair
  <2> HIDE DEF r
  <2>4. ClearingIsFair'
    <3>1. FairOutcome(config'.special_mode, outcome')
      BY <2>1, <2>3
    <3> QED  BY <3>1 DEF ClearingIsFair, FairOutcome, Traded, TradedTypes, BothSides, RunsOut,
                         OnlyUnresponsive, Called, CalledAt
  <2>5. Both(curves', B)
    <3>1. Listable(Clear(c.asks), B) /\ Listable(Clear(c.offers), B)
      BY <2>2, ClearLists DEF Both
    <3> QED  BY <2>1, <3>1 DEF Both
  <2> QED  BY <1>0, <2>1, <2>4, <2>5 DEF FairInv
<1>3. ASSUME UNCHANGED <<config, curves, outcome>> PROVE FairInv'
  BY <1>0, <1>3 DEF FairInv, ClearingIsFair, Traded, BothSides, RunsOut, OnlyUnresponsive, Called
<1>4. StrayRead \/ UNCHANGED vars => UNCHANGED <<config, curves, outcome>>
  BY DEF StrayRead, vars, bidding
<1> QED  BY <1>1, <1>2, <1>3, <1>4 DEF Next

\* For markets whose prices are a grid no finer than the offset: whatever is bid, in every mode
\* and with a load that did not bid, a clearing that trades calls on every bid better than its
\* price and on none worse, and the marginal bids share what is left, except in the two cases
\* of ClearingIsFair (auction.cpp:1103-1391).
THEOREM ClearingFair == ASSUME PlainMarkets PROVE Spec => []ClearingIsFair
<1>1. Init => FairInv
  BY FairStart
<1>2. FairInv /\ [Next]_vars => FairInv'
  BY FairNext
<1>3. FairInv => ClearingIsFair
  BY DEF FairInv
<1> QED  BY <1>1, <1>2, <1>3, PTL DEF Spec
=============================================================================
