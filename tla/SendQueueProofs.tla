---------------------------- MODULE SendQueueProofs ----------------------------
(***************************************************************************)
(* Proofs about SendQueue, for any number of connections, jobs and         *)
(* messages and any capacity of the queues.                                *)
(***************************************************************************)
EXTENDS SendQueue, TLAPS

LEMMA NoneIsNobody == None \notin Clients /\ None \notin Jobs /\ Clients \subseteq Goroutines
                      /\ Jobs \subseteq Goroutines /\ Clients \cap Jobs = {}
BY QueueAssumption DEF Goroutines

-----------------------------------------------------------------------------
(* What the invariants rest on *)

Outsider(c) == pc[c] \in {"new", "waiting", "refused", "outside"}

\* Everybody who is sent something is in the room, or has been: an outsider's
\* queue is its own.
Known ==
    /\ \A g \in Goroutines :
        /\ \A c \in call[g].todo : ~Outsider(c)
        /\ call[g].to \in call[g].todo \cup {None}
        /\ call[g].blocked => call[g].to # None
    /\ \A c \in members : ~Outsider(c)
    /\ \A c \in Clients :
        /\ pc[c] \in {"kicking", "deleting"} => victim[c] # None
        /\ victim[c] # None => ~Outsider(victim[c])
        /\ pc[c] \in {"new", "waiting"} => chan[c] = <<>>
    /\ \A j \in Jobs :
        /\ pc[j] \in {"idle", "storing", "failed", "done", "dead"}
        /\ IF pc[j] = "idle" THEN call[j].todo = {}
           ELSE owner[j] # None /\ ~Outsider(owner[j])

-----------------------------------------------------------------------------
(* Messages and calls *)

LEMMA EnvTyped ==
    /\ \A type : Notice(type) \in Envelopes
    /\ \A type \in Types, c \in Clients, n \in Nat : Env(type, c, n) \in Envelopes
BY DEF Notice, Env, Envelopes, Types

LEMMA ServingTyped ==
    ASSUME NEW env \in Envelopes, NEW todo \in SUBSET Clients
    PROVE  Serving(env, todo) \in Calls
BY DEF Serving, Calls

LEMMA CallsTyped ==
    ASSUME NEW r \in Calls
    PROVE  /\ r.env \in Envelopes /\ r.todo \in SUBSET Clients
           /\ r.to \in Clients \cup {None} /\ r.blocked \in BOOLEAN
           /\ \A c \in Clients :
                /\ [r EXCEPT !.to = c] \in Calls
                /\ [r EXCEPT !.to = c].env = r.env /\ [r EXCEPT !.to = c].todo = r.todo
                /\ [r EXCEPT !.to = c].to = c
           /\ [r EXCEPT !.blocked = TRUE] \in Calls
           /\ [r EXCEPT !.blocked = TRUE].env = r.env /\ [r EXCEPT !.blocked = TRUE].todo = r.todo
           /\ [r EXCEPT !.blocked = TRUE].to = r.to
BY DEF Calls

LEMMA Returned ==
    ASSUME TypeOK, NEW g \in Goroutines, NEW c, Return(g, c)
    PROVE  call' \in [Goroutines -> Calls]
<1>1. call[g] \in Calls /\ call \in [Goroutines -> Calls]
  BY DEF TypeOK
<1>2. Serving(call[g].env, call[g].todo \ {c}) \in Calls
  BY <1>1, CallsTyped, ServingTyped
<1> QED
  BY <1>1, <1>2 DEF Return

-----------------------------------------------------------------------------
\* Every step keeps the types.
LEMMA TypesKept ==
    ASSUME TypeOK, Known, [Next]_vars
    PROVE  TypeOK'
<1> USE NoneIsNobody, QueueAssumption DEF TypeOK, Labels
<1>1. ASSUME NEW g \in Goroutines, Test(g)
      PROVE  TypeOK'
  <2>1. call' \in [Goroutines -> Calls]
    <3>1. PICK c \in call[g].todo :
              IF open[c] THEN call' = [call EXCEPT ![g].to = c] ELSE Return(g, c)
      BY <1>1 DEF Test
    <3>2. call[g] \in Calls /\ c \in Clients
      BY CallsTyped
    <3>3. [call[g] EXCEPT !.to = c] \in Calls
      BY <3>2, CallsTyped
    <3> QED
      BY <3>1, <3>3, Returned, ZenonT(40)
  <2> QED
    BY <1>1, <2>1 DEF Test, QueueUnchanged, roomVars, sockVars
<1>2. ASSUME NEW g \in Goroutines, Put(g)
      PROVE  TypeOK'
  <2> DEFINE c == call[g].to
  <2>1. c \in Clients /\ call[g].env \in Envelopes
    BY <1>2, CallsTyped DEF Put
  <2>2. call' \in [Goroutines -> Calls]
    BY <1>2, Returned DEF Put
  <2>3. chan' = [chan EXCEPT ![c] = Append(@, call[g].env)] /\ Len(chan[c]) < Capacity
    BY <1>2 DEF Put
  <2>4. chan' \in [Clients -> Seq(Envelopes)] /\ \A d \in Clients : Len(chan'[d]) <= Capacity
    BY <2>1, <2>3
  <2> QED
    BY <1>2, <2>2, <2>4 DEF Put, QueueUnchanged, roomVars, sockVars
<1>3. ASSUME NEW g \in Goroutines, Full(g)
      PROVE  TypeOK'
  <2>1. call' \in [Goroutines -> Calls]
    <3>1. [call[g] EXCEPT !.blocked = TRUE] \in Calls
      BY CallsTyped
    <3>2. CASE isTransient(call[g].env)
      BY <1>3, <3>2, Returned DEF Full
    <3>3. CASE ~isTransient(call[g].env)
      BY <1>3, <3>1, <3>3, ZenonT(40) DEF Full
    <3> QED
      BY <3>2, <3>3
  <2> QED
    BY <1>3, <2>1 DEF Full, QueueUnchanged, roomVars, sockVars
<1>4. ASSUME NEW g \in Goroutines, GiveUp(g)
      PROVE  TypeOK'
  <2>1. call' \in [Goroutines -> Calls]
    BY <1>4, Returned DEF GiveUp
  <2>2. call[g].to \in Clients
    BY <1>4, CallsTyped DEF GiveUp, Known
  <2>3. excused' \subseteq Clients
    BY <1>4, <2>2 DEF GiveUp
  <2> QED
    BY <1>4, <2>1, <2>3 DEF GiveUp, QueueUnchanged, roomVars, sockVars
<1>5. ASSUME NEW g \in Goroutines, Panic(g)
      PROVE  TypeOK'
  <2>1. Quiet \in Calls
    BY EnvTyped, ServingTyped DEF Quiet
  <2>2. call' \in [Goroutines -> Calls]
    BY <1>5, <2>1 DEF Panic
  <2>3. pc' \in [Goroutines -> Labels] /\ open' \in [Clients -> BOOLEAN]
        /\ conn' \in [Clients -> {"up", "broken", "closed"}] /\ excused' \subseteq Clients
    BY <1>5 DEF Panic
  <2>4. crashed' \in BOOLEAN
    <3>1. crashed' = (g \in Jobs)
      BY <1>5 DEF Panic
    <3> QED
      BY <3>1
  <2> QED
    BY <1>5, <2>2, <2>3, <2>4 DEF Panic, roomVars
<1>6. ASSUME NEW c \in Clients, Write(c)
      PROVE  TypeOK'
  <2>1. Head(chan[c]) \in Envelopes /\ Tail(chan[c]) \in Seq(Envelopes)
        /\ Len(Tail(chan[c])) <= Capacity
    BY <1>6 DEF Write
  <2>2. written' \in [Clients -> Seq(Envelopes)]
    BY <1>6, <2>1 DEF Write
  <2>3. chan' \in [Clients -> Seq(Envelopes)] /\ \A d \in Clients : Len(chan'[d]) <= Capacity
    BY <1>6, <2>1 DEF Write
  <2> QED
    BY <1>6, <2>2, <2>3 DEF Write, WriterUnchanged, roomVars
<1>7. ASSUME NEW c \in Clients, WriteFails(c)
      PROVE  TypeOK'
  <2>1. Tail(chan[c]) \in Seq(Envelopes) /\ Len(Tail(chan[c])) <= Capacity
    BY <1>7 DEF WriteFails
  <2>2. chan' \in [Clients -> Seq(Envelopes)] /\ \A d \in Clients : Len(chan'[d]) <= Capacity
    BY <1>7, <2>1 DEF WriteFails
  <2> QED
    BY <1>7, <2>2 DEF WriteFails, WriterUnchanged, roomVars
<1>8. ASSUME NEW c \in Clients, StopWriting(c)
      PROVE  TypeOK'
  BY <1>8 DEF StopWriting, WriterUnchanged, roomVars, sockVars
<1>9. ASSUME NEW c \in Clients, Leave(c)
      PROVE  TypeOK'
  <2>1. PICK env \in Envelopes, targets \in SUBSET Clients, label \in Labels :
            Call(c, env, targets, label)
    BY <1>9, EnvTyped DEF Leave, Types, Labels
  <2>2. call' \in [Goroutines -> Calls] /\ pc' \in [Goroutines -> Labels]
    BY <2>1, ServingTyped DEF Call
  <2> QED
    BY <1>9, <2>2 DEF Leave, LeaveUnchanged, roomVars, sockVars
<1>10. ASSUME NEW c \in Clients, HandOver(c)
       PROVE  TypeOK'
  <2>1. PICK env \in Envelopes, targets \in SUBSET Clients, label \in Labels :
            Call(c, env, targets, label)
    BY <1>10, EnvTyped DEF HandOver, Types, Labels
  <2>2. call' \in [Goroutines -> Calls] /\ pc' \in [Goroutines -> Labels]
    BY <2>1, ServingTyped DEF Call
  <2> QED
    BY <1>10, <2>2 DEF HandOver, LeaveUnchanged, roomVars, sockVars
<1>11. ASSUME NEW c \in Clients, HandedOver(c)
       PROVE  TypeOK'
  <2>1. PICK env \in Envelopes, targets \in SUBSET Clients, label \in Labels :
            Call(c, env, targets, label)
    BY <1>11, EnvTyped DEF HandedOver, Types, Labels
  <2>2. call' \in [Goroutines -> Calls] /\ pc' \in [Goroutines -> Labels]
    BY <2>1, ServingTyped DEF Call
  <2> QED
    BY <1>11, <2>2 DEF HandedOver, LeaveUnchanged, roomVars, sockVars
<1>12. ASSUME NEW c \in Clients, LeaveKicked(c)
       PROVE  TypeOK'
  BY <1>12 DEF LeaveKicked, At, Busy, LeaveUnchanged, roomVars, sockVars
<1>13. ASSUME NEW c \in Clients, HangUp(c)
       PROVE  TypeOK'
  BY <1>13 DEF HangUp, At, Busy, LeaveUnchanged, roomVars, sockVars
<1>14. ASSUME NEW c \in Clients, Break(c)
       PROVE  TypeOK'
  BY <1>14 DEF Break, roomVars, sockVars
<1>15. ASSUME NEW c \in Clients, Ask(c)
       PROVE  TypeOK'
  <2>1. PICK env \in Envelopes, targets \in SUBSET Clients, label \in Labels :
            Call(c, env, targets, label)
    BY <1>15, EnvTyped DEF Ask, Types, Labels
  <2>2. call' \in [Goroutines -> Calls] /\ pc' \in [Goroutines -> Labels]
    BY <2>1, ServingTyped DEF Call
  <2> QED
    BY <1>15, <2>2 DEF Ask, JoinUnchanged, roomVars, sockVars
<1>16. ASSUME NEW c \in Clients, Join(c)
       PROVE  TypeOK'
  <2>1. PICK env \in Envelopes, targets \in SUBSET Clients, label \in Labels :
            Call(c, env, targets, label)
    BY <1>16, EnvTyped DEF Join, Types, Labels
  <2>2. call' \in [Goroutines -> Calls] /\ pc' \in [Goroutines -> Labels]
    BY <2>1, ServingTyped DEF Call
  <2> QED
    BY <1>16, <2>2 DEF Join, JoinUnchanged, roomVars, sockVars
<1>17. ASSUME NEW c \in Clients, StartReading(c)
       PROVE  TypeOK'
  BY <1>17 DEF StartReading, At, Busy, JoinUnchanged, roomVars, sockVars
<1>18. ASSUME NEW c \in Clients, RejectJoin(c)
       PROVE  TypeOK'
  <2>1. chan[c] = <<>>
    BY <1>18 DEF RejectJoin, At, Known
  <2>2. Append(chan[c], Notice("join_rejected")) \in Seq(Envelopes)
        /\ Len(Append(chan[c], Notice("join_rejected"))) = 1
    BY <2>1, EnvTyped
  <2>3. chan' \in [Clients -> Seq(Envelopes)] /\ \A d \in Clients : Len(chan'[d]) <= Capacity
    BY <1>18, <2>2 DEF RejectJoin
  <2> QED
    BY <1>18, <2>3 DEF RejectJoin, At, JoinUnchanged, roomVars, sockVars
<1>19. ASSUME NEW c \in Clients, Relay(c)
       PROVE  TypeOK'
  <2>1. PICK env \in Envelopes, targets \in SUBSET Clients, label \in Labels :
            Call(c, env, targets, label)
    <3>1. PICK type \in {"relay", "presence"},
               targets \in {members \ {c}} \cup {{m} : m \in members} :
               Call(c, Env(type, c, sent[c] + 1), targets, "reading")
      BY <1>19 DEF Relay
    <3>2. sent[c] + 1 \in Nat /\ type \in Types /\ targets \subseteq Clients
      BY SMTT(30) DEF Types
    <3>3. Env(type, c, sent[c] + 1) \in Envelopes
      BY <3>2, EnvTyped
    <3> QED
      BY <3>1, <3>2, <3>3 DEF Labels
  <2>2. call' \in [Goroutines -> Calls] /\ pc' \in [Goroutines -> Labels]
    BY <2>1, ServingTyped DEF Call
  <2> QED
    BY <1>19, <2>2 DEF Relay, ReadUnchanged, roomVars, sockVars
<1>20. ASSUME NEW c \in Clients, Quit(c)
       PROVE  TypeOK'
  BY <1>20 DEF Quit, At, Busy, ReadUnchanged, roomVars, sockVars
<1>21. ASSUME NEW c \in Clients, ReadFails(c)
       PROVE  TypeOK'
  BY <1>21 DEF ReadFails, At, Busy, ReadUnchanged, roomVars, sockVars
<1>22. ASSUME NEW c \in Clients, NEW t \in Clients, Kick(c, t)
       PROVE  TypeOK'
  <2>1. PICK env \in Envelopes, targets \in SUBSET Clients, label \in Labels :
            Call(c, env, targets, label)
    BY <1>22, EnvTyped DEF Kick, Types, Labels
  <2>2. call' \in [Goroutines -> Calls] /\ pc' \in [Goroutines -> Labels]
    BY <2>1, ServingTyped DEF Call
  <2> QED
    BY <1>22, <2>2 DEF Kick, ReadUnchanged, roomVars, sockVars
<1>23. ASSUME NEW c \in Clients, KickShutdown(c)
       PROVE  TypeOK'
  BY <1>23 DEF KickShutdown, At, Busy, ReadUnchanged, roomVars, sockVars
<1>24. ASSUME NEW c \in Clients, KickDelete(c)
       PROVE  TypeOK'
  <2>1. PICK env \in Envelopes, targets \in SUBSET Clients, label \in Labels :
            Call(c, env, targets, label)
    BY <1>24, EnvTyped DEF KickDelete, Types, Labels
  <2>2. call' \in [Goroutines -> Calls] /\ pc' \in [Goroutines -> Labels]
    BY <2>1, ServingTyped DEF Call
  <2> QED
    BY <1>24, <2>2 DEF KickDelete, ReadUnchanged, roomVars, sockVars
<1>25. ASSUME NEW c \in Clients, NEW j \in Jobs, DocUpdate(c, j)
       PROVE  TypeOK'
  <2>1. Serving(Env("relay", c, sent[c] + 1), members \ {c}) \in Calls
    BY EnvTyped, ServingTyped DEF Types
  <2>2. call' \in [Goroutines -> Calls] /\ pc' \in [Goroutines -> Labels]
    BY <1>25, <2>1 DEF DocUpdate, Labels
  <2> QED
    BY <1>25, <2>2 DEF DocUpdate, roomVars, sockVars
<1>26. ASSUME NEW j \in Jobs, RefuseUpdate(j)
       PROVE  TypeOK'
  <2>1. PICK env \in Envelopes, targets \in SUBSET Clients, label \in Labels :
            Call(j, env, targets, label)
    <3>1. owner[j] \in Clients /\ Notice("doc_update_rejected") \in Envelopes
      BY <1>26, EnvTyped DEF RefuseUpdate, At, Known
    <3> QED
      BY <1>26, <3>1 DEF RefuseUpdate
  <2>2. call' \in [Goroutines -> Calls] /\ pc' \in [Goroutines -> Labels]
    BY <2>1, ServingTyped DEF Call
  <2> QED
    BY <1>26, <2>2 DEF RefuseUpdate, JobUnchanged, roomVars, sockVars
<1>27. ASSUME NEW j \in Jobs, broadcastSyncRequest(j)
       PROVE  TypeOK'
  <2>1. PICK env \in Envelopes, targets \in SUBSET Clients, label \in Labels :
            Call(j, env, targets, label)
    BY <1>27, EnvTyped DEF broadcastSyncRequest, Types, Labels
  <2>2. call' \in [Goroutines -> Calls] /\ pc' \in [Goroutines -> Labels]
    BY <2>1, ServingTyped DEF Call
  <2> QED
    BY <1>27, <2>2 DEF broadcastSyncRequest, JobUnchanged, roomVars, sockVars
<1>28. ASSUME NEW j \in Jobs, StoreUpdate(j)
       PROVE  TypeOK'
  <2>1. PICK env \in Envelopes, targets \in SUBSET Clients, label \in Labels :
            Call(j, env, targets, label)
    BY <1>28, EnvTyped DEF StoreUpdate, Types, Labels
  <2>2. call' \in [Goroutines -> Calls] /\ pc' \in [Goroutines -> Labels]
    BY <2>1, ServingTyped DEF Call
  <2> QED
    BY <1>28, <2>2 DEF StoreUpdate, JobUnchanged, roomVars, sockVars
<1>29. CASE UNCHANGED vars
  BY <1>29 DEF vars, roomVars, sockVars
<1> HIDE NoneIsNobody, QueueAssumption DEF TypeOK, Labels
<1> QED
  BY <1>1, <1>2, <1>3, <1>4, <1>5, <1>6, <1>7, <1>8, <1>9, <1>10, <1>11, <1>12, <1>13,
     <1>14, <1>15, <1>16, <1>17, <1>18, <1>19, <1>20, <1>21, <1>22, <1>23, <1>24, <1>25,
     <1>26, <1>27, <1>28, <1>29
     DEF Next, queue, writeLoop, leaveRoom

\* Nobody reaches an outsider's queue.
LEMMA KnownKept ==
    ASSUME TypeOK, Known, [Next]_vars
    PROVE  Known'
<1> USE NoneIsNobody, QueueAssumption DEF TypeOK, Known, Outsider
<1>1. ASSUME NEW g \in Goroutines, Test(g)
      PROVE  Known'
  <2>1. PICK c \in call[g].todo : call[g].to = None
             /\ IF open[c] THEN call' = [call EXCEPT ![g].to = c] ELSE Return(g, c)
    BY <1>1 DEF Test
  <2>2. call[g] \in Calls
    OBVIOUS
  <2>3. call'[g].todo \subseteq call[g].todo /\ call'[g].to \in call'[g].todo \cup {None}
        /\ (call'[g].blocked => call'[g].to # None)
    <3>1. CASE open[c]
      <4>1. call'[g] = [call[g] EXCEPT !.to = c] /\ c \in Clients
        <5>1. call' = [call EXCEPT ![g].to = c]
          BY <2>1, <3>1
        <5>2. call[g].todo \subseteq Clients
          BY <2>2, CallsTyped
        <5> QED
          BY <2>1, <5>1, <5>2
      <4> QED
        BY <2>2, <4>1, CallsTyped
    <3>2. CASE ~open[c]
      BY <2>1, <2>2, <3>2 DEF Return, Serving
    <3> QED
      BY <3>1, <3>2
  <2>4. \A h \in Goroutines \ {g} : call'[h] = call[h]
    BY <2>1 DEF Return
  <2> QED
    BY <1>1, <2>3, <2>4 DEF Test, QueueUnchanged, roomVars
<1>2. ASSUME NEW g \in Goroutines, Put(g)
      PROVE  Known'
  BY <1>2, SMTT(30) DEF Put, Return, Serving, QueueUnchanged, roomVars, sockVars
<1>3. ASSUME NEW g \in Goroutines, Full(g)
      PROVE  Known'
  <2>1. call[g] \in Calls
    OBVIOUS
  <2>2. call'[g].todo \subseteq call[g].todo /\ call'[g].to \in call'[g].todo \cup {None}
        /\ (call'[g].blocked => call'[g].to # None)
    <3>1. CASE isTransient(call[g].env)
      BY <1>3, <2>1, <3>1 DEF Full, Return, Serving
    <3>2. CASE ~isTransient(call[g].env)
      <4>1. call'[g] = [call[g] EXCEPT !.blocked = TRUE] /\ call[g].to # None
        BY <1>3, <3>2 DEF Full
      <4> QED
        BY <2>1, <4>1, CallsTyped
    <3> QED
      BY <3>1, <3>2
  <2>3. \A h \in Goroutines \ {g} : call'[h] = call[h]
    BY <1>3 DEF Full, Return
  <2> QED
    BY <1>3, <2>2, <2>3, ZenonT(40) DEF Full, QueueUnchanged, roomVars
<1>4. ASSUME NEW g \in Goroutines, GiveUp(g)
      PROVE  Known'
  BY <1>4 DEF GiveUp, Return, Serving, QueueUnchanged, roomVars, sockVars
<1>5. ASSUME NEW g \in Goroutines, Panic(g)
      PROVE  Known'
  <2>1. call' = [call EXCEPT ![g] = Quiet] /\ members' = members /\ victim' = victim
        /\ owner' = owner /\ chan' = chan
    BY <1>5 DEF Panic, roomVars
  <2>2. \/ pc[g] \in {"reading", "kicking", "deleting"} /\ pc' = [pc EXCEPT ![g] = "leaving"]
        \/ pc' = [pc EXCEPT ![g] = "dead"]
    BY <1>5 DEF Panic, InReadLoop
  <2>3. \A c \in Goroutines : Outsider(c)' => Outsider(c) /\ pc'[c] = pc[c]
    BY <2>2
  <2>4. call'[g] = Quiet /\ \A h \in Goroutines \ {g} : call'[h] = call[h]
    BY <2>1
  <2>5. Quiet.todo = {} /\ Quiet.to = None /\ Quiet.blocked = FALSE
    BY DEF Quiet, Serving
  <2>6. \A h \in Goroutines :
            /\ \A c \in call'[h].todo : ~Outsider(c)'
            /\ call'[h].to \in call'[h].todo \cup {None}
            /\ call'[h].blocked => call'[h].to # None
    <3> SUFFICES ASSUME NEW h \in Goroutines
                 PROVE  /\ \A c \in call'[h].todo : ~Outsider(c)'
                        /\ call'[h].to \in call'[h].todo \cup {None}
                        /\ call'[h].blocked => call'[h].to # None
      OBVIOUS
    <3>1. CASE h = g
      BY <2>4, <2>5, <3>1
    <3>2. CASE h # g
      <4>1. call'[h] = call[h] /\ call[h].todo \subseteq Clients
        BY <2>4, <3>2, CallsTyped
      <4> QED
        BY <2>3, <4>1
    <3> QED
      BY <3>1, <3>2
  <2>7. ASSUME NEW j \in Jobs
        PROVE  /\ pc'[j] \in {"idle", "storing", "failed", "done", "dead"}
               /\ IF pc'[j] = "idle" THEN call'[j].todo = {}
                  ELSE owner'[j] # None /\ ~Outsider(owner[j])'
    <3>1. CASE j = g
      <4>1. pc'[j] = "dead"
        BY <2>2, <3>1
      <4>2. call[j].todo # {}
        BY <1>5, <3>1 DEF Panic
      <4>3. owner[j] # None /\ ~Outsider(owner[j])
        BY <4>2
      <4> QED
        BY <2>1, <2>3, <4>1, <4>3
    <3>2. CASE j # g
      <4>1. pc'[j] = pc[j] /\ call'[j] = call[j]
        BY <2>2, <2>4, <3>2
      <4> QED
        BY <2>1, <2>3, <4>1
    <3> QED
      BY <3>1, <3>2
  <2>8. \A c \in Clients :
            /\ pc'[c] \in {"kicking", "deleting"} => pc[c] = pc'[c]
            /\ pc'[c] \in {"new", "waiting"} => pc[c] = pc'[c]
    BY <2>2
  <2>9. \A c \in members' : ~Outsider(c)'
    BY <2>1, <2>3
  <2>10. ASSUME NEW c \in Clients
         PROVE  /\ pc'[c] \in {"kicking", "deleting"} => victim'[c] # None
                /\ victim'[c] # None => ~Outsider(victim[c])'
                /\ pc'[c] \in {"new", "waiting"} => chan'[c] = <<>>
    BY <2>1, <2>3, <2>8
  <2> QED
    BY <2>6, <2>7, <2>9, <2>10
<1>6. ASSUME NEW c \in Clients, Write(c)
      PROVE  Known'
  BY <1>6 DEF Write, Remembered, WriterUnchanged, roomVars, sockVars
<1>7. ASSUME NEW c \in Clients, WriteFails(c)
      PROVE  Known'
  BY <1>7 DEF WriteFails, WriterUnchanged, roomVars, sockVars
<1>8. ASSUME NEW c \in Clients, StopWriting(c)
      PROVE  Known'
  BY <1>8 DEF StopWriting, WriterUnchanged, roomVars, sockVars
<1>9. ASSUME NEW c \in Clients, Leave(c)
      PROVE  Known'
  BY <1>9 DEF Leave, Call, Serving, At, Busy, Notice, Env, LeaveUnchanged, roomVars,
     sockVars
<1>10. ASSUME NEW c \in Clients, HandOver(c)
       PROVE  Known'
  BY <1>10, SMTT(30) DEF HandOver, Call, Serving, At, Busy, Notice, Env, LeaveUnchanged,
     roomVars,
     sockVars
<1>11. ASSUME NEW c \in Clients, HandedOver(c)
       PROVE  Known'
  BY <1>11, SMTT(30) DEF HandedOver, Call, Serving, At, Busy, Notice, Env, LeaveUnchanged,
     roomVars,
     sockVars
<1>12. ASSUME NEW c \in Clients, LeaveKicked(c)
       PROVE  Known'
  BY <1>12 DEF LeaveKicked, At, Busy, LeaveUnchanged, roomVars, sockVars
<1>13. ASSUME NEW c \in Clients, HangUp(c)
       PROVE  Known'
  BY <1>13, SMTT(30) DEF HangUp, At, Busy, LeaveUnchanged, roomVars, sockVars
<1>14. ASSUME NEW c \in Clients, Break(c)
       PROVE  Known'
  BY <1>14 DEF Break, roomVars, sockVars
<1>15. ASSUME NEW c \in Clients, Ask(c)
       PROVE  Known'
  BY <1>15 DEF Ask, Call, Serving, At, Busy, Notice, Env, JoinUnchanged, roomVars, sockVars
<1>16. ASSUME NEW c \in Clients, Join(c)
       PROVE  Known'
  BY <1>16 DEF Join, Call, Serving, At, Busy, Notice, Env, JoinUnchanged, roomVars, sockVars
<1>17. ASSUME NEW c \in Clients, StartReading(c)
       PROVE  Known'
  BY <1>17 DEF StartReading, At, Busy, JoinUnchanged, roomVars, sockVars
<1>18. ASSUME NEW c \in Clients, RejectJoin(c)
       PROVE  Known'
  BY <1>18 DEF RejectJoin, At, Busy, Notice, Env, JoinUnchanged, roomVars, sockVars
<1>19. ASSUME NEW c \in Clients, Relay(c)
       PROVE  Known'
  BY <1>19, SMTT(30) DEF Relay, Call, Serving, At, Busy, Env, ReadUnchanged, roomVars,
     sockVars
<1>20. ASSUME NEW c \in Clients, Quit(c)
       PROVE  Known'
  BY <1>20 DEF Quit, At, Busy, ReadUnchanged, roomVars, sockVars
<1>21. ASSUME NEW c \in Clients, ReadFails(c)
       PROVE  Known'
  BY <1>21 DEF ReadFails, At, Busy, ReadUnchanged, roomVars, sockVars
<1>22. ASSUME NEW c \in Clients, NEW t \in Clients, Kick(c, t)
       PROVE  Known'
  BY <1>22, SMTT(30) DEF Kick, Call, Serving, At, Busy, Notice, Env, ReadUnchanged,
     roomVars, sockVars
<1>23. ASSUME NEW c \in Clients, KickShutdown(c)
       PROVE  Known'
  BY <1>23, SMTT(30) DEF KickShutdown, At, Busy, ReadUnchanged, roomVars, sockVars
<1>24. ASSUME NEW c \in Clients, KickDelete(c)
       PROVE  Known'
  BY <1>24, SMTT(30) DEF KickDelete, Call, Serving, At, Busy, Notice, Env, ReadUnchanged,
     roomVars,
     sockVars
<1>25. ASSUME NEW c \in Clients, NEW j \in Jobs, DocUpdate(c, j)
       PROVE  Known'
  BY <1>25, SMTT(30) DEF DocUpdate, Serving, At, Busy, Env, roomVars, sockVars
<1>26. ASSUME NEW j \in Jobs, RefuseUpdate(j)
       PROVE  Known'
  BY <1>26, SMTT(30) DEF RefuseUpdate, Call, Serving, At, Busy, Notice, Env, JobUnchanged,
     roomVars,
     sockVars
<1>27. ASSUME NEW j \in Jobs, broadcastSyncRequest(j)
       PROVE  Known'
  BY <1>27 DEF broadcastSyncRequest, Call, Serving, At, Busy, Notice, Env, JobUnchanged,
     roomVars, sockVars
<1>28. ASSUME NEW j \in Jobs, StoreUpdate(j)
       PROVE  Known'
  BY <1>28 DEF StoreUpdate, Call, Serving, At, Busy, Notice, Env, JobUnchanged, roomVars,
     sockVars
<1>29. CASE UNCHANGED vars
  BY <1>29 DEF vars, roomVars, sockVars
<1> HIDE NoneIsNobody, QueueAssumption DEF TypeOK, Known, Outsider
<1> QED
  BY <1>1, <1>2, <1>3, <1>4, <1>5, <1>6, <1>7, <1>8, <1>9, <1>10, <1>11, <1>12, <1>13,
     <1>14, <1>15, <1>16, <1>17, <1>18, <1>19, <1>20, <1>21, <1>22, <1>23, <1>24, <1>25,
     <1>26, <1>27, <1>28, <1>29
     DEF Next, queue, writeLoop, leaveRoom

-----------------------------------------------------------------------------
(* The order of the messages *)

\* What s has of the sender f comes before message n of f.
Below(s, f, n) == \A i \in 1..Len(s) : s[i].from = f => s[i].n < n

Increasing(s) == \A i, k \in 1..Len(s) :
    i < k /\ s[i].from # None /\ s[i].from = s[k].from => s[i].n < s[k].n

\* Every message of q comes after those its sender has in w.
After(w, q) == \A k \in 1..Len(q) : q[k].from # None => Below(w, q[k].from, q[k].n)

LEMMA BelowMore ==
    ASSUME NEW s \in Seq(Envelopes), NEW f, NEW n \in Nat, NEW m \in Nat, n <= m, Below(s, f, n)
    PROVE  Below(s, f, m)
<1> SUFFICES ASSUME NEW i \in 1..Len(s), s[i].from = f
             PROVE  s[i].n < m
  BY DEF Below
<1>1. s[i] \in Envelopes
  OBVIOUS
<1>2. s[i].n \in Nat /\ s[i].n < n
  BY <1>1 DEF Envelopes, Below
<1> QED
  BY <1>2

LEMMA AppendProperties ==
    ASSUME NEW s \in Seq(Envelopes), NEW e \in Envelopes
    PROVE  /\ Append(s, e) \in Seq(Envelopes) /\ Len(Append(s, e)) = Len(s) + 1
           /\ \A i \in 1..Len(s) : Append(s, e)[i] = s[i]
           /\ Append(s, e)[Len(s) + 1] = e
OBVIOUS

LEMMA TailProperties ==
    ASSUME NEW s \in Seq(Envelopes), s # <<>>
    PROVE  /\ Tail(s) \in Seq(Envelopes) /\ Len(Tail(s)) = Len(s) - 1 /\ Len(s) \in Nat \ {0}
           /\ \A i \in 1..Len(Tail(s)) : Tail(s)[i] = s[i + 1] /\ i + 1 \in 1..Len(s)
           /\ Head(s) = s[1] /\ Head(s) \in Envelopes
OBVIOUS

LEMMA AppendBelow ==
    ASSUME NEW s \in Seq(Envelopes), NEW e \in Envelopes, NEW f, NEW n \in Nat,
           Below(s, f, n), e.from = f => e.n < n
    PROVE  Below(Append(s, e), f, n)
BY AppendProperties DEF Below

LEMMA TailBelow ==
    ASSUME NEW s \in Seq(Envelopes), s # <<>>, NEW f, NEW n \in Nat, Below(s, f, n)
    PROVE  Below(Tail(s), f, n) /\ (Head(s).from = f => Head(s).n < n)
BY TailProperties DEF Below

LEMMA AppendIncreasing ==
    ASSUME NEW s \in Seq(Envelopes), NEW e \in Envelopes, Increasing(s),
           e.from # None => Below(s, e.from, e.n)
    PROVE  Increasing(Append(s, e))
BY AppendProperties DEF Increasing, Below

LEMMA TailIncreasing ==
    ASSUME NEW s \in Seq(Envelopes), s # <<>>, Increasing(s)
    PROVE  /\ Increasing(Tail(s))
           /\ \A k \in 1..Len(Tail(s)) :
                Tail(s)[k].from # None /\ Tail(s)[k].from = Head(s).from => Head(s).n < Tail(s)[k].n
<1>1. Increasing(Tail(s))
  BY TailProperties DEF Increasing
<1>2. ASSUME NEW k \in 1..Len(Tail(s)), Tail(s)[k].from # None, Tail(s)[k].from = Head(s).from
      PROVE  Head(s).n < Tail(s)[k].n
  BY <1>2, TailProperties DEF Increasing
<1> QED
  BY <1>1, <1>2

LEMMA AppendAfter ==
    ASSUME NEW w \in Seq(Envelopes), NEW q \in Seq(Envelopes), NEW e \in Envelopes, After(w, q),
           e.from # None => Below(w, e.from, e.n)
    PROVE  After(w, Append(q, e))
BY AppendProperties DEF After

LEMMA TailAfter ==
    ASSUME NEW w \in Seq(Envelopes), NEW q \in Seq(Envelopes), q # <<>>, After(w, q)
    PROVE  After(w, Tail(q)) /\ (Head(q).from # None => Below(w, Head(q).from, Head(q).n))
BY TailProperties DEF After

\* A message moves from the head of q to the end of w.
LEMMA MoveAfter ==
    ASSUME NEW w \in Seq(Envelopes), NEW q \in Seq(Envelopes), q # <<>>, After(w, q), Increasing(q)
    PROVE  After(Append(w, Head(q)), Tail(q))
<1> SUFFICES ASSUME NEW k \in 1..Len(Tail(q)), Tail(q)[k].from # None
             PROVE  Below(Append(w, Head(q)), Tail(q)[k].from, Tail(q)[k].n)
  BY DEF After
<1>1. After(w, Tail(q)) /\ Tail(q) \in Seq(Envelopes) /\ Head(q) \in Envelopes
  BY TailAfter, TailProperties
<1>2. Below(w, Tail(q)[k].from, Tail(q)[k].n)
  BY <1>1 DEF After
<1>3. Head(q).from = Tail(q)[k].from => Head(q).n < Tail(q)[k].n
  BY TailIncreasing
<1>4. Tail(q)[k] \in Envelopes
  BY <1>1
<1>5. Tail(q)[k].n \in Nat
  BY <1>4 DEF Envelopes
<1> QED
  BY <1>1, <1>2, <1>3, <1>5, AppendBelow

\* What a connection is passing on is its latest message.
Latest == \A g \in Goroutines :
    call[g].todo # {} /\ call[g].env.from # None =>
        g \in Clients /\ call[g].env.from = g /\ call[g].env.n = sent[g]

Orderly == \A c \in Clients :
    /\ Increasing(written[c]) /\ Increasing(chan[c]) /\ After(written[c], chan[c])
    /\ \A x \in Clients : Below(written[c], x, sent[x] + 1) /\ Below(chan[c], x, sent[x] + 1)
    /\ \A x \in Clients : c \in call[x].todo /\ call[x].env.from = x =>
          Below(written[c], x, call[x].env.n) /\ Below(chan[c], x, call[x].env.n)

-----------------------------------------------------------------------------
(* What the steps do to the messages *)

\* No message moves, and no connection begins to pass one on.
Keeps ==
    /\ written' = written /\ chan' = chan /\ sent' = sent
    /\ \A g \in Goroutines : call'[g].todo # {} /\ call'[g].env.from # None =>
          call'[g].env = call[g].env /\ call'[g].todo \subseteq call[g].todo

\* A message is read from the socket of c, to be passed on or, a kick, to be obeyed.
Sends(c) ==
    /\ written' = written /\ chan' = chan
    /\ sent' = [sent EXCEPT ![c] = @ + 1]
    /\ \A g \in Goroutines \ {c} : call'[g] = call[g]
    /\ call'[c].env.from # None => call'[c].env.from = c /\ call'[c].env.n = sent[c] + 1

Kind ==
    \/ Keeps
    \/ \E c \in Clients : Sends(c) \/ Write(c) \/ WriteFails(c) \/ RejectJoin(c)
    \/ \E g \in Goroutines : Put(g)

\* Every step is of one of these kinds.
LEMMA Kinds ==
    ASSUME TypeOK, [Next]_vars
    PROVE  Kind
<1> USE NoneIsNobody DEF TypeOK
<1>1. ASSUME NEW g \in Goroutines, Test(g)
      PROVE  Kind
  <2>1. PICK c \in call[g].todo :
             IF open[c] THEN call' = [call EXCEPT ![g].to = c] ELSE Return(g, c)
    BY <1>1 DEF Test
  <2>2. call[g] \in Calls /\ c \in Clients
    BY CallsTyped
  <2>3. CASE open[c]
    <3>1. call'[g] = [call[g] EXCEPT !.to = c] /\ \A h \in Goroutines \ {g} : call'[h] = call[h]
      BY <2>1, <2>3
    <3>2. call'[g].env = call[g].env /\ call'[g].todo = call[g].todo
      BY <2>2, <3>1, CallsTyped
    <3> QED
      BY <1>1, <3>1, <3>2 DEF Test, QueueUnchanged, sockVars, Kind, Keeps
  <2>4. CASE ~open[c]
    <3>1. call'[g] = Serving(call[g].env, call[g].todo \ {c})
          /\ \A h \in Goroutines \ {g} : call'[h] = call[h]
      BY <2>1, <2>4 DEF Return
    <3>2. call'[g].env = call[g].env /\ call'[g].todo \subseteq call[g].todo
      BY <3>1 DEF Serving
    <3> QED
      BY <1>1, <3>1, <3>2 DEF Test, QueueUnchanged, sockVars, Kind, Keeps
  <2> QED
    BY <2>3, <2>4
<1>2. ASSUME NEW g \in Goroutines, Put(g)
      PROVE  Kind
  BY <1>2 DEF Kind
<1>3. ASSUME NEW g \in Goroutines, Full(g)
      PROVE  Kind
  <2>1. CASE isTransient(call[g].env)
    <3>1. call'[g] = Serving(call[g].env, call[g].todo \ {call[g].to})
          /\ \A h \in Goroutines \ {g} : call'[h] = call[h]
      BY <1>3, <2>1 DEF Full, Return
    <3>2. call'[g].env = call[g].env /\ call'[g].todo \subseteq call[g].todo
      BY <3>1 DEF Serving
    <3> QED
      BY <1>3, <3>1, <3>2 DEF Full, QueueUnchanged, sockVars, Kind, Keeps
  <2>2. CASE ~isTransient(call[g].env)
    <3>1. call'[g] = [call[g] EXCEPT !.blocked = TRUE] /\ call[g] \in Calls
          /\ \A h \in Goroutines \ {g} : call'[h] = call[h]
      BY <1>3, <2>2 DEF Full
    <3>2. call'[g].env = call[g].env /\ call'[g].todo = call[g].todo
      BY <3>1, CallsTyped
    <3> QED
      BY <1>3, <3>1, <3>2 DEF Full, QueueUnchanged, sockVars, Kind, Keeps
  <2> QED
    BY <2>1, <2>2
<1>4. ASSUME NEW g \in Goroutines, GiveUp(g)
      PROVE  Kind
  BY <1>4 DEF GiveUp, Return, Serving, QueueUnchanged, roomVars, sockVars, Kind, Keeps
<1>5. ASSUME NEW g \in Goroutines, Panic(g)
      PROVE  Kind
  BY <1>5 DEF Panic, Quiet, Serving, Notice, Env, InReadLoop, roomVars, sockVars, Kind,
     Keeps
<1>6. ASSUME NEW c \in Clients, Write(c)
      PROVE  Kind
  BY <1>6 DEF Kind
<1>7. ASSUME NEW c \in Clients, WriteFails(c)
      PROVE  Kind
  BY <1>7 DEF Kind
<1>8. ASSUME NEW c \in Clients, StopWriting(c)
      PROVE  Kind
  BY <1>8 DEF StopWriting, WriterUnchanged, roomVars, sockVars, Kind, Keeps
<1>9. ASSUME NEW c \in Clients, Leave(c)
      PROVE  Kind
  BY <1>9 DEF Leave, Call, Serving, At, Busy, Notice, Env, LeaveUnchanged, roomVars,
     sockVars, Kind, Keeps
<1>10. ASSUME NEW c \in Clients, HandOver(c)
       PROVE  Kind
  BY <1>10 DEF HandOver, Call, Serving, At, Busy, Notice, Env, LeaveUnchanged, roomVars,
     sockVars, Kind, Keeps
<1>11. ASSUME NEW c \in Clients, HandedOver(c)
       PROVE  Kind
  BY <1>11 DEF HandedOver, Call, Serving, At, Busy, Notice, Env, LeaveUnchanged, roomVars,
     sockVars, Kind, Keeps
<1>12. ASSUME NEW c \in Clients, LeaveKicked(c)
       PROVE  Kind
  BY <1>12 DEF LeaveKicked, At, Busy, LeaveUnchanged, roomVars, sockVars, Kind, Keeps
<1>13. ASSUME NEW c \in Clients, HangUp(c)
       PROVE  Kind
  BY <1>13 DEF HangUp, At, Busy, LeaveUnchanged, roomVars, sockVars, Kind, Keeps
<1>14. ASSUME NEW c \in Clients, Break(c)
       PROVE  Kind
  BY <1>14 DEF Break, roomVars, sockVars, Kind, Keeps
<1>15. ASSUME NEW c \in Clients, Ask(c)
       PROVE  Kind
  BY <1>15 DEF Ask, Call, Serving, At, Busy, Notice, Env, JoinUnchanged, roomVars, sockVars,
     Kind, Keeps
<1>16. ASSUME NEW c \in Clients, Join(c)
       PROVE  Kind
  BY <1>16 DEF Join, Call, Serving, At, Busy, Notice, Env, JoinUnchanged, roomVars,
     sockVars, Kind, Keeps
<1>17. ASSUME NEW c \in Clients, StartReading(c)
       PROVE  Kind
  BY <1>17 DEF StartReading, At, Busy, JoinUnchanged, roomVars, sockVars, Kind, Keeps
<1>18. ASSUME NEW c \in Clients, RejectJoin(c)
       PROVE  Kind
  BY <1>18 DEF Kind
<1>19. ASSUME NEW c \in Clients, Relay(c)
       PROVE  Kind
  <2>1. Sends(c)
    BY <1>19 DEF Sends, Relay, Call, Serving, At, Busy, Env, ReadUnchanged, roomVars,
       sockVars, Kind, Keeps
  <2> QED
    BY <2>1 DEF Kind
<1>20. ASSUME NEW c \in Clients, Quit(c)
       PROVE  Kind
  BY <1>20 DEF Quit, At, Busy, ReadUnchanged, roomVars, sockVars, Kind, Keeps
<1>21. ASSUME NEW c \in Clients, ReadFails(c)
       PROVE  Kind
  BY <1>21 DEF ReadFails, At, Busy, ReadUnchanged, roomVars, sockVars, Kind, Keeps
<1>22. ASSUME NEW c \in Clients, NEW t \in Clients, Kick(c, t)
       PROVE  Kind
  <2>1. Sends(c)
    BY <1>22 DEF Sends, Kick, Call, Serving, At, Busy, Notice, Env, ReadUnchanged, roomVars,
       sockVars, Kind, Keeps
  <2> QED
    BY <2>1 DEF Kind
<1>23. ASSUME NEW c \in Clients, KickShutdown(c)
       PROVE  Kind
  BY <1>23 DEF KickShutdown, At, Busy, ReadUnchanged, roomVars, sockVars, Kind, Keeps
<1>24. ASSUME NEW c \in Clients, KickDelete(c)
       PROVE  Kind
  BY <1>24 DEF KickDelete, Call, Serving, At, Busy, Notice, Env, ReadUnchanged, roomVars,
     sockVars, Kind, Keeps
<1>25. ASSUME NEW c \in Clients, NEW j \in Jobs, DocUpdate(c, j)
       PROVE  Kind
  <2>1. Sends(c)
    BY <1>25 DEF Sends, DocUpdate, Serving, At, Busy, Env, roomVars, sockVars, Kind, Keeps
  <2> QED
    BY <2>1 DEF Kind
<1>26. ASSUME NEW j \in Jobs, RefuseUpdate(j)
       PROVE  Kind
  BY <1>26 DEF RefuseUpdate, Call, Serving, At, Busy, Notice, Env, JobUnchanged, roomVars,
     sockVars, Kind, Keeps
<1>27. ASSUME NEW j \in Jobs, broadcastSyncRequest(j)
       PROVE  Kind
  BY <1>27 DEF broadcastSyncRequest, Call, Serving, At, Busy, Notice, Env, JobUnchanged,
     roomVars, sockVars, Kind, Keeps
<1>28. ASSUME NEW j \in Jobs, StoreUpdate(j)
       PROVE  Kind
  BY <1>28 DEF StoreUpdate, Call, Serving, At, Busy, Notice, Env, JobUnchanged, roomVars,
     sockVars, Kind, Keeps
<1>29. CASE UNCHANGED vars
  BY <1>29 DEF vars, sockVars, Kind, Keeps
<1> HIDE NoneIsNobody DEF TypeOK
<1> QED
  BY <1>1, <1>2, <1>3, <1>4, <1>5, <1>6, <1>7, <1>8, <1>9, <1>10, <1>11, <1>12, <1>13,
     <1>14, <1>15, <1>16, <1>17, <1>18, <1>19, <1>20, <1>21, <1>22, <1>23, <1>24, <1>25,
     <1>26, <1>27, <1>28, <1>29
     DEF Next, queue, writeLoop, leaveRoom

LEMMA NoticeFrom == \A type : Notice(type) \in Envelopes /\ Notice(type).from = None
BY EnvTyped DEF Notice, Env

\* Every kind of step keeps the order.
LEMMA OrderKept ==
    ASSUME TypeOK, Known, Latest, Orderly, Kind
    PROVE  Latest' /\ Orderly'
<1> USE NoneIsNobody
<1>t. /\ \A c \in Clients : written[c] \in Seq(Envelopes) /\ chan[c] \in Seq(Envelopes)
      /\ \A c \in Clients : sent[c] \in Nat
      /\ \A g \in Goroutines : call[g] \in Calls /\ call[g].env \in Envelopes
                               /\ call[g].env.n \in Nat /\ call[g].todo \subseteq Clients
      /\ call \in [Goroutines -> Calls] /\ sent \in [Clients -> Nat]
      /\ chan \in [Clients -> Seq(Envelopes)] /\ written \in [Clients -> Seq(Envelopes)]
  BY CallsTyped DEF TypeOK, Envelopes
<1>1. CASE Keeps
  <2>1. Latest'
    BY <1>1 DEF Keeps, Latest
  <2>2. Orderly'
    <3> SUFFICES ASSUME NEW c \in Clients, NEW x \in Clients, c \in call'[x].todo,
                        call'[x].env.from = x
                 PROVE  Below(written[c], x, call'[x].env.n) /\ Below(chan[c], x, call'[x].env.n)
      BY <1>1 DEF Keeps, Orderly
    <3>1. call'[x].env = call[x].env /\ c \in call[x].todo
      BY <1>1 DEF Keeps
    <3> QED
      BY <3>1 DEF Orderly
  <2> QED
    BY <2>1, <2>2
<1>2. ASSUME NEW s \in Clients, Sends(s)
      PROVE  Latest' /\ Orderly'
  <2>1. /\ written' = written /\ chan' = chan /\ sent'[s] = sent[s] + 1
        /\ \A x \in Clients \ {s} : sent'[x] = sent[x]
        /\ \A g \in Goroutines \ {s} : call'[g] = call[g]
        /\ call'[s].env.from # None => call'[s].env.from = s /\ call'[s].env.n = sent[s] + 1
    BY <1>2, <1>t DEF Sends
  <2>2. Latest'
    BY <2>1 DEF Latest
  <2>3. ASSUME NEW c \in Clients, NEW x \in Clients
        PROVE  Below(written[c], x, sent'[x] + 1) /\ Below(chan[c], x, sent'[x] + 1)
    <3>1. Below(written[c], x, sent[x] + 1) /\ Below(chan[c], x, sent[x] + 1)
      BY DEF Orderly
    <3>2. sent'[x] + 1 \in Nat /\ sent[x] + 1 \in Nat /\ sent[x] + 1 <= sent'[x] + 1
      <4>1. CASE x = s
        BY <2>1, <1>t, <4>1
      <4>2. CASE x # s
        BY <2>1, <1>t, <4>2
      <4> QED
        BY <4>1, <4>2
    <3> QED
      BY <3>1, <3>2, <1>t, BelowMore
  <2>4. ASSUME NEW c \in Clients, NEW x \in Clients, c \in call'[x].todo, call'[x].env.from = x
        PROVE  Below(written[c], x, call'[x].env.n) /\ Below(chan[c], x, call'[x].env.n)
    <3>1. CASE x = s
      BY <3>1, <2>1, <2>4 DEF Orderly
    <3>2. CASE x # s
      BY <3>2, <2>1, <2>4 DEF Orderly
    <3> QED
      BY <3>1, <3>2
  <2> QED
    BY <2>1, <2>2, <2>3, <2>4 DEF Orderly
<1>3. ASSUME NEW d \in Clients, Write(d) \/ WriteFails(d)
      PROVE  Latest' /\ Orderly'
  <2>1. /\ chan[d] # <<>> /\ chan'[d] = Tail(chan[d])
        /\ \A c \in Clients \ {d} : chan'[c] = chan[c] /\ written'[c] = written[c]
        /\ written'[d] = written[d] \/ written'[d] = Append(written[d], Head(chan[d]))
        /\ sent' = sent /\ call' = call
    BY <1>3, <1>t DEF Write, WriteFails, WriterUnchanged
  <2>2. Latest'
    BY <2>1 DEF Latest
  <2>3. /\ Increasing(written[d]) /\ Increasing(chan[d]) /\ After(written[d], chan[d])
        /\ written[d] \in Seq(Envelopes) /\ chan[d] \in Seq(Envelopes)
        /\ Head(chan[d]) \in Envelopes
    BY <1>t, <2>1, TailProperties DEF Orderly
  <2>4. Increasing(written'[d]) /\ Increasing(chan'[d]) /\ After(written'[d], chan'[d])
    <3>1. Increasing(Tail(chan[d])) /\ After(written[d], Tail(chan[d]))
          /\ After(Append(written[d], Head(chan[d])), Tail(chan[d]))
      BY <2>1, <2>3, TailIncreasing, TailAfter, MoveAfter
    <3>2. Increasing(Append(written[d], Head(chan[d])))
      BY <2>1, <2>3, TailAfter, AppendIncreasing
    <3> QED
      BY <2>1, <2>3, <3>1, <3>2
  <2>5. ASSUME NEW x, NEW n \in Nat, Below(written[d], x, n), Below(chan[d], x, n)
        PROVE  Below(written'[d], x, n) /\ Below(chan'[d], x, n)
    BY <2>1, <2>3, <2>5, TailBelow, AppendBelow
  <2>6. ASSUME NEW c \in Clients, NEW x, NEW n \in Nat, Below(written[c], x, n), Below(chan[c], x, n)
        PROVE  Below(written'[c], x, n) /\ Below(chan'[c], x, n)
    BY <2>1, <2>5, <2>6
  <2>7. \A x \in Clients : sent[x] + 1 \in Nat
    BY <1>t
  <2>8. \A c, x \in Clients : Below(written'[c], x, sent'[x] + 1) /\ Below(chan'[c], x, sent'[x] + 1)
    BY <2>1, <2>6, <2>7 DEF Orderly
  <2>9. \A c, x \in Clients : c \in call'[x].todo /\ call'[x].env.from = x =>
            Below(written'[c], x, call'[x].env.n) /\ Below(chan'[c], x, call'[x].env.n)
    BY <1>t, <2>1, <2>6 DEF Orderly
  <2>10. \A c \in Clients :
            Increasing(written'[c]) /\ Increasing(chan'[c]) /\ After(written'[c], chan'[c])
    BY <2>1, <2>4 DEF Orderly
  <2> QED
    BY <2>2, <2>8, <2>9, <2>10 DEF Orderly
<1>4. ASSUME NEW d \in Clients, RejectJoin(d)
      PROVE  Latest' /\ Orderly'
  <2> DEFINE e == Notice("join_rejected")
  <2>1. /\ chan'[d] = Append(chan[d], e)
        /\ \A c \in Clients \ {d} : chan'[c] = chan[c]
        /\ written' = written /\ sent' = sent /\ call' = call
    BY <1>4, <1>t DEF RejectJoin, JoinUnchanged, sockVars
  <2>2. e \in Envelopes /\ e.from = None
    BY NoticeFrom
  <2>3. Latest'
    BY <2>1 DEF Latest
  <2> HIDE DEF e
  <2>4. Increasing(chan'[d]) /\ After(written[d], chan'[d])
    BY <1>t, <2>1, <2>2, AppendIncreasing, AppendAfter DEF Orderly
  <2>5. ASSUME NEW x \in Clients, NEW n \in Nat, Below(chan[d], x, n)
        PROVE  Below(chan'[d], x, n)
    BY <1>t, <2>1, <2>2, <2>5, AppendBelow
  <2>6. ASSUME NEW c \in Clients, NEW x \in Clients, NEW n \in Nat, Below(chan[c], x, n)
        PROVE  Below(chan'[c], x, n)
    BY <2>1, <2>5, <2>6
  <2>7. \A x \in Clients : sent[x] + 1 \in Nat
    BY <1>t
  <2>8. \A c, x \in Clients : Below(written'[c], x, sent'[x] + 1) /\ Below(chan'[c], x, sent'[x] + 1)
    BY <2>1, <2>6, <2>7 DEF Orderly
  <2>9. \A c, x \in Clients : c \in call'[x].todo /\ call'[x].env.from = x =>
            Below(written'[c], x, call'[x].env.n) /\ Below(chan'[c], x, call'[x].env.n)
    BY <1>t, <2>1, <2>6 DEF Orderly
  <2>10. \A c \in Clients :
            Increasing(written'[c]) /\ Increasing(chan'[c]) /\ After(written'[c], chan'[c])
    BY <2>1, <2>4 DEF Orderly
  <2> QED
    BY <2>3, <2>8, <2>9, <2>10 DEF Orderly
<1>5. ASSUME NEW g \in Goroutines, Put(g)
      PROVE  Latest' /\ Orderly'
  <2> DEFINE d == call[g].to
             e == call[g].env
  <2>1. d \in Clients /\ d \in call[g].todo /\ e \in Envelopes
    BY <1>5, <1>t DEF Put, Known
  <2>2. /\ chan'[d] = Append(chan[d], e)
        /\ \A c \in Clients \ {d} : chan'[c] = chan[c]
        /\ written' = written /\ sent' = sent
        /\ call'[g] = Serving(e, call[g].todo \ {d})
        /\ \A h \in Goroutines \ {g} : call'[h] = call[h]
    BY <1>5, <1>t, <2>1 DEF Put, Return, QueueUnchanged, sockVars
  <2> HIDE DEF d, e
  <2>3. call'[g].env = e /\ call'[g].todo = call[g].todo \ {d} /\ e = call[g].env
    BY <2>2 DEF Serving, e
  <2>4. Latest'
    <3> SUFFICES ASSUME NEW h \in Goroutines, call'[h].todo # {}, call'[h].env.from # None
                 PROVE  h \in Clients /\ call'[h].env.from = h /\ call'[h].env.n = sent[h]
      BY <2>2 DEF Latest
    <3>1. call'[h].env = call[h].env /\ call[h].todo # {}
      BY <2>2, <2>3
    <3> QED
      BY <3>1 DEF Latest
  <2>5. e.from # None => /\ g \in Clients /\ e.from = g /\ e.n = sent[g]
                         /\ Below(written[d], g, e.n) /\ Below(chan[d], g, e.n)
    BY <2>1, <2>3 DEF Latest, Orderly
  <2>6. Increasing(chan'[d]) /\ After(written[d], chan'[d])
    BY <1>t, <2>1, <2>2, <2>5, AppendIncreasing, AppendAfter DEF Orderly
  <2>7. ASSUME NEW x \in Clients
        PROVE  Below(chan'[d], x, sent[x] + 1)
    <3>1. Below(chan[d], x, sent[x] + 1) /\ sent[x] + 1 \in Nat
      BY <1>t, <2>1 DEF Orderly
    <3>2. e.from = x => e.n < sent[x] + 1
      BY <1>t, <2>5
    <3> QED
      BY <1>t, <2>1, <2>2, <3>1, <3>2, AppendBelow
  <2>8. \A c, x \in Clients : Below(written'[c], x, sent'[x] + 1) /\ Below(chan'[c], x, sent'[x] + 1)
    BY <2>2, <2>7 DEF Orderly
  <2>9. ASSUME NEW c \in Clients, NEW x \in Clients, c \in call'[x].todo, call'[x].env.from = x
        PROVE  Below(written'[c], x, call'[x].env.n) /\ Below(chan'[c], x, call'[x].env.n)
    <3>1. call'[x].env = call[x].env /\ c \in call[x].todo
      BY <2>2, <2>3, <2>9
    <3>2. Below(written[c], x, call[x].env.n) /\ Below(chan[c], x, call[x].env.n)
      BY <2>9, <3>1 DEF Orderly
    <3>3. CASE c = d
      <4>1. x # g
        BY <2>3, <2>9, <3>3
      <4>2. e.from # x
        BY <2>5, <4>1
      <4>3. call[x].env.n \in Nat
        BY <1>t
      <4>4. Below(Append(chan[d], e), x, call[x].env.n)
        BY <1>t, <2>1, <3>2, <3>3, <4>2, <4>3, AppendBelow
      <4> QED
        BY <2>2, <3>1, <3>2, <3>3, <4>4
    <3>4. CASE c # d
      BY <2>2, <3>1, <3>2, <3>4
    <3> QED
      BY <3>3, <3>4
  <2>10. \A c \in Clients :
            Increasing(written'[c]) /\ Increasing(chan'[c]) /\ After(written'[c], chan'[c])
    BY <2>2, <2>6 DEF Orderly
  <2> QED
    BY <2>4, <2>8, <2>9, <2>10 DEF Orderly
<1> QED
  BY <1>1, <1>2, <1>3, <1>4, <1>5 DEF Kind

\* What is written and what is still in the channel are in order, one after the other.
LEMMA OrderlyIsOrdered ==
    ASSUME TypeOK, Orderly
    PROVE  SenderOrder
<1> SUFFICES ASSUME NEW c \in Clients, NEW i \in 1..Len(Received(c)), NEW k \in 1..Len(Received(c)),
                    i < k, Received(c)[i].from # None,
                    Received(c)[i].from = Received(c)[k].from
             PROVE  Received(c)[i].n < Received(c)[k].n
  BY DEF SenderOrder
<1> DEFINE w == written[c]
           q == chan[c]
<1>1. w \in Seq(Envelopes) /\ q \in Seq(Envelopes) /\ Increasing(w) /\ Increasing(q) /\ After(w, q)
  BY DEF TypeOK, Orderly
<1>2. Received(c) = w \o q
  BY DEF Received
<1> HIDE DEF w, q
<1>3. /\ Len(Received(c)) = Len(w) + Len(q) /\ Len(w) \in Nat /\ Len(q) \in Nat
      /\ \A l \in 1..Len(Received(c)) :
            Received(c)[l] = IF l <= Len(w) THEN w[l] ELSE q[l - Len(w)]
  BY <1>1, <1>2
<1>4. CASE k <= Len(w)
  BY <1>1, <1>3, <1>4 DEF Increasing
<1>5. CASE i > Len(w)
  <2>1. i - Len(w) \in 1..Len(q) /\ k - Len(w) \in 1..Len(q) /\ i - Len(w) < k - Len(w)
    BY <1>3, <1>5
  <2>2. Received(c)[i] = q[i - Len(w)] /\ Received(c)[k] = q[k - Len(w)]
    BY <1>3, <1>5
  <2> QED
    BY <1>1, <2>1, <2>2 DEF Increasing
<1>6. CASE i <= Len(w) /\ k > Len(w)
  <2>1. i \in 1..Len(w) /\ k - Len(w) \in 1..Len(q)
    BY <1>3, <1>6
  <2>2. Received(c)[i] = w[i] /\ Received(c)[k] = q[k - Len(w)]
    BY <1>3, <1>6
  <2> QED
    BY <1>1, <2>1, <2>2 DEF After, Below
<1> QED
  BY <1>3, <1>4, <1>5, <1>6

-----------------------------------------------------------------------------
(* Who is kicked is told *)

\* s has a peer_kicked.
Kicked(s) == \E i \in 1..Len(s) : s[i].type = "peer_kicked"

Pending(t) == Kicked(written[t]) \/ Kicked(chan[t])

\* The queue of a member is shut down when it has its peer_kicked, and its
\* connection is closed when that has been written.
Warned ==
    /\ \A t \in Clients \ excused :
        /\ pc[t] \in {"new", "waiting"} => open[t] /\ conn[t] = "up"
        /\ ~Outsider(t) /\ ~open[t] => Pending(t)
        /\ ~Outsider(t) /\ conn[t] # "up" => Kicked(written[t])
        /\ pc[t] \in {"leaving", "handing", "returning", "done", "dead"} => Kicked(written[t])
    /\ \A g \in Goroutines : call[g].todo # {} /\ call[g].env.type = "peer_kicked" =>
        g \in Clients /\ pc[g] = "kicking"
    /\ \A c \in Clients : pc[c] = "kicking" =>
        IF call[c].todo # {}
        THEN call[c].env.type = "peer_kicked" /\ call[c].todo = {victim[c]}
        ELSE victim[c] \in excused \/ Pending(victim[c])

LEMMA KickedSequences ==
    ASSUME NEW s \in Seq(Envelopes), NEW e \in Envelopes
    PROVE  /\ Kicked(s) => Kicked(Append(s, e))
           /\ e.type = "peer_kicked" => Kicked(Append(s, e))
           /\ s # <<>> /\ Kicked(s) => Kicked(Tail(s)) \/ Head(s).type = "peer_kicked"
           /\ ~Kicked(<<>>)
<1>1. Kicked(s) => Kicked(Append(s, e))
  <2>1. \A i \in 1..Len(s) : i \in 1..(Len(s) + 1)
    OBVIOUS
  <2> QED
    BY <2>1, AppendProperties DEF Kicked
<1>2. e.type = "peer_kicked" => Kicked(Append(s, e))
  <2>1. Len(s) + 1 \in 1..(Len(s) + 1)
    OBVIOUS
  <2> QED
    BY <2>1, AppendProperties DEF Kicked
<1>3. ASSUME s # <<>>, Kicked(s), Head(s).type # "peer_kicked"
      PROVE  Kicked(Tail(s))
  <2>1. PICK i \in 1..Len(s) : s[i].type = "peer_kicked"
    BY <1>3 DEF Kicked
  <2>2. i - 1 \in 1..Len(Tail(s)) /\ (i - 1) + 1 = i
    BY <1>3, <2>1, TailProperties
  <2>3. Tail(s)[i - 1].type = "peer_kicked"
    BY <1>3, <2>1, <2>2, TailProperties
  <2> QED
    BY <2>2, <2>3 DEF Kicked
<1>4. ~Kicked(<<>>)
  BY DEF Kicked
<1> QED
  BY <1>1, <1>2, <1>3, <1>4

LEMMA NoticeType ==
    /\ \A type : Notice(type) \in Envelopes /\ (Notice(type).type = "peer_kicked" => type = "peer_kicked")
    /\ Notice("peer_kicked").type = "peer_kicked"
BY EnvTyped DEF Notice, Env

\* No step closes a queue, or a connection, unannounced.
LEMMA WarnedKept ==
    ASSUME TypeOK, Known, Warned, [Next]_vars
    PROVE  Warned'
<1> USE NoneIsNobody DEF TypeOK, Known, Outsider, Warned, Pending
<1>1. ASSUME NEW g \in Goroutines, Test(g)
      PROVE  Warned'
  <2>1. PICK c \in call[g].todo : call[g].to = None
             /\ IF open[c] THEN call' = [call EXCEPT ![g].to = c] ELSE Return(g, c)
    BY <1>1 DEF Test
  <2>2. call[g] \in Calls /\ c \in Clients
    BY CallsTyped
  <2>3. CASE open[c]
    <3>1. call'[g] = [call[g] EXCEPT !.to = c] /\ \A h \in Goroutines \ {g} : call'[h] = call[h]
      BY <2>1, <2>3
    <3>2. call'[g].env = call[g].env /\ call'[g].todo = call[g].todo
      BY <2>2, <3>1, CallsTyped
    <3>3. \A h \in Goroutines : call'[h].env = call[h].env /\ call'[h].todo = call[h].todo
      BY <3>1, <3>2
    <3>a. ASSUME NEW m \in Clients, m \notin excused'
         PROVE  /\ pc'[m] \in {"new", "waiting"} => open'[m] /\ conn'[m] = "up"
                /\ ~Outsider(m)' /\ ~open'[m] => Pending(m)'
                /\ ~Outsider(m)' /\ conn'[m] # "up" => Kicked(written'[m])
                /\ pc'[m] \in {"leaving", "handing", "returning", "done", "dead"} => Kicked(written'[m])
      BY <3>a, <1>1, <3>3 DEF Test, QueueUnchanged, sockVars
    <3>b. ASSUME NEW h \in Goroutines, call'[h].todo # {}, call'[h].env.type = "peer_kicked"
         PROVE  h \in Clients /\ pc'[h] = "kicking"
      <4>1. call[h].todo # {} /\ call[h].env.type = "peer_kicked" /\ pc'[h] = pc[h]
        BY <3>b, <1>1, <3>3 DEF Test, QueueUnchanged, sockVars
      <4> QED
        BY <4>1
    <3>c. ASSUME NEW k \in Clients, pc'[k] = "kicking"
         PROVE  IF call'[k].todo # {}
                THEN call'[k].env.type = "peer_kicked" /\ call'[k].todo = {victim'[k]}
                ELSE victim'[k] \in excused' \/ Pending(victim[k])'
      <4>1. pc[k] = "kicking" /\ victim'[k] = victim[k]
        BY <3>c, <1>1, <3>3 DEF Test, QueueUnchanged, sockVars
      <4>2. victim[k] \in Clients /\ ~Outsider(victim[k])
        BY <4>1
      <4>3. IF call[k].todo # {} THEN call[k].env.type = "peer_kicked" /\ call[k].todo = {victim[k]}
              ELSE victim[k] \in excused \/ Pending(victim[k])
        BY <4>1
      <4>4. victim[k] \in excused \/ Pending(victim[k]) => victim[k] \in excused' \/ Pending(victim[k])'
        BY <4>2, <1>1, <3>3 DEF Test, QueueUnchanged, sockVars
      <4> HIDE DEF Pending, TypeOK, Known, Warned, Outsider
      <4> QED
        BY <3>c, <4>1, <4>2, <4>3, <4>4, <1>1, <3>3 DEF Test, QueueUnchanged, sockVars
    <3> QED
      BY <3>a, <3>b, <3>c
  <2>4. CASE ~open[c]
    <3>1. call'[g] = Serving(call[g].env, call[g].todo \ {c})
          /\ \A h \in Goroutines \ {g} : call'[h] = call[h]
      BY <2>1, <2>4 DEF Return
    <3>2. call'[g].env = call[g].env /\ call'[g].todo = call[g].todo \ {c}
      BY <3>1 DEF Serving
    <3>3. c \in excused \/ Pending(c)
      BY <2>2, <2>4
    <3>a. ASSUME NEW m \in Clients, m \notin excused'
         PROVE  /\ pc'[m] \in {"new", "waiting"} => open'[m] /\ conn'[m] = "up"
                /\ ~Outsider(m)' /\ ~open'[m] => Pending(m)'
                /\ ~Outsider(m)' /\ conn'[m] # "up" => Kicked(written'[m])
                /\ pc'[m] \in {"leaving", "handing", "returning", "done", "dead"} => Kicked(written'[m])
      BY <3>a, <1>1, <2>1, <3>1, <3>2, <3>3 DEF Test, QueueUnchanged, sockVars
    <3>b. ASSUME NEW h \in Goroutines, call'[h].todo # {}, call'[h].env.type = "peer_kicked"
         PROVE  h \in Clients /\ pc'[h] = "kicking"
      <4>1. call[h].todo # {} /\ call[h].env.type = "peer_kicked" /\ pc'[h] = pc[h]
        BY <3>b, <1>1, <2>1, <3>1, <3>2, <3>3 DEF Test, QueueUnchanged, sockVars
      <4> QED
        BY <4>1
    <3>c. ASSUME NEW k \in Clients, pc'[k] = "kicking"
         PROVE  IF call'[k].todo # {}
                THEN call'[k].env.type = "peer_kicked" /\ call'[k].todo = {victim'[k]}
                ELSE victim'[k] \in excused' \/ Pending(victim[k])'
      <4>1. pc[k] = "kicking" /\ victim'[k] = victim[k]
        BY <3>c, <1>1, <2>1, <3>1, <3>2, <3>3 DEF Test, QueueUnchanged, sockVars
      <4>2. victim[k] \in Clients /\ ~Outsider(victim[k])
        BY <4>1
      <4>3. IF call[k].todo # {} THEN call[k].env.type = "peer_kicked" /\ call[k].todo = {victim[k]}
              ELSE victim[k] \in excused \/ Pending(victim[k])
        BY <4>1
      <4>4. victim[k] \in excused \/ Pending(victim[k]) => victim[k] \in excused' \/ Pending(victim[k])'
        BY <4>2, <1>1, <2>1, <3>1, <3>2, <3>3 DEF Test, QueueUnchanged, sockVars
      <4> HIDE DEF Pending, TypeOK, Known, Warned, Outsider
      <4> QED
        BY <3>c, <4>1, <4>2, <4>3, <4>4, <1>1, <2>1, <3>1, <3>2, <3>3 DEF Test,
           QueueUnchanged, sockVars
    <3> QED
      BY <3>a, <3>b, <3>c
  <2> QED
    BY <2>3, <2>4
<1>2. ASSUME NEW g \in Goroutines, Put(g)
      PROVE  Warned'
  <2> DEFINE d == call[g].to
  <2>1. d \in Clients /\ d \in call[g].todo /\ call[g] \in Calls /\ call[g].env \in Envelopes
        /\ chan[d] \in Seq(Envelopes)
    BY <1>2, CallsTyped, ZenonT(40) DEF Put
  <2>2. /\ chan'[d] = Append(chan[d], call[g].env)
        /\ \A c \in Clients \ {d} : chan'[c] = chan[c]
        /\ call'[g] = Serving(call[g].env, call[g].todo \ {d})
        /\ \A h \in Goroutines \ {g} : call'[h] = call[h]
        /\ written' = written /\ pc' = pc /\ victim' = victim /\ open' = open /\ conn' = conn
        /\ excused' = excused
    BY <1>2, <2>1 DEF Put, Return, QueueUnchanged, sockVars
  <2> HIDE DEF d
  <2>3. call'[g].env = call[g].env /\ call'[g].todo = call[g].todo \ {d}
    BY <2>2 DEF Serving
  <2>4. /\ Kicked(chan[d]) => Kicked(chan'[d])
        /\ call[g].env.type = "peer_kicked" => Kicked(chan'[d])
    BY <2>1, <2>2, KickedSequences
  <2>5. \A c \in Clients : Pending(c) \/ (c = d /\ call[g].env.type = "peer_kicked") => Pending(c)'
    BY <2>2, <2>4
  <2>a. ASSUME NEW m \in Clients, m \notin excused'
       PROVE  /\ pc'[m] \in {"new", "waiting"} => open'[m] /\ conn'[m] = "up"
              /\ ~Outsider(m)' /\ ~open'[m] => Pending(m)'
              /\ ~Outsider(m)' /\ conn'[m] # "up" => Kicked(written'[m])
              /\ pc'[m] \in {"leaving", "handing", "returning", "done", "dead"} => Kicked(written'[m])
    BY <2>a, <2>1, <2>2, <2>3, <2>4, <2>5
  <2>b. ASSUME NEW h \in Goroutines, call'[h].todo # {}, call'[h].env.type = "peer_kicked"
       PROVE  h \in Clients /\ pc'[h] = "kicking"
    <3>1. call[h].todo # {} /\ call[h].env.type = "peer_kicked" /\ pc'[h] = pc[h]
      BY <2>b, <2>1, <2>2, <2>3, <2>4, <2>5
    <3> QED
      BY <3>1
  <2>c. ASSUME NEW k \in Clients, pc'[k] = "kicking"
       PROVE  IF call'[k].todo # {}
              THEN call'[k].env.type = "peer_kicked" /\ call'[k].todo = {victim'[k]}
              ELSE victim'[k] \in excused' \/ Pending(victim[k])'
    <3>1. pc[k] = "kicking" /\ victim'[k] = victim[k]
      BY <2>c, <2>1, <2>2, <2>3, <2>4, <2>5
    <3>2. victim[k] \in Clients /\ ~Outsider(victim[k])
      BY <3>1
    <3>3. IF call[k].todo # {} THEN call[k].env.type = "peer_kicked" /\ call[k].todo = {victim[k]}
            ELSE victim[k] \in excused \/ Pending(victim[k])
      BY <3>1
    <3>4. victim[k] \in excused \/ Pending(victim[k]) => victim[k] \in excused' \/ Pending(victim[k])'
      BY <3>2, <2>1, <2>2, <2>3, <2>4, <2>5
    <3> HIDE DEF Pending, TypeOK, Known, Warned, Outsider
    <3> QED
      BY <2>c, <3>1, <3>2, <3>3, <3>4, <2>1, <2>2, <2>3, <2>4, <2>5
  <2> QED
    BY <2>a, <2>b, <2>c
<1>3. ASSUME NEW g \in Goroutines, Full(g)
      PROVE  Warned'
  <2>1. CASE isTransient(call[g].env)
    <3>1. call'[g] = Serving(call[g].env, call[g].todo \ {call[g].to})
          /\ \A h \in Goroutines \ {g} : call'[h] = call[h]
      BY <1>3, <2>1 DEF Full, Return
    <3>2. call'[g].env = call[g].env /\ call'[g].todo \subseteq call[g].todo
          /\ call[g].env.type # "peer_kicked"
      BY <2>1, <3>1 DEF Serving, isTransient
    <3>3. call[g].todo # {} /\ (g \in Clients => pc[g] # "kicking")
      BY <1>3, <3>2 DEF Full
    <3>a. ASSUME NEW m \in Clients, m \notin excused'
         PROVE  /\ pc'[m] \in {"new", "waiting"} => open'[m] /\ conn'[m] = "up"
                /\ ~Outsider(m)' /\ ~open'[m] => Pending(m)'
                /\ ~Outsider(m)' /\ conn'[m] # "up" => Kicked(written'[m])
                /\ pc'[m] \in {"leaving", "handing", "returning", "done", "dead"} => Kicked(written'[m])
      BY <3>a, <1>3, <3>1, <3>2, <3>3 DEF Full, QueueUnchanged, sockVars
    <3>b. ASSUME NEW h \in Goroutines, call'[h].todo # {}, call'[h].env.type = "peer_kicked"
         PROVE  h \in Clients /\ pc'[h] = "kicking"
      <4>1. call[h].todo # {} /\ call[h].env.type = "peer_kicked" /\ pc'[h] = pc[h]
        BY <3>b, <1>3, <3>1, <3>2, <3>3 DEF Full, QueueUnchanged, sockVars
      <4> QED
        BY <4>1
    <3>c. ASSUME NEW k \in Clients, pc'[k] = "kicking"
         PROVE  IF call'[k].todo # {}
                THEN call'[k].env.type = "peer_kicked" /\ call'[k].todo = {victim'[k]}
                ELSE victim'[k] \in excused' \/ Pending(victim[k])'
      <4>1. pc[k] = "kicking" /\ victim'[k] = victim[k]
        BY <3>c, <1>3, <3>1, <3>2, <3>3 DEF Full, QueueUnchanged, sockVars
      <4>2. victim[k] \in Clients /\ ~Outsider(victim[k])
        BY <4>1
      <4>3. IF call[k].todo # {} THEN call[k].env.type = "peer_kicked" /\ call[k].todo = {victim[k]}
              ELSE victim[k] \in excused \/ Pending(victim[k])
        BY <4>1
      <4>4. victim[k] \in excused \/ Pending(victim[k]) => victim[k] \in excused' \/ Pending(victim[k])'
        BY <4>2, <1>3, <3>1, <3>2, <3>3 DEF Full, QueueUnchanged, sockVars
      <4> HIDE DEF Pending, TypeOK, Known, Warned, Outsider
      <4> QED
        BY <3>c, <4>1, <4>2, <4>3, <4>4, <1>3, <3>1, <3>2, <3>3 DEF Full, QueueUnchanged,
           sockVars
    <3> QED
      BY <3>a, <3>b, <3>c
  <2>2. CASE ~isTransient(call[g].env)
    <3>1. call'[g] = [call[g] EXCEPT !.blocked = TRUE] /\ call[g] \in Calls
          /\ \A h \in Goroutines \ {g} : call'[h] = call[h]
      BY <1>3, <2>2 DEF Full
    <3>2. call'[g].env = call[g].env /\ call'[g].todo = call[g].todo
      BY <3>1, CallsTyped
    <3>3. \A h \in Goroutines : call'[h].env = call[h].env /\ call'[h].todo = call[h].todo
      BY <3>1, <3>2
    <3>a. ASSUME NEW m \in Clients, m \notin excused'
         PROVE  /\ pc'[m] \in {"new", "waiting"} => open'[m] /\ conn'[m] = "up"
                /\ ~Outsider(m)' /\ ~open'[m] => Pending(m)'
                /\ ~Outsider(m)' /\ conn'[m] # "up" => Kicked(written'[m])
                /\ pc'[m] \in {"leaving", "handing", "returning", "done", "dead"} => Kicked(written'[m])
      BY <3>a, <1>3, <3>3 DEF Full, QueueUnchanged, sockVars
    <3>b. ASSUME NEW h \in Goroutines, call'[h].todo # {}, call'[h].env.type = "peer_kicked"
         PROVE  h \in Clients /\ pc'[h] = "kicking"
      <4>1. call[h].todo # {} /\ call[h].env.type = "peer_kicked" /\ pc'[h] = pc[h]
        BY <3>b, <1>3, <3>3 DEF Full, QueueUnchanged, sockVars
      <4> QED
        BY <4>1
    <3>c. ASSUME NEW k \in Clients, pc'[k] = "kicking"
         PROVE  IF call'[k].todo # {}
                THEN call'[k].env.type = "peer_kicked" /\ call'[k].todo = {victim'[k]}
                ELSE victim'[k] \in excused' \/ Pending(victim[k])'
      <4>1. pc[k] = "kicking" /\ victim'[k] = victim[k]
        BY <3>c, <1>3, <3>3 DEF Full, QueueUnchanged, sockVars
      <4>2. victim[k] \in Clients /\ ~Outsider(victim[k])
        BY <4>1
      <4>3. IF call[k].todo # {} THEN call[k].env.type = "peer_kicked" /\ call[k].todo = {victim[k]}
              ELSE victim[k] \in excused \/ Pending(victim[k])
        BY <4>1
      <4>4. victim[k] \in excused \/ Pending(victim[k]) => victim[k] \in excused' \/ Pending(victim[k])'
        BY <4>2, <1>3, <3>3 DEF Full, QueueUnchanged, sockVars
      <4> HIDE DEF Pending, TypeOK, Known, Warned, Outsider
      <4> QED
        BY <3>c, <4>1, <4>2, <4>3, <4>4, <1>3, <3>3 DEF Full, QueueUnchanged, sockVars
    <3> QED
      BY <3>a, <3>b, <3>c
  <2> QED
    BY <2>1, <2>2
<1>4. ASSUME NEW g \in Goroutines, GiveUp(g)
      PROVE  Warned'
  <2> DEFINE d == call[g].to
  <2>1. d \in Clients /\ d \in call[g].todo
    BY <1>4, CallsTyped, ZenonT(40) DEF GiveUp
  <2>2. /\ call'[g] = Serving(call[g].env, call[g].todo \ {d})
        /\ \A h \in Goroutines \ {g} : call'[h] = call[h]
        /\ written' = written /\ chan' = chan /\ pc' = pc /\ victim' = victim /\ open' = open
        /\ conn' = conn /\ excused \subseteq excused'
        /\ call[g].env.type = "peer_kicked" => d \in excused'
    BY <1>4, <2>1 DEF GiveUp, Return, QueueUnchanged, sockVars
  <2> HIDE DEF d
  <2>3. call'[g].env = call[g].env /\ call'[g].todo = call[g].todo \ {d}
    BY <2>2 DEF Serving
  <2>a. ASSUME NEW m \in Clients, m \notin excused'
       PROVE  /\ pc'[m] \in {"new", "waiting"} => open'[m] /\ conn'[m] = "up"
              /\ ~Outsider(m)' /\ ~open'[m] => Pending(m)'
              /\ ~Outsider(m)' /\ conn'[m] # "up" => Kicked(written'[m])
              /\ pc'[m] \in {"leaving", "handing", "returning", "done", "dead"} => Kicked(written'[m])
    BY <2>a, <2>1, <2>2, <2>3
  <2>b. ASSUME NEW h \in Goroutines, call'[h].todo # {}, call'[h].env.type = "peer_kicked"
       PROVE  h \in Clients /\ pc'[h] = "kicking"
    <3>1. call[h].todo # {} /\ call[h].env.type = "peer_kicked" /\ pc'[h] = pc[h]
      BY <2>b, <2>1, <2>2, <2>3
    <3> QED
      BY <3>1
  <2>c. ASSUME NEW k \in Clients, pc'[k] = "kicking"
       PROVE  IF call'[k].todo # {}
              THEN call'[k].env.type = "peer_kicked" /\ call'[k].todo = {victim'[k]}
              ELSE victim'[k] \in excused' \/ Pending(victim[k])'
    <3>1. pc[k] = "kicking" /\ victim'[k] = victim[k]
      BY <2>c, <2>1, <2>2, <2>3
    <3>2. victim[k] \in Clients /\ ~Outsider(victim[k])
      BY <3>1
    <3>3. IF call[k].todo # {} THEN call[k].env.type = "peer_kicked" /\ call[k].todo = {victim[k]}
            ELSE victim[k] \in excused \/ Pending(victim[k])
      BY <3>1
    <3>4. victim[k] \in excused \/ Pending(victim[k]) => victim[k] \in excused' \/ Pending(victim[k])'
      BY <3>2, <2>1, <2>2, <2>3
    <3> HIDE DEF Pending, TypeOK, Known, Warned, Outsider
    <3> QED
      BY <2>c, <3>1, <3>2, <3>3, <3>4, <2>1, <2>2, <2>3
  <2> QED
    BY <2>a, <2>b, <2>c
<1>5. ASSUME NEW g \in Goroutines, Panic(g)
      PROVE  Warned'
  <2>1. /\ call'[g] = Quiet /\ \A h \in Goroutines \ {g} : call'[h] = call[h]
        /\ victim' = victim /\ written' = written /\ chan' = chan
        /\ excused' = excused \cup ({g} \cap Clients)
        /\ pc'[g] \in {"leaving", "dead"} /\ \A h \in Goroutines \ {g} : pc'[h] = pc[h]
        /\ \A c \in Clients \ {g} : open'[c] = open[c] /\ conn'[c] = conn[c]
    BY <1>5 DEF Panic
  <2>2. Quiet.todo = {}
    BY DEF Quiet, Serving
  <2>a. ASSUME NEW m \in Clients, m \notin excused'
       PROVE  /\ pc'[m] \in {"new", "waiting"} => open'[m] /\ conn'[m] = "up"
              /\ ~Outsider(m)' /\ ~open'[m] => Pending(m)'
              /\ ~Outsider(m)' /\ conn'[m] # "up" => Kicked(written'[m])
              /\ pc'[m] \in {"leaving", "handing", "returning", "done", "dead"} => Kicked(written'[m])
    BY <2>a, <2>1, <2>2
  <2>b. ASSUME NEW h \in Goroutines, call'[h].todo # {}, call'[h].env.type = "peer_kicked"
       PROVE  h \in Clients /\ pc'[h] = "kicking"
    <3>1. call[h].todo # {} /\ call[h].env.type = "peer_kicked" /\ pc'[h] = pc[h]
      BY <2>b, <2>1, <2>2, ZenonT(40)
    <3> QED
      BY <3>1
  <2>c. ASSUME NEW k \in Clients, pc'[k] = "kicking"
       PROVE  IF call'[k].todo # {}
              THEN call'[k].env.type = "peer_kicked" /\ call'[k].todo = {victim'[k]}
              ELSE victim'[k] \in excused' \/ Pending(victim[k])'
    <3>1. pc[k] = "kicking" /\ victim'[k] = victim[k]
      BY <2>c, <2>1, <2>2
    <3>2. victim[k] \in Clients /\ ~Outsider(victim[k])
      BY <3>1
    <3>3. IF call[k].todo # {} THEN call[k].env.type = "peer_kicked" /\ call[k].todo = {victim[k]}
            ELSE victim[k] \in excused \/ Pending(victim[k])
      BY <3>1
    <3>4. victim[k] \in excused \/ Pending(victim[k]) => victim[k] \in excused' \/ Pending(victim[k])'
      BY <3>2, <2>1, <2>2
    <3> HIDE DEF Pending, TypeOK, Known, Warned, Outsider
    <3> QED
      BY <2>c, <3>1, <3>2, <3>3, <3>4, <2>1, <2>2
  <2> QED
    BY <2>a, <2>b, <2>c
<1>6. ASSUME NEW c \in Clients, Write(c)
      PROVE  Warned'
  <2>1. /\ chan[c] # <<>> /\ chan'[c] = Tail(chan[c])
        /\ written'[c] = (IF Remembered(Head(chan[c])) THEN Append(written[c], Head(chan[c]))
                          ELSE written[c])
        /\ \A d \in Clients \ {c} : chan'[d] = chan[d] /\ written'[d] = written[d]
        /\ pc' = pc /\ call' = call /\ victim' = victim /\ open' = open /\ conn' = conn
        /\ excused' = excused
    BY <1>6 DEF Write, WriterUnchanged
  <2>2. chan[c] \in Seq(Envelopes) /\ written[c] \in Seq(Envelopes) /\ Head(chan[c]) \in Envelopes
    BY <2>1, TailProperties
  <2>3. Kicked(written[c]) => Kicked(written'[c])
    BY <2>1, <2>2, KickedSequences
  <2>4. Head(chan[c]).type = "peer_kicked" => Kicked(written'[c])
    BY <2>1, <2>2, KickedSequences DEF Remembered
  <2>5. Kicked(chan[c]) => Kicked(chan'[c]) \/ Kicked(written'[c])
    BY <2>1, <2>2, <2>4, KickedSequences
  <2>6. \A d \in Clients : /\ Kicked(written[d]) => Kicked(written'[d])
                           /\ Pending(d) => Pending(d)'
    BY <2>1, <2>3, <2>5
  <2>a. ASSUME NEW m \in Clients, m \notin excused'
       PROVE  /\ pc'[m] \in {"new", "waiting"} => open'[m] /\ conn'[m] = "up"
              /\ ~Outsider(m)' /\ ~open'[m] => Pending(m)'
              /\ ~Outsider(m)' /\ conn'[m] # "up" => Kicked(written'[m])
              /\ pc'[m] \in {"leaving", "handing", "returning", "done", "dead"} => Kicked(written'[m])
    BY <2>a, <2>1, <2>6
  <2>b. ASSUME NEW h \in Goroutines, call'[h].todo # {}, call'[h].env.type = "peer_kicked"
       PROVE  h \in Clients /\ pc'[h] = "kicking"
    <3>1. call[h].todo # {} /\ call[h].env.type = "peer_kicked" /\ pc'[h] = pc[h]
      BY <2>b, <2>1, <2>6
    <3> QED
      BY <3>1
  <2>c. ASSUME NEW k \in Clients, pc'[k] = "kicking"
       PROVE  IF call'[k].todo # {}
              THEN call'[k].env.type = "peer_kicked" /\ call'[k].todo = {victim'[k]}
              ELSE victim'[k] \in excused' \/ Pending(victim[k])'
    <3>1. pc[k] = "kicking" /\ victim'[k] = victim[k]
      BY <2>c, <2>1, <2>6
    <3>2. victim[k] \in Clients /\ ~Outsider(victim[k])
      BY <3>1
    <3>3. IF call[k].todo # {} THEN call[k].env.type = "peer_kicked" /\ call[k].todo = {victim[k]}
            ELSE victim[k] \in excused \/ Pending(victim[k])
      BY <3>1
    <3>4. victim[k] \in excused \/ Pending(victim[k]) => victim[k] \in excused' \/ Pending(victim[k])'
      BY <3>2, <2>1, <2>6
    <3> HIDE DEF Pending, TypeOK, Known, Warned, Outsider
    <3> QED
      BY <2>c, <3>1, <3>2, <3>3, <3>4, <2>1, <2>6
  <2> QED
    BY <2>a, <2>b, <2>c
<1>7. ASSUME NEW c \in Clients, WriteFails(c)
      PROVE  Warned'
  <2>1. /\ conn[c] # "up" /\ conn'[c] # "up"
        /\ \A d \in Clients \ {c} : chan'[d] = chan[d] /\ conn'[d] = conn[d]
        /\ pc' = pc /\ call' = call /\ victim' = victim /\ open' = open
        /\ written' = written /\ excused' = excused
    BY <1>7 DEF WriteFails, WriterUnchanged
  <2>2. \A d \in Clients \ excused : ~Outsider(d) /\ Pending(d) => Pending(d)'
    BY <2>1
  <2>a. ASSUME NEW m \in Clients, m \notin excused'
       PROVE  /\ pc'[m] \in {"new", "waiting"} => open'[m] /\ conn'[m] = "up"
              /\ ~Outsider(m)' /\ ~open'[m] => Pending(m)'
              /\ ~Outsider(m)' /\ conn'[m] # "up" => Kicked(written'[m])
              /\ pc'[m] \in {"leaving", "handing", "returning", "done", "dead"} => Kicked(written'[m])
    BY <2>a, <2>1, <2>2
  <2>b. ASSUME NEW h \in Goroutines, call'[h].todo # {}, call'[h].env.type = "peer_kicked"
       PROVE  h \in Clients /\ pc'[h] = "kicking"
    <3>1. call[h].todo # {} /\ call[h].env.type = "peer_kicked" /\ pc'[h] = pc[h]
      BY <2>b, <2>1, <2>2, ZenonT(40)
    <3> QED
      BY <3>1
  <2>c. ASSUME NEW k \in Clients, pc'[k] = "kicking"
       PROVE  IF call'[k].todo # {}
              THEN call'[k].env.type = "peer_kicked" /\ call'[k].todo = {victim'[k]}
              ELSE victim'[k] \in excused' \/ Pending(victim[k])'
    <3>1. pc[k] = "kicking" /\ victim'[k] = victim[k]
      BY <2>c, <2>1, <2>2
    <3>2. victim[k] \in Clients /\ ~Outsider(victim[k])
      BY <3>1
    <3>3. IF call[k].todo # {} THEN call[k].env.type = "peer_kicked" /\ call[k].todo = {victim[k]}
            ELSE victim[k] \in excused \/ Pending(victim[k])
      BY <3>1
    <3>4. victim[k] \in excused \/ Pending(victim[k]) => victim[k] \in excused' \/ Pending(victim[k])'
      BY <3>2, <2>1, <2>2
    <3> HIDE DEF Pending, TypeOK, Known, Warned, Outsider
    <3> QED
      BY <2>c, <3>1, <3>2, <3>3, <3>4, <2>1, <2>2
  <2> QED
    BY <2>a, <2>b, <2>c
<1>8. ASSUME NEW c \in Clients, StopWriting(c)
      PROVE  Warned'
  <2>1. /\ chan[c] = <<>> /\ ~open[c] /\ written' = written /\ chan' = chan
        /\ \A d \in Clients \ {c} : conn'[d] = conn[d]
        /\ pc' = pc /\ call' = call /\ victim' = victim /\ open' = open /\ excused' = excused
    BY <1>8 DEF StopWriting, WriterUnchanged
  <2>2. ~Kicked(chan[c])
    BY <2>1, EnvTyped, KickedSequences
  <2>a. ASSUME NEW m \in Clients, m \notin excused'
       PROVE  /\ pc'[m] \in {"new", "waiting"} => open'[m] /\ conn'[m] = "up"
              /\ ~Outsider(m)' /\ ~open'[m] => Pending(m)'
              /\ ~Outsider(m)' /\ conn'[m] # "up" => Kicked(written'[m])
              /\ pc'[m] \in {"leaving", "handing", "returning", "done", "dead"} => Kicked(written'[m])
    BY <2>a, <2>1, <2>2
  <2>b. ASSUME NEW h \in Goroutines, call'[h].todo # {}, call'[h].env.type = "peer_kicked"
       PROVE  h \in Clients /\ pc'[h] = "kicking"
    <3>1. call[h].todo # {} /\ call[h].env.type = "peer_kicked" /\ pc'[h] = pc[h]
      BY <2>b, <2>1, <2>2, ZenonT(40)
    <3> QED
      BY <3>1
  <2>c. ASSUME NEW k \in Clients, pc'[k] = "kicking"
       PROVE  IF call'[k].todo # {}
              THEN call'[k].env.type = "peer_kicked" /\ call'[k].todo = {victim'[k]}
              ELSE victim'[k] \in excused' \/ Pending(victim[k])'
    <3>1. pc[k] = "kicking" /\ victim'[k] = victim[k]
      BY <2>c, <2>1, <2>2
    <3>2. victim[k] \in Clients /\ ~Outsider(victim[k])
      BY <3>1
    <3>3. IF call[k].todo # {} THEN call[k].env.type = "peer_kicked" /\ call[k].todo = {victim[k]}
            ELSE victim[k] \in excused \/ Pending(victim[k])
      BY <3>1
    <3>4. victim[k] \in excused \/ Pending(victim[k]) => victim[k] \in excused' \/ Pending(victim[k])'
      BY <3>2, <2>1, <2>2
    <3> HIDE DEF Pending, TypeOK, Known, Warned, Outsider
    <3> QED
      BY <2>c, <3>1, <3>2, <3>3, <3>4, <2>1, <2>2
  <2> QED
    BY <2>a, <2>b, <2>c
<1>9. ASSUME NEW c \in Clients, Leave(c)
      PROVE  Warned'
  BY <1>9 DEF Leave, Call, Serving, At, Busy, Notice, Env, LeaveUnchanged, roomVars,
     sockVars
<1>10. ASSUME NEW c \in Clients, HandOver(c)
       PROVE  Warned'
  BY <1>10 DEF HandOver, Call, Serving, At, Busy, Notice, Env, LeaveUnchanged, roomVars,
     sockVars
<1>11. ASSUME NEW c \in Clients, HandedOver(c)
       PROVE  Warned'
  BY <1>11 DEF HandedOver, Call, Serving, At, Busy, Notice, Env, LeaveUnchanged, roomVars,
     sockVars
<1>12. ASSUME NEW c \in Clients, LeaveKicked(c)
       PROVE  Warned'
  BY <1>12 DEF LeaveKicked, At, Busy, LeaveUnchanged, roomVars, sockVars
<1>13. ASSUME NEW c \in Clients, HangUp(c)
       PROVE  Warned'
  <2>a. ASSUME NEW m \in Clients, m \notin excused'
       PROVE  /\ pc'[m] \in {"new", "waiting"} => open'[m] /\ conn'[m] = "up"
              /\ ~Outsider(m)' /\ ~open'[m] => Pending(m)'
              /\ ~Outsider(m)' /\ conn'[m] # "up" => Kicked(written'[m])
              /\ pc'[m] \in {"leaving", "handing", "returning", "done", "dead"} => Kicked(written'[m])
    BY <2>a, <1>13 DEF HangUp, At, Busy, LeaveUnchanged, roomVars, sockVars
  <2>b. ASSUME NEW h \in Goroutines, call'[h].todo # {}, call'[h].env.type = "peer_kicked"
       PROVE  h \in Clients /\ pc'[h] = "kicking"
    <3>1. call[h].todo # {} /\ call[h].env.type = "peer_kicked" /\ pc'[h] = pc[h]
      BY <2>b, <1>13 DEF HangUp, At, Busy, LeaveUnchanged, roomVars, sockVars
    <3> QED
      BY <3>1
  <2>c. ASSUME NEW k \in Clients, pc'[k] = "kicking"
       PROVE  IF call'[k].todo # {}
              THEN call'[k].env.type = "peer_kicked" /\ call'[k].todo = {victim'[k]}
              ELSE victim'[k] \in excused' \/ Pending(victim[k])'
    <3>1. pc[k] = "kicking" /\ victim'[k] = victim[k]
      BY <2>c, <1>13 DEF HangUp, At, Busy, LeaveUnchanged, roomVars, sockVars
    <3>2. victim[k] \in Clients /\ ~Outsider(victim[k])
      BY <3>1
    <3>3. IF call[k].todo # {} THEN call[k].env.type = "peer_kicked" /\ call[k].todo = {victim[k]}
            ELSE victim[k] \in excused \/ Pending(victim[k])
      BY <3>1
    <3>4. victim[k] \in excused \/ Pending(victim[k]) => victim[k] \in excused' \/ Pending(victim[k])'
      BY <3>2, <1>13 DEF HangUp, At, Busy, LeaveUnchanged, roomVars, sockVars
    <3> HIDE DEF Pending, TypeOK, Known, Warned, Outsider
    <3> QED
      BY <2>c, <3>1, <3>2, <3>3, <3>4, <1>13 DEF HangUp, At, Busy, LeaveUnchanged, roomVars,
         sockVars
  <2> QED
    BY <2>a, <2>b, <2>c
<1>14. ASSUME NEW c \in Clients, Break(c)
       PROVE  Warned'
  <2>a. ASSUME NEW m \in Clients, m \notin excused'
       PROVE  /\ pc'[m] \in {"new", "waiting"} => open'[m] /\ conn'[m] = "up"
              /\ ~Outsider(m)' /\ ~open'[m] => Pending(m)'
              /\ ~Outsider(m)' /\ conn'[m] # "up" => Kicked(written'[m])
              /\ pc'[m] \in {"leaving", "handing", "returning", "done", "dead"} => Kicked(written'[m])
    BY <2>a, <1>14 DEF Break, roomVars, sockVars
  <2>b. ASSUME NEW h \in Goroutines, call'[h].todo # {}, call'[h].env.type = "peer_kicked"
       PROVE  h \in Clients /\ pc'[h] = "kicking"
    <3>1. call[h].todo # {} /\ call[h].env.type = "peer_kicked" /\ pc'[h] = pc[h]
      BY <2>b, <1>14 DEF Break, roomVars, sockVars
    <3> QED
      BY <3>1
  <2>c. ASSUME NEW k \in Clients, pc'[k] = "kicking"
       PROVE  IF call'[k].todo # {}
              THEN call'[k].env.type = "peer_kicked" /\ call'[k].todo = {victim'[k]}
              ELSE victim'[k] \in excused' \/ Pending(victim[k])'
    <3>1. pc[k] = "kicking" /\ victim'[k] = victim[k]
      BY <2>c, <1>14 DEF Break, roomVars, sockVars
    <3>2. victim[k] \in Clients /\ ~Outsider(victim[k])
      BY <3>1
    <3>3. IF call[k].todo # {} THEN call[k].env.type = "peer_kicked" /\ call[k].todo = {victim[k]}
            ELSE victim[k] \in excused \/ Pending(victim[k])
      BY <3>1
    <3>4. victim[k] \in excused \/ Pending(victim[k]) => victim[k] \in excused' \/ Pending(victim[k])'
      BY <3>2, <1>14 DEF Break, roomVars, sockVars
    <3> HIDE DEF Pending, TypeOK, Known, Warned, Outsider
    <3> QED
      BY <2>c, <3>1, <3>2, <3>3, <3>4, <1>14 DEF Break, roomVars, sockVars
  <2> QED
    BY <2>a, <2>b, <2>c
<1>15. ASSUME NEW c \in Clients, Ask(c)
       PROVE  Warned'
  BY <1>15 DEF Ask, Call, Serving, At, Busy, Notice, Env, JoinUnchanged, roomVars, sockVars
<1>16. ASSUME NEW c \in Clients, Join(c)
       PROVE  Warned'
  BY <1>16 DEF Join, Call, Serving, At, Busy, Notice, Env, JoinUnchanged, roomVars, sockVars
<1>17. ASSUME NEW c \in Clients, StartReading(c)
       PROVE  Warned'
  BY <1>17 DEF StartReading, At, Busy, JoinUnchanged, roomVars, sockVars
<1>18. ASSUME NEW c \in Clients, RejectJoin(c)
       PROVE  Warned'
  <2>1. /\ chan'[c] = Append(chan[c], Notice("join_rejected"))
        /\ \A d \in Clients \ {c} : chan'[d] = chan[d] /\ open'[d] = open[d]
        /\ pc' = [pc EXCEPT ![c] = "refused"] /\ pc[c] = "waiting" /\ call' = call
        /\ victim' = victim /\ written' = written /\ conn' = conn /\ excused' = excused
    BY <1>18 DEF RejectJoin, JoinUnchanged, sockVars, At
  <2>2. Kicked(chan[c]) => Kicked(chan'[c])
    BY <2>1, NoticeType, KickedSequences
  <2>a. ASSUME NEW m \in Clients, m \notin excused'
       PROVE  /\ pc'[m] \in {"new", "waiting"} => open'[m] /\ conn'[m] = "up"
              /\ ~Outsider(m)' /\ ~open'[m] => Pending(m)'
              /\ ~Outsider(m)' /\ conn'[m] # "up" => Kicked(written'[m])
              /\ pc'[m] \in {"leaving", "handing", "returning", "done", "dead"} => Kicked(written'[m])
    BY <2>a, <2>1, <2>2
  <2>b. ASSUME NEW h \in Goroutines, call'[h].todo # {}, call'[h].env.type = "peer_kicked"
       PROVE  h \in Clients /\ pc'[h] = "kicking"
    <3>1. call[h].todo # {} /\ call[h].env.type = "peer_kicked" /\ pc'[h] = pc[h]
      BY <2>b, <2>1, <2>2, ZenonT(40)
    <3> QED
      BY <3>1
  <2>c. ASSUME NEW k \in Clients, pc'[k] = "kicking"
       PROVE  IF call'[k].todo # {}
              THEN call'[k].env.type = "peer_kicked" /\ call'[k].todo = {victim'[k]}
              ELSE victim'[k] \in excused' \/ Pending(victim[k])'
    <3>1. pc[k] = "kicking" /\ victim'[k] = victim[k]
      BY <2>c, <2>1, <2>2
    <3>2. victim[k] \in Clients /\ ~Outsider(victim[k])
      BY <3>1
    <3>3. IF call[k].todo # {} THEN call[k].env.type = "peer_kicked" /\ call[k].todo = {victim[k]}
            ELSE victim[k] \in excused \/ Pending(victim[k])
      BY <3>1
    <3>4. victim[k] \in excused \/ Pending(victim[k]) => victim[k] \in excused' \/ Pending(victim[k])'
      BY <3>2, <2>1, <2>2
    <3> HIDE DEF Pending, TypeOK, Known, Warned, Outsider
    <3> QED
      BY <2>c, <3>1, <3>2, <3>3, <3>4, <2>1, <2>2
  <2> QED
    BY <2>a, <2>b, <2>c
<1>19. ASSUME NEW c \in Clients, Relay(c)
       PROVE  Warned'
  <2>a. ASSUME NEW m \in Clients, m \notin excused'
       PROVE  /\ pc'[m] \in {"new", "waiting"} => open'[m] /\ conn'[m] = "up"
              /\ ~Outsider(m)' /\ ~open'[m] => Pending(m)'
              /\ ~Outsider(m)' /\ conn'[m] # "up" => Kicked(written'[m])
              /\ pc'[m] \in {"leaving", "handing", "returning", "done", "dead"} => Kicked(written'[m])
    BY <2>a, <1>19 DEF Relay, Call, Serving, At, Busy, Env, ReadUnchanged, roomVars,
       sockVars
  <2>b. ASSUME NEW h \in Goroutines, call'[h].todo # {}, call'[h].env.type = "peer_kicked"
       PROVE  h \in Clients /\ pc'[h] = "kicking"
    <3>1. call[h].todo # {} /\ call[h].env.type = "peer_kicked" /\ pc'[h] = pc[h]
      BY <2>b, <1>19 DEF Relay, Call, Serving, At, Busy, Env, ReadUnchanged, roomVars,
         sockVars
    <3> QED
      BY <3>1
  <2>c. ASSUME NEW k \in Clients, pc'[k] = "kicking"
       PROVE  IF call'[k].todo # {}
              THEN call'[k].env.type = "peer_kicked" /\ call'[k].todo = {victim'[k]}
              ELSE victim'[k] \in excused' \/ Pending(victim[k])'
    <3>1. pc[k] = "kicking" /\ victim'[k] = victim[k]
      BY <2>c, <1>19 DEF Relay, Call, Serving, At, Busy, Env, ReadUnchanged, roomVars,
         sockVars
    <3>2. victim[k] \in Clients /\ ~Outsider(victim[k])
      BY <3>1
    <3>3. IF call[k].todo # {} THEN call[k].env.type = "peer_kicked" /\ call[k].todo = {victim[k]}
            ELSE victim[k] \in excused \/ Pending(victim[k])
      BY <3>1
    <3>4. victim[k] \in excused \/ Pending(victim[k]) => victim[k] \in excused' \/ Pending(victim[k])'
      BY <3>2, <1>19 DEF Relay, Call, Serving, At, Busy, Env, ReadUnchanged, roomVars,
         sockVars
    <3> HIDE DEF Pending, TypeOK, Known, Warned, Outsider
    <3> QED
      BY <2>c, <3>1, <3>2, <3>3, <3>4, <1>19 DEF Relay, Call, Serving, At, Busy, Env,
         ReadUnchanged, roomVars, sockVars
  <2> QED
    BY <2>a, <2>b, <2>c
<1>20. ASSUME NEW c \in Clients, Quit(c)
       PROVE  Warned'
  <2>a. ASSUME NEW m \in Clients, m \notin excused'
       PROVE  /\ pc'[m] \in {"new", "waiting"} => open'[m] /\ conn'[m] = "up"
              /\ ~Outsider(m)' /\ ~open'[m] => Pending(m)'
              /\ ~Outsider(m)' /\ conn'[m] # "up" => Kicked(written'[m])
              /\ pc'[m] \in {"leaving", "handing", "returning", "done", "dead"} => Kicked(written'[m])
    BY <2>a, <1>20 DEF Quit, At, Busy, ReadUnchanged, roomVars, sockVars
  <2>b. ASSUME NEW h \in Goroutines, call'[h].todo # {}, call'[h].env.type = "peer_kicked"
       PROVE  h \in Clients /\ pc'[h] = "kicking"
    <3>1. call[h].todo # {} /\ call[h].env.type = "peer_kicked" /\ pc'[h] = pc[h]
      BY <2>b, <1>20 DEF Quit, At, Busy, ReadUnchanged, roomVars, sockVars
    <3> QED
      BY <3>1
  <2>c. ASSUME NEW k \in Clients, pc'[k] = "kicking"
       PROVE  IF call'[k].todo # {}
              THEN call'[k].env.type = "peer_kicked" /\ call'[k].todo = {victim'[k]}
              ELSE victim'[k] \in excused' \/ Pending(victim[k])'
    <3>1. pc[k] = "kicking" /\ victim'[k] = victim[k]
      BY <2>c, <1>20 DEF Quit, At, Busy, ReadUnchanged, roomVars, sockVars
    <3>2. victim[k] \in Clients /\ ~Outsider(victim[k])
      BY <3>1
    <3>3. IF call[k].todo # {} THEN call[k].env.type = "peer_kicked" /\ call[k].todo = {victim[k]}
            ELSE victim[k] \in excused \/ Pending(victim[k])
      BY <3>1
    <3>4. victim[k] \in excused \/ Pending(victim[k]) => victim[k] \in excused' \/ Pending(victim[k])'
      BY <3>2, <1>20 DEF Quit, At, Busy, ReadUnchanged, roomVars, sockVars
    <3> HIDE DEF Pending, TypeOK, Known, Warned, Outsider
    <3> QED
      BY <2>c, <3>1, <3>2, <3>3, <3>4, <1>20 DEF Quit, At, Busy, ReadUnchanged, roomVars,
         sockVars
  <2> QED
    BY <2>a, <2>b, <2>c
<1>21. ASSUME NEW c \in Clients, ReadFails(c)
       PROVE  Warned'
  <2>a. ASSUME NEW m \in Clients, m \notin excused'
       PROVE  /\ pc'[m] \in {"new", "waiting"} => open'[m] /\ conn'[m] = "up"
              /\ ~Outsider(m)' /\ ~open'[m] => Pending(m)'
              /\ ~Outsider(m)' /\ conn'[m] # "up" => Kicked(written'[m])
              /\ pc'[m] \in {"leaving", "handing", "returning", "done", "dead"} => Kicked(written'[m])
    BY <2>a, <1>21 DEF ReadFails, At, Busy, ReadUnchanged, roomVars, sockVars
  <2>b. ASSUME NEW h \in Goroutines, call'[h].todo # {}, call'[h].env.type = "peer_kicked"
       PROVE  h \in Clients /\ pc'[h] = "kicking"
    <3>1. call[h].todo # {} /\ call[h].env.type = "peer_kicked" /\ pc'[h] = pc[h]
      BY <2>b, <1>21 DEF ReadFails, At, Busy, ReadUnchanged, roomVars, sockVars
    <3> QED
      BY <3>1
  <2>c. ASSUME NEW k \in Clients, pc'[k] = "kicking"
       PROVE  IF call'[k].todo # {}
              THEN call'[k].env.type = "peer_kicked" /\ call'[k].todo = {victim'[k]}
              ELSE victim'[k] \in excused' \/ Pending(victim[k])'
    <3>1. pc[k] = "kicking" /\ victim'[k] = victim[k]
      BY <2>c, <1>21 DEF ReadFails, At, Busy, ReadUnchanged, roomVars, sockVars
    <3>2. victim[k] \in Clients /\ ~Outsider(victim[k])
      BY <3>1
    <3>3. IF call[k].todo # {} THEN call[k].env.type = "peer_kicked" /\ call[k].todo = {victim[k]}
            ELSE victim[k] \in excused \/ Pending(victim[k])
      BY <3>1
    <3>4. victim[k] \in excused \/ Pending(victim[k]) => victim[k] \in excused' \/ Pending(victim[k])'
      BY <3>2, <1>21 DEF ReadFails, At, Busy, ReadUnchanged, roomVars, sockVars
    <3> HIDE DEF Pending, TypeOK, Known, Warned, Outsider
    <3> QED
      BY <2>c, <3>1, <3>2, <3>3, <3>4, <1>21 DEF ReadFails, At, Busy, ReadUnchanged,
         roomVars, sockVars
  <2> QED
    BY <2>a, <2>b, <2>c
<1>22. ASSUME NEW c \in Clients, NEW t \in Clients, Kick(c, t)
       PROVE  Warned'
  <2>a. ASSUME NEW m \in Clients, m \notin excused'
       PROVE  /\ pc'[m] \in {"new", "waiting"} => open'[m] /\ conn'[m] = "up"
              /\ ~Outsider(m)' /\ ~open'[m] => Pending(m)'
              /\ ~Outsider(m)' /\ conn'[m] # "up" => Kicked(written'[m])
              /\ pc'[m] \in {"leaving", "handing", "returning", "done", "dead"} => Kicked(written'[m])
    BY <2>a, <1>22, SMTT(30) DEF Kick, Call, Serving, At, Busy, Notice, Env, ReadUnchanged,
       roomVars,
       sockVars
  <2>b. ASSUME NEW h \in Goroutines, call'[h].todo # {}, call'[h].env.type = "peer_kicked"
       PROVE  h \in Clients /\ pc'[h] = "kicking"
    BY <2>b, <1>22, SMTT(30) DEF Kick, Call, Serving, At, Busy, Notice, Env, ReadUnchanged,
       roomVars,
       sockVars
  <2>c. ASSUME NEW k \in Clients, pc'[k] = "kicking"
       PROVE  IF call'[k].todo # {}
              THEN call'[k].env.type = "peer_kicked" /\ call'[k].todo = {victim'[k]}
              ELSE victim'[k] \in excused' \/ Pending(victim[k])'
    BY <2>c, <1>22, ZenonT(40) DEF Kick, Call, Serving, At, Busy, Notice, Env,
       ReadUnchanged, roomVars,
       sockVars
  <2> QED
    BY <2>a, <2>b, <2>c
<1>23. ASSUME NEW c \in Clients, KickShutdown(c)
       PROVE  Warned'
  <2>1. /\ call' = call /\ victim' = victim /\ written' = written /\ chan' = chan /\ conn' = conn
        /\ excused' = excused /\ pc[c] = "kicking" /\ call[c].todo = {}
        /\ open' = [open EXCEPT ![victim[c]] = FALSE] /\ pc' = [pc EXCEPT ![c] = "deleting"]
    BY <1>23 DEF KickShutdown, At, Busy, ReadUnchanged, sockVars
  <2>2. victim[c] \in excused \/ Pending(victim[c])
    BY <2>1
  <2>3. \A t \in Clients : open'[t] = open[t] \/ t = victim[c]
    BY <2>1
  <2>4. \A t \in Clients : Pending(t) => Pending(t)'
    BY <2>1
  <2>a. ASSUME NEW m \in Clients, m \notin excused'
       PROVE  /\ pc'[m] \in {"new", "waiting"} => open'[m] /\ conn'[m] = "up"
              /\ ~Outsider(m)' /\ ~open'[m] => Pending(m)'
              /\ ~Outsider(m)' /\ conn'[m] # "up" => Kicked(written'[m])
              /\ pc'[m] \in {"leaving", "handing", "returning", "done", "dead"} => Kicked(written'[m])
    BY <2>a, <2>1, <2>2, <2>3, <2>4
  <2>b. ASSUME NEW h \in Goroutines, call'[h].todo # {}, call'[h].env.type = "peer_kicked"
       PROVE  h \in Clients /\ pc'[h] = "kicking"
    BY <2>b, <2>1, <2>2, <2>3, <2>4
  <2>c. ASSUME NEW k \in Clients, pc'[k] = "kicking"
       PROVE  IF call'[k].todo # {}
              THEN call'[k].env.type = "peer_kicked" /\ call'[k].todo = {victim'[k]}
              ELSE victim'[k] \in excused' \/ Pending(victim[k])'
    BY <2>c, <2>1, <2>2, <2>3, <2>4, ZenonT(40)
  <2> QED
    BY <2>a, <2>b, <2>c
<1>24. ASSUME NEW c \in Clients, KickDelete(c)
       PROVE  Warned'
  <2>a. ASSUME NEW m \in Clients, m \notin excused'
       PROVE  /\ pc'[m] \in {"new", "waiting"} => open'[m] /\ conn'[m] = "up"
              /\ ~Outsider(m)' /\ ~open'[m] => Pending(m)'
              /\ ~Outsider(m)' /\ conn'[m] # "up" => Kicked(written'[m])
              /\ pc'[m] \in {"leaving", "handing", "returning", "done", "dead"} => Kicked(written'[m])
    BY <2>a, <1>24, SMTT(30) DEF KickDelete, Call, Serving, At, Busy, Notice, Env,
       ReadUnchanged,
       roomVars, sockVars
  <2>b. ASSUME NEW h \in Goroutines, call'[h].todo # {}, call'[h].env.type = "peer_kicked"
       PROVE  h \in Clients /\ pc'[h] = "kicking"
    BY <2>b, <1>24, SMTT(30) DEF KickDelete, Call, Serving, At, Busy, Notice, Env,
       ReadUnchanged,
       roomVars, sockVars
  <2>c. ASSUME NEW k \in Clients, pc'[k] = "kicking"
       PROVE  IF call'[k].todo # {}
              THEN call'[k].env.type = "peer_kicked" /\ call'[k].todo = {victim'[k]}
              ELSE victim'[k] \in excused' \/ Pending(victim[k])'
    BY <2>c, <1>24, ZenonT(40) DEF KickDelete, Call, Serving, At, Busy, Notice, Env,
       ReadUnchanged,
       roomVars, sockVars
  <2> QED
    BY <2>a, <2>b, <2>c
<1>25. ASSUME NEW c \in Clients, NEW j \in Jobs, DocUpdate(c, j)
       PROVE  Warned'
  <2>a. ASSUME NEW m \in Clients, m \notin excused'
       PROVE  /\ pc'[m] \in {"new", "waiting"} => open'[m] /\ conn'[m] = "up"
              /\ ~Outsider(m)' /\ ~open'[m] => Pending(m)'
              /\ ~Outsider(m)' /\ conn'[m] # "up" => Kicked(written'[m])
              /\ pc'[m] \in {"leaving", "handing", "returning", "done", "dead"} => Kicked(written'[m])
    BY <2>a, <1>25 DEF DocUpdate, Serving, At, Busy, Env, roomVars, sockVars
  <2>b. ASSUME NEW h \in Goroutines, call'[h].todo # {}, call'[h].env.type = "peer_kicked"
       PROVE  h \in Clients /\ pc'[h] = "kicking"
    <3>1. call[h].todo # {} /\ call[h].env.type = "peer_kicked" /\ pc'[h] = pc[h]
      BY <2>b, <1>25 DEF DocUpdate, Serving, At, Busy, Env, roomVars, sockVars
    <3> QED
      BY <3>1
  <2>c. ASSUME NEW k \in Clients, pc'[k] = "kicking"
       PROVE  IF call'[k].todo # {}
              THEN call'[k].env.type = "peer_kicked" /\ call'[k].todo = {victim'[k]}
              ELSE victim'[k] \in excused' \/ Pending(victim[k])'
    <3>1. pc[k] = "kicking" /\ victim'[k] = victim[k]
      BY <2>c, <1>25 DEF DocUpdate, Serving, At, Busy, Env, roomVars, sockVars
    <3>2. victim[k] \in Clients /\ ~Outsider(victim[k])
      BY <3>1
    <3>3. IF call[k].todo # {} THEN call[k].env.type = "peer_kicked" /\ call[k].todo = {victim[k]}
            ELSE victim[k] \in excused \/ Pending(victim[k])
      BY <3>1
    <3>4. victim[k] \in excused \/ Pending(victim[k]) => victim[k] \in excused' \/ Pending(victim[k])'
      BY <3>2, <1>25 DEF DocUpdate, Serving, At, Busy, Env, roomVars, sockVars
    <3> HIDE DEF Pending, TypeOK, Known, Warned, Outsider
    <3> QED
      BY <2>c, <3>1, <3>2, <3>3, <3>4, <1>25 DEF DocUpdate, Serving, At, Busy, Env,
         roomVars, sockVars
  <2> QED
    BY <2>a, <2>b, <2>c
<1>26. ASSUME NEW j \in Jobs, RefuseUpdate(j)
       PROVE  Warned'
  BY <1>26 DEF RefuseUpdate, Call, Serving, At, Busy, Notice, Env, JobUnchanged, roomVars,
     sockVars
<1>27. ASSUME NEW j \in Jobs, broadcastSyncRequest(j)
       PROVE  Warned'
  BY <1>27 DEF broadcastSyncRequest, Call, Serving, At, Busy, Notice, Env, JobUnchanged,
     roomVars, sockVars
<1>28. ASSUME NEW j \in Jobs, StoreUpdate(j)
       PROVE  Warned'
  BY <1>28 DEF StoreUpdate, Call, Serving, At, Busy, Notice, Env, JobUnchanged, roomVars,
     sockVars
<1>29. CASE UNCHANGED vars
  BY <1>29 DEF vars, roomVars, sockVars
<1> HIDE NoneIsNobody DEF TypeOK, Known, Outsider, Warned, Pending
<1> QED
  BY <1>1, <1>2, <1>3, <1>4, <1>5, <1>6, <1>7, <1>8, <1>9, <1>10, <1>11, <1>12, <1>13,
     <1>14, <1>15, <1>16, <1>17, <1>18, <1>19, <1>20, <1>21, <1>22, <1>23, <1>24, <1>25,
     <1>26, <1>27, <1>28, <1>29
     DEF Next, queue, writeLoop, leaveRoom

\* A member that is gone unexcused was kicked, and has read it.
LEMMA WarnedIsTold ==
    ASSUME Warned
    PROVE  KickedIsTold
BY DEF Warned, KickedIsTold, Told, Kicked

-----------------------------------------------------------------------------
(* The lock *)

\* Every step keeps the lock with the host that hands over.
LEMMA HandOverKept ==
    ASSUME TypeOK, HandOverHolds, [Next]_vars
    PROVE  HandOverHolds'
<1> USE NoneIsNobody DEF TypeOK, HandOverHolds
<1>1. ASSUME NEW g \in Goroutines, Test(g)
      PROVE  HandOverHolds'
  BY <1>1 DEF Test, Return, QueueUnchanged, roomVars
<1>2. ASSUME NEW g \in Goroutines, Put(g)
      PROVE  HandOverHolds'
  BY <1>2 DEF Put, Return, QueueUnchanged, roomVars
<1>3. ASSUME NEW g \in Goroutines, Full(g)
      PROVE  HandOverHolds'
  BY <1>3 DEF Full, Return, QueueUnchanged, roomVars
<1>4. ASSUME NEW g \in Goroutines, GiveUp(g)
      PROVE  HandOverHolds'
  BY <1>4 DEF GiveUp, Return, QueueUnchanged, roomVars
<1>5. ASSUME NEW g \in Goroutines, Panic(g)
      PROVE  HandOverHolds'
  BY <1>5 DEF Panic, InReadLoop, roomVars
<1>6. ASSUME NEW c \in Clients, Write(c)
      PROVE  HandOverHolds'
  BY <1>6 DEF Write, WriterUnchanged, roomVars
<1>7. ASSUME NEW c \in Clients, WriteFails(c)
      PROVE  HandOverHolds'
  BY <1>7 DEF WriteFails, WriterUnchanged, roomVars
<1>8. ASSUME NEW c \in Clients, StopWriting(c)
      PROVE  HandOverHolds'
  BY <1>8 DEF StopWriting, WriterUnchanged, roomVars
<1>9. ASSUME NEW c \in Clients, Leave(c)
      PROVE  HandOverHolds'
  BY <1>9 DEF Leave, Call, At, Busy, LeaveUnchanged, roomVars
<1>10. ASSUME NEW c \in Clients, HandOver(c)
      PROVE  HandOverHolds'
  BY <1>10 DEF HandOver, Call, At, Busy, LeaveUnchanged, roomVars
<1>11. ASSUME NEW c \in Clients, HandedOver(c)
      PROVE  HandOverHolds'
  BY <1>11 DEF HandedOver, Call, At, Busy, LeaveUnchanged, roomVars
<1>12. ASSUME NEW c \in Clients, LeaveKicked(c)
      PROVE  HandOverHolds'
  BY <1>12 DEF LeaveKicked, At, Busy, LeaveUnchanged, roomVars
<1>13. ASSUME NEW c \in Clients, HangUp(c)
      PROVE  HandOverHolds'
  BY <1>13 DEF HangUp, At, Busy, LeaveUnchanged, roomVars
<1>14. ASSUME NEW c \in Clients, Break(c)
      PROVE  HandOverHolds'
  BY <1>14 DEF Break, roomVars
<1>15. ASSUME NEW c \in Clients, Ask(c)
      PROVE  HandOverHolds'
  BY <1>15 DEF Ask, Call, At, Busy, JoinUnchanged, roomVars
<1>16. ASSUME NEW c \in Clients, Join(c)
      PROVE  HandOverHolds'
  BY <1>16 DEF Join, Call, At, Busy, JoinUnchanged, roomVars
<1>17. ASSUME NEW c \in Clients, StartReading(c)
      PROVE  HandOverHolds'
  BY <1>17 DEF StartReading, At, Busy, JoinUnchanged, roomVars
<1>18. ASSUME NEW c \in Clients, RejectJoin(c)
      PROVE  HandOverHolds'
  BY <1>18 DEF RejectJoin, At, Busy, JoinUnchanged, roomVars
<1>19. ASSUME NEW c \in Clients, Relay(c)
      PROVE  HandOverHolds'
  BY <1>19 DEF Relay, Call, At, Busy, ReadUnchanged, roomVars
<1>20. ASSUME NEW c \in Clients, Quit(c)
      PROVE  HandOverHolds'
  BY <1>20 DEF Quit, At, Busy, ReadUnchanged, roomVars
<1>21. ASSUME NEW c \in Clients, ReadFails(c)
      PROVE  HandOverHolds'
  BY <1>21 DEF ReadFails, At, Busy, ReadUnchanged, roomVars
<1>22. ASSUME NEW c \in Clients, NEW t \in Clients, Kick(c, t)
      PROVE  HandOverHolds'
  BY <1>22 DEF Kick, Call, At, Busy, ReadUnchanged, roomVars
<1>23. ASSUME NEW c \in Clients, KickShutdown(c)
      PROVE  HandOverHolds'
  BY <1>23 DEF KickShutdown, At, Busy, ReadUnchanged, roomVars
<1>24. ASSUME NEW c \in Clients, KickDelete(c)
      PROVE  HandOverHolds'
  BY <1>24 DEF KickDelete, Call, At, Busy, ReadUnchanged, roomVars
<1>25. ASSUME NEW c \in Clients, NEW j \in Jobs, DocUpdate(c, j)
      PROVE  HandOverHolds'
  BY <1>25 DEF DocUpdate, At, Busy, roomVars
<1>26. ASSUME NEW j \in Jobs, RefuseUpdate(j)
      PROVE  HandOverHolds'
  BY <1>26 DEF RefuseUpdate, Call, At, Busy, JobUnchanged, roomVars
<1>27. ASSUME NEW j \in Jobs, broadcastSyncRequest(j)
      PROVE  HandOverHolds'
  BY <1>27 DEF broadcastSyncRequest, Call, At, Busy, JobUnchanged, roomVars
<1>28. ASSUME NEW j \in Jobs, StoreUpdate(j)
      PROVE  HandOverHolds'
  BY <1>28 DEF StoreUpdate, Call, At, Busy, JobUnchanged, roomVars
<1>29. CASE UNCHANGED vars
  BY <1>29 DEF vars, roomVars
<1> HIDE NoneIsNobody DEF TypeOK, HandOverHolds
<1> QED
  BY <1>1, <1>2, <1>3, <1>4, <1>5, <1>6, <1>7, <1>8, <1>9, <1>10, <1>11, <1>12, <1>13,
     <1>14, <1>15, <1>16, <1>17, <1>18, <1>19, <1>20, <1>21, <1>22, <1>23, <1>24, <1>25,
     <1>26, <1>27, <1>28, <1>29
     DEF Next, queue, writeLoop, leaveRoom

-----------------------------------------------------------------------------
(* The theorems *)

QueueInv == TypeOK /\ Known /\ Latest /\ Orderly /\ Warned /\ HandOverHolds

LEMMA Starts ==
    ASSUME Init
    PROVE  QueueInv
<1> USE NoneIsNobody, QueueAssumption DEF Init
<1>1. Quiet \in Calls /\ Quiet.todo = {} /\ Quiet.to = None /\ ~Quiet.blocked
  BY EnvTyped, ServingTyped DEF Quiet, Serving
<1>2. TypeOK
  <2>1. <<>> \in Seq(Envelopes) /\ Len(<<>>) = 0 /\ 0 <= Capacity
    OBVIOUS
  <2> QED
    BY <1>1, <2>1 DEF TypeOK, Labels
<1>3. Known
  BY <1>1 DEF Known, Outsider
<1>4. Latest
  BY <1>1 DEF Latest
<1>5. Orderly
  BY <1>1 DEF Orderly, Increasing, After, Below
<1>6. Warned
  BY <1>1 DEF Warned, Outsider
<1>7. HandOverHolds
  BY DEF HandOverHolds
<1> QED
  BY <1>2, <1>3, <1>4, <1>5, <1>6, <1>7 DEF QueueInv

LEMMA Stays ==
    ASSUME QueueInv, [Next]_vars
    PROVE  QueueInv'
<1>1. TypeOK' /\ Known'
  BY TypesKept, KnownKept DEF QueueInv
<1>2. Latest' /\ Orderly'
  BY Kinds, OrderKept DEF QueueInv
<1>3. Warned'
  BY WarnedKept DEF QueueInv
<1>4. HandOverHolds'
  BY HandOverKept DEF QueueInv
<1> QED
  BY <1>1, <1>2, <1>3, <1>4 DEF QueueInv

LEMMA InvHolds == Spec => []QueueInv
BY Starts, Stays, PTL DEF Spec

\* Every variable has its type, and no queue takes more than its capacity: every
\* send is behind a test for room, whoever else sends in the meantime.
THEOREM QueueTypeCorrect == Spec => []TypeOK
<1>1. QueueInv => TypeOK
  BY DEF QueueInv
<1> QED
  BY <1>1, InvHolds, PTL

\* However many goroutines send into a queue, and however long they block, each
\* receiver gets the messages of one sender in the order in which they were sent:
\* readLoop has one message in hand at a time, and passes it on itself.
THEOREM OrderIsKept == Spec => []SenderOrder
<1>1. QueueInv => SenderOrder
  BY OrderlyIsOrdered DEF QueueInv
<1> QED
  BY <1>1, InvHolds, PTL

\* A member that has left without breaking, quitting or panicking was kicked, and
\* peer_kicked was written to its socket first: the host queues the notice before
\* it shuts the queue down, and writeLoop drains what is queued before it closes.
THEOREM KickedAreTold == Spec => []KickedIsTold
<1>1. QueueInv => KickedIsTold
  BY WarnedIsTold DEF QueueInv
<1> QED
  BY <1>1, InvHolds, PTL

\* HandOverHolds, for any number of members: nobody joins, leaves or is deleted
\* while leaveRoom tells the members who their host is, and only a panic in there
\* keeps Room.mu for ever.
THEOREM LockIsReleased == Spec => []HandOverHolds
<1>1. QueueInv => HandOverHolds
  BY DEF QueueInv
<1> QED
  BY <1>1, InvHolds, PTL
=============================================================================
