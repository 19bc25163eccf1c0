--------------------------- MODULE CallbackThread ---------------------------
(***************************************************************************)
(* The callback thread of src/lib/pclb.c in a build with threads: user     *)
(* threads register callbacks (exosite_new) and subscribe                  *)
(* (exosite_subscribe), while the thread sleeps and runs pclb_task, which  *)
(* calls rtc_periodic, protocol_client_sm_task and activate_sm.  Of the    *)
(* last two only what touches the clock and the dictionary is modelled     *)
(* here (see PcSm and ExositeApi for the rest).                            *)
(*                                                                         *)
(* Time is counted in milliseconds, and passes while the thread sleeps.    *)
(***************************************************************************)
EXTENDS Dictionary, Sequences, SequencesExt

CONSTANTS
    User,       \* the user threads that register
    Period,     \* the period of every callback, in calls of pclb_task
    SysTime,    \* 2^32: sys_time_t counts milliseconds modulo SysTime
    Second,     \* 1000
    MaxSleep,   \* bound: milliseconds from one pclb_task to the next
    Plans       \* what the user threads register and subscribe, and the time that is looked at

Callback == DOMAIN Period

\* The clock is updated before the system time has come round once.
ASSUME CallbackAssumption ==
    /\ Callback = {"rtc", "pcsm", "sm"} /\ Period \in [Callback -> Nat]
    /\ {SysTime, Second, MaxSleep} \subseteq Nat \ {0}
    /\ (Period["rtc"] + 1) * MaxSleep + Second <= SysTime
    /\ Plans \subseteq [callbacks : SUBSET Callback, aliases : SUBSET Key, time : Nat]

VARIABLES
    plan,               \* what is still to be registered and subscribed
    shadow,             \* shadow_periodic_clb_head: the registered callbacks, in order
    cnt,                \* periodic_clb_class.cnt, in calls of pclb_task
    clb_num,
    user,               \* pclb_register of each user thread after its critical section
    walk,               \* what pclb_task has still to look at
    calling,            \* the callback that pclb_task has called
    time,               \* external: milliseconds since the start
    system_time_linux, previous_system_time,
    set                 \* history: the time, and the seconds, of the last rtc_set

pclb == <<shadow, cnt, clb_num, user, walk, calling>>
clock == <<time, system_time_linux, previous_system_time, set>>
vars == <<plan, pclb, clock, dictionary>>

None == "none"
system_get_time == time % SysTime

\* Unsigned subtraction of system times.
Minus(t, s) == (t - s) % SysTime

-----------------------------------------------------------------------------
(* pclb_register, exosite_subscribe                                        *)

\* The critical section: the entry is linked at the end of the shadow list.
pclb_register(u, c) ==
    /\ user[u] = [step |-> "idle", num |-> 0]
    /\ c \in plan.callbacks
    /\ plan' = [plan EXCEPT !.callbacks = @ \ {c}]
    /\ shadow' = Append(shadow, c)
    /\ user' = [user EXCEPT ![u].step = "read"]
    /\ UNCHANGED <<cnt, clb_num, walk, calling, clock, dictionary>>

\* clb_num++ outside of it: a read and a write.
ReadNum(u) ==
    /\ user[u].step = "read"
    /\ user' = [user EXCEPT ![u] = [step |-> "write", num |-> clb_num]]
    /\ UNCHANGED <<plan, shadow, cnt, clb_num, walk, calling, clock, dictionary>>

WriteNum(u) ==
    /\ user[u].step = "write"
    /\ clb_num' = user[u].num + 1
    /\ user' = [user EXCEPT ![u] = [step |-> "idle", num |-> 0]]
    /\ UNCHANGED <<plan, shadow, cnt, walk, calling, clock, dictionary>>

\* exosite_subscribe, after exosite_new, of an alias which may have been subscribed before.
exosite_subscribe ==
    /\ \E n \in DOMAIN shadow : shadow[n] = "sm"
    /\ \E key \in plan.aliases :
          /\ dictionary_add(key)
          /\ \/ plan' = [plan EXCEPT !.aliases = @ \ {key}]
             \/ key \in Present /\ UNCHANGED plan
    /\ UNCHANGED <<pclb, clock>>

Subscribing == Insert /\ UNCHANGED <<plan, pclb, clock>>

-----------------------------------------------------------------------------
(* pclb_task                                                               *)

\* After the sleep the task takes over the shadow list.
pclb_task ==
    /\ walk = <<>> /\ calling = None
    /\ walk' = shadow
    /\ \E ms \in 1 .. MaxSleep : time' = IF time + ms <= plan.time THEN time + ms ELSE time
    /\ UNCHANGED <<plan, shadow, cnt, clb_num, user, calling, system_time_linux,
                   previous_system_time, set, dictionary>>

\* Faulty: the counter starts again whether the callback was due or not.
Count_Resets ==
    /\ walk # <<>> /\ calling = None
    /\ walk' = Tail(walk)
    /\ IF Period[Head(walk)] < cnt[Head(walk)] + 1
       THEN /\ calling' = Head(walk)
            /\ cnt' = [cnt EXCEPT ![Head(walk)] = @ + 1]
       ELSE /\ cnt' = [cnt EXCEPT ![Head(walk)] = 0]
            /\ UNCHANGED calling
    /\ UNCHANGED <<plan, shadow, clb_num, user, clock, dictionary>>

\* An entry is counted, and called when its period is over.
Count ==
    /\ walk # <<>> /\ calling = None
    /\ walk' = Tail(walk)
    /\ cnt' = [cnt EXCEPT ![Head(walk)] = @ + 1]
    /\ calling' = IF Period[Head(walk)] < cnt[Head(walk)] + 1 THEN Head(walk) ELSE None
    /\ UNCHANGED <<plan, shadow, clb_num, user, clock, dictionary>>

\* Faulty: the counter is not reset.
Returns_Counting(c) ==
    /\ calling = c
    /\ calling' = None
    /\ UNCHANGED <<plan, shadow, cnt, clb_num, user, walk>>

\* The callback c returns, and its counter starts again.
Returns(c) ==
    /\ calling = c
    /\ calling' = None
    /\ cnt' = [cnt EXCEPT ![c] = 0]
    /\ UNCHANGED <<plan, shadow, clb_num, user, walk>>

\* Faulty: the residual time is dropped.
rtc_periodic_Drifts ==
    /\ Returns("rtc")
    /\ LET diff == Minus(system_get_time, previous_system_time)
       IN /\ system_time_linux' = system_time_linux + diff \div Second
          /\ previous_system_time' = system_get_time
    /\ UNCHANGED <<time, set, dictionary>>

\* rtc_periodic
rtc_periodic ==
    /\ Returns("rtc")
    /\ LET diff == Minus(system_get_time, previous_system_time)
       IN /\ system_time_linux' = system_time_linux + diff \div Second
          /\ previous_system_time' = Minus(system_get_time, diff % Second)
    /\ UNCHANGED <<time, set, dictionary>>

\* protocol_client_sm_task, which may call on_response_timestamp and with it rtc_set.
protocol_client_sm_task ==
    /\ Returns("pcsm")
    /\ \/ /\ previous_system_time' = system_get_time
          /\ \E new_time \in 0 .. 1 : /\ system_time_linux' = new_time
                                      /\ set' = [time |-> time, linux |-> new_time]
       \/ UNCHANGED <<system_time_linux, previous_system_time, set>>
    /\ UNCHANGED <<time, dictionary>>

\* activate_sm begins its iteration, goes on with it and ends it.
activate_sm ==
    \/ /\ calling = "sm" /\ dictionary_get_iterator
       /\ UNCHANGED <<plan, pclb, clock, root, left, right, parent, inserting>>
    \/ /\ calling = "sm" /\ Iterate
       /\ UNCHANGED <<plan, pclb, clock, root, left, right, parent, inserting>>
    \/ /\ it.step = "end" /\ it' = NotIterating /\ visited' = {} /\ owed' = {}
       /\ Returns("sm")
       /\ UNCHANGED <<clock, root, left, right, parent, inserting>>

CallbackThread == pclb_task \/ Count \/ rtc_periodic \/ protocol_client_sm_task \/ activate_sm

-----------------------------------------------------------------------------
Init ==
    /\ plan \in Plans
    /\ shadow = <<"rtc">> /\ clb_num = 1        \* sdk_init
    /\ cnt = [c \in Callback |-> 0]
    /\ user = [u \in User |-> [step |-> "idle", num |-> 0]]
    /\ walk = <<>> /\ calling = None
    /\ time = 0 /\ system_time_linux = 0 /\ previous_system_time = 0
    /\ set = [time |-> 0, linux |-> 0]
    /\ DictionaryInit

Next ==
    \/ \E u \in User : ReadNum(u) \/ WriteNum(u) \/ \E c \in Callback : pclb_register(u, c)
    \/ exosite_subscribe \/ Subscribing \/ CallbackThread

Spec == Init /\ [][Next]_vars

\* The callback thread is scheduled.
FairSpec == Spec /\ WF_vars(CallbackThread)

-----------------------------------------------------------------------------
\* The variables have their types; clb_num may lose increments, and is never more than what is linked.
TypeOK ==
    /\ DictionaryTypeOK
    /\ \A n \in DOMAIN shadow : shadow[n] \in Callback
    /\ cnt \in [Callback -> Nat] /\ \A c \in Callback : cnt[c] <= Period[c] + 1
    /\ clb_num \in 1 .. Len(shadow)
    /\ \A u \in User : user[u].step \in {"idle", "read", "write"} /\ user[u].num \in 0 .. Len(shadow)
    /\ calling \in Callback \cup {None}
    /\ {system_get_time, previous_system_time} \subseteq 0 .. SysTime - 1
    /\ {time, system_time_linux, set.time, set.linux} \subseteq Nat

\* rtc_periodic and rtc_set: the seconds that were counted, and the residual time, are the time since
\* the clock was set, though the system time comes round and a second does not divide it.
ClockExact ==
    (system_time_linux - set.linux) * Second + Minus(system_get_time, previous_system_time)
        = time - set.time

\* pclb_register and pclb_task: a callback that is registered, at any moment of a task, is called
\* again and again.
EveryoneCalled ==
    \A c \in Callback : []<>(\A n \in DOMAIN shadow : shadow[n] # c) \/ []<>(calling = c)

=============================================================================
