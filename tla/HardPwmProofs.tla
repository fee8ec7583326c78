---------------------------- MODULE HardPwmProofs ----------------------------
(***************************************************************************)
(* Hardware PWM for any number of timers, channels, pins and outputs: each *)
(* output keeps a channel of its own and a timer at its own frequency,     *)
(* nothing leaks while the firmware runs, and a shutdown reaches them all. *)
(***************************************************************************)
EXTENDS HardPwm, FiniteSetTheorems, WellFoundedInduction, TLAPS

Outputs  == [channel : LedcChannels, pin : OutPins, cycle : Cycles,
             value : Duties, default : Duties]
Channels == [timer : LedcTimers \cup {-1}, duty : Nat]

TypeInv ==
  /\ timer_frequencies \in [LedcTimers -> Nat] /\ hw_timer \in [LedcTimers -> Nat]
  /\ channel_used \in SUBSET LedcChannels
  /\ hw_channel \in [LedcChannels -> Channels]
  /\ route \in [OutPins -> LedcChannels \cup {-1}]
  /\ objs \in [Oids -> Outputs \cup {None}]
  /\ left \in SUBSET Oids

Asked(o)   == pwm_frequency_for_cycle(objs[o].cycle)
TimerOf(o) == hw_channel[objs[o].channel].timer
UsedTimers == {t \in LedcTimers : timer_frequencies[t] # 0}

\* Each output has a channel of its own, in use.
ChannelInv ==
  /\ \A o \in Configured : objs[o].channel \in channel_used
  /\ \A o, x \in Configured : objs[o].channel = objs[x].channel => o = x

\* An output's timer runs at the output's frequency and is booked for it.
TimerInv ==
  \A o \in Configured :
    /\ TimerOf(o) \in LedcTimers /\ Asked(o) # 0
    /\ timer_frequencies[TimerOf(o)] = Asked(o) /\ hw_timer[TimerOf(o)] = Asked(o)

\* No two timers are booked for one frequency.
BookingInv ==
  \A t, u \in UsedTimers : timer_frequencies[t] = timer_frequencies[u] => t = u

\* Until a shutdown what is booked is what runs, and what outputs asked for.
RunInv ==
  ~is_shutdown =>
    /\ left = {}
    /\ channel_used = {objs[o].channel : o \in Configured}
    /\ \A t \in UsedTimers :
         /\ hw_timer[t] = timer_frequencies[t]
         /\ \E o \in Configured : Asked(o) = timer_frequencies[t]

\* The walk of a shutdown leaves defaults behind it.
WalkInv ==
  is_shutdown =>
    \A o \in Configured \ left : hw_channel[objs[o].channel].duty = objs[o].default

IInv ==
  /\ TypeInv /\ ChannelInv /\ OutputAsAsked /\ TimerInv /\ BookingInv
  /\ RunInv /\ WalkInv

-----------------------------------------------------------------------------
\* The first of a set of timers, channels or oids is one of them.
LEMMA FirstIn ==
  ASSUME NEW S, S \subseteq Nat
  PROVE  /\ First(S) \subseteq S
         /\ S # {} => First(S) # {}
<1> SUFFICES ASSUME S # {} PROVE Min(S) \in S
  BY DEF First
<1> DEFINE Less == OpToRel(<, Nat)
<1>1. \E x \in S : \A y \in S : <<y, x>> \notin Less
  BY NatLessThanWellFounded, WFMin, Zenon
<1>2. \A x \in S, y \in S : y < x => <<y, x>> \in Less
  BY DEF OpToRel
<1>3. \A x \in S, y \in S : ~(y < x) => x =< y
  OBVIOUS
<1> HIDE DEF Less
<1>4. \E x \in S : \A y \in S : x =< y
  BY <1>1, <1>2, <1>3, Zenon
<1> QED BY <1>4, Zenon DEF Min

\* Division with remainder.
LEMMA DivMod ==
  ASSUME NEW a \in Nat, NEW n \in Nat \ {0}
  PROVE  /\ a \div n \in Nat
         /\ n * (a \div n) =< a /\ a < n * (a \div n) + n
OBVIOUS

\* The frequency of a period is the integer nearest to the clock divided by it.
LEMMA NearestFrequency ==
  ASSUME NEW n \in Nat, n # 0
  PROVE  LET f == pwm_frequency_for_cycle(n)
         IN  /\ f \in Nat
             /\ 2 * ClockFreq - n =< 2 * f * n /\ 2 * f * n =< 2 * ClockFreq + n
<1> DEFINE h == n \div 2
           f == (ClockFreq + h) \div n
           m == n * f
<1>1. ClockFreq \in Nat
  BY PwmAssumption
<1>2. h \in Nat /\ 2 * h =< n /\ n < 2 * h + 2
  BY DivMod
<1> HIDE DEF h
<1>3. f \in Nat /\ m =< ClockFreq + h /\ ClockFreq + h < m + n
  BY <1>1, <1>2, DivMod
<1>4. m \in Nat /\ 2 * f * n = 2 * m
  BY <1>3
<1>5. pwm_frequency_for_cycle(n) = f
  BY DEF pwm_frequency_for_cycle, h
<1> HIDE DEF f, m
<1>6. 2 * ClockFreq - n =< 2 * m /\ 2 * m =< 2 * ClockFreq + n
  BY <1>1, <1>2, <1>3, <1>4
<1> QED BY <1>3, <1>4, <1>5, <1>6

\* A period gives a frequency, none at all when it is zero.
LEMMA FrequencyType ==
  ASSUME NEW n \in Cycles
  PROVE  /\ pwm_frequency_for_cycle(n) \in Nat
         /\ pwm_frequency_for_cycle(n) # 0 => n # 0
<1>1. n \in Nat
  BY PwmAssumption
<1>2. CASE n = 0
  BY <1>2 DEF pwm_frequency_for_cycle
<1>3. CASE n # 0
  BY <1>1, <1>3, NearestFrequency
<1> QED BY <1>2, <1>3

\* An output is not the absence of one.
LEMMA OutputKinds ==
  /\ \A x \in Outputs : /\ x # None /\ x.channel \in LedcChannels /\ x.pin \in OutPins
                        /\ x.cycle \in Cycles /\ x.value \in Duties
                        /\ x.default \in Duties
  /\ TypeInv => \A o \in Configured : o \in Oids /\ objs[o] \in Outputs
<1>1. None.channel = -1 /\ -1 \notin LedcChannels
  BY PwmAssumption DEF None
<1>2. \A x \in Outputs : x.channel \in LedcChannels /\ x # None
  BY <1>1 DEF Outputs
<1>3. TypeInv => \A o \in Configured : o \in Oids /\ objs[o] \in Outputs
  BY DEF TypeInv, Configured
<1> QED BY <1>2, <1>3 DEF Outputs

-----------------------------------------------------------------------------
\* The timer found is booked for the frequency, or free when none is.
LEMMA FoundTimer ==
  ASSUME TypeInv, NEW f, NEW t \in find_or_allocate_timer(f)
  PROVE  /\ t \in LedcTimers /\ timer_frequencies[t] \in {0, f}
         /\ timer_frequencies[t] # f => \A u \in LedcTimers : timer_frequencies[u] # f
<1> DEFINE same == {u \in LedcTimers : timer_frequencies[u] = f}
           free == {u \in LedcTimers : timer_frequencies[u] = 0}
<1>1. same \subseteq Nat /\ free \subseteq Nat
  BY PwmAssumption
<1>2. t \in IF same # {} THEN First(same) ELSE First(free)
  BY DEF find_or_allocate_timer
<1>3. First(same) \subseteq same /\ First(free) \subseteq free
  BY <1>1, FirstIn
<1> QED BY <1>2, <1>3

\* Booking it changes no timer in use.
LEMMA BookedTimer ==
  ASSUME TypeInv, BookingInv, NEW f \in Nat, f # 0, NEW t \in find_or_allocate_timer(f),
         timer_frequencies' = [timer_frequencies EXCEPT ![t] = f]
  PROVE  /\ timer_frequencies' \in [LedcTimers -> Nat] /\ timer_frequencies'[t] = f
         /\ \A u \in LedcTimers \ {t} : timer_frequencies'[u] = timer_frequencies[u]
         /\ \A u \in UsedTimers : timer_frequencies'[u] = timer_frequencies[u]
         /\ UsedTimers' = UsedTimers \cup {t}
         /\ BookingInv'
<1>1. /\ t \in LedcTimers /\ timer_frequencies[t] \in {0, f}
      /\ timer_frequencies[t] # f => \A u \in LedcTimers : timer_frequencies[u] # f
  BY FoundTimer
<1>2. /\ timer_frequencies' \in [LedcTimers -> Nat] /\ timer_frequencies'[t] = f
      /\ \A u \in LedcTimers \ {t} : timer_frequencies'[u] = timer_frequencies[u]
  BY <1>1 DEF TypeInv
<1>3. UsedTimers' = UsedTimers \cup {t}
  BY <1>1, <1>2 DEF UsedTimers
<1>4. \A u \in UsedTimers : timer_frequencies'[u] = timer_frequencies[u]
  BY <1>1, <1>2 DEF UsedTimers
<1>5. BookingInv'
  BY <1>1, <1>2, <1>3 DEF BookingInv, UsedTimers
<1> QED BY <1>2, <1>3, <1>4, <1>5

\* A channel allocated was not in use.
LEMMA FreshChannel ==
  ASSUME NEW c \in allocate_channel
  PROVE  c \in LedcChannels /\ c \notin channel_used
BY PwmAssumption, FirstIn DEF allocate_channel

-----------------------------------------------------------------------------
\* A step that ends in a shutdown may book timers and channels and set up
\* channels nobody used, and the invariant stands.
LEMMA RaiseKeeps ==
  ASSUME IInv, TypeInv', BookingInv', is_shutdown', left' = Oids, objs' = objs,
         channel_used \subseteq channel_used',
         \A c \in channel_used : hw_channel'[c] = hw_channel[c],
         \A t \in UsedTimers : /\ timer_frequencies'[t] = timer_frequencies[t]
                               /\ hw_timer'[t] = hw_timer[t]
  PROVE  IInv'
<1>1. Configured' = Configured
  BY DEF Configured
<1>2. \A o \in Configured : hw_channel'[objs'[o].channel] = hw_channel[objs[o].channel]
  BY DEF IInv, ChannelInv
<1>3. ChannelInv'
  BY <1>1 DEF IInv, ChannelInv
<1>4. OutputAsAsked'
  BY <1>1, <1>2 DEF IInv, OutputAsAsked
<1>5. TimerInv'
  BY <1>1, <1>2 DEF IInv, TimerInv, TimerOf, Asked, UsedTimers
<1>6. RunInv' /\ WalkInv'
  BY DEF RunInv, WalkInv, Configured
<1> QED BY <1>3, <1>4, <1>5, <1>6 DEF IInv

\* A step that only shuts down.
LEMMA ShutdownKeeps == IInv /\ Shutdown /\ UNCHANGED <<resources, hw, objs>> => IInv'
<1> SUFFICES ASSUME IInv, Shutdown, UNCHANGED <<resources, hw, objs>> PROVE IInv'
  OBVIOUS
<1>1. /\ is_shutdown' /\ left' = Oids
      /\ UNCHANGED <<timer_frequencies, channel_used, hw_timer, hw_channel, route, objs>>
  BY DEF Shutdown, resources, hw
<1>2. TypeInv' /\ BookingInv'
  BY <1>1 DEF IInv, TypeInv, BookingInv, UsedTimers
<1> QED BY <1>1, <1>2, RaiseKeeps

-----------------------------------------------------------------------------
\* A setup that fails leaves bookings behind, and the firmware shut down.
LEMMA SetupFailsKeeps ==
  ASSUME IInv, NEW p, NEW cycle \in Cycles, NEW v,
         setup_no_channel(p, cycle, v) \/ setup_timer_fails(p, cycle, v)
  PROVE  IInv'
<1> DEFINE f == pwm_frequency_for_cycle(cycle)
<1>1. f \in Nat /\ f # 0
  BY FrequencyType DEF setup_no_channel, setup_timer_fails, Refused
<1>2. /\ is_shutdown' /\ left' = Oids
      /\ UNCHANGED <<hw_timer, hw_channel, route, objs>>
  BY DEF setup_no_channel, setup_timer_fails, Shutdown, hw
<1>3. PICK t \in find_or_allocate_timer(f) :
        timer_frequencies' = [timer_frequencies EXCEPT ![t] = f]
  BY DEF setup_no_channel, setup_timer_fails
<1>4. channel_used \subseteq channel_used' /\ channel_used' \in SUBSET LedcChannels
  <2>1. CASE setup_no_channel(p, cycle, v)
    BY <2>1 DEF setup_no_channel, IInv, TypeInv
  <2>2. CASE setup_timer_fails(p, cycle, v)
    <3>1. PICK c \in allocate_channel : channel_used' = channel_used \cup {c}
      BY <2>2 DEF setup_timer_fails
    <3> QED BY <3>1, FreshChannel DEF IInv, TypeInv
  <2> QED BY <2>1, <2>2
<1> HIDE DEF f
<1>5. /\ timer_frequencies' \in [LedcTimers -> Nat] /\ BookingInv'
      /\ \A u \in UsedTimers : timer_frequencies'[u] = timer_frequencies[u]
  BY <1>1, <1>3, BookedTimer DEF IInv
<1>6. TypeInv'
  BY <1>2, <1>4, <1>5 DEF IInv, TypeInv
<1> QED BY <1>2, <1>4, <1>5, <1>6, RaiseKeeps

\* What a setup that gets to the channel does with timer t and channel c: the timer
\* runs at the frequency asked for, no timer in use is retuned, and the channel was
\* nobody's.
SetUpWith(o, p, cycle, v, d, f, t, c) ==
  /\ c \notin channel_used
  /\ timer_frequencies' \in [LedcTimers -> Nat] /\ timer_frequencies'[t] = f
  /\ \A u \in UsedTimers : timer_frequencies'[u] = timer_frequencies[u]
  /\ UsedTimers' = UsedTimers \cup {t} /\ BookingInv'
  /\ hw_timer' \in [LedcTimers -> Nat] /\ hw_timer'[t] = f
  /\ \A u \in UsedTimers : hw_timer'[u] = hw_timer[u]
  /\ \/ Shutdown /\ UNCHANGED <<channel_used, hw_channel, route, objs>>
     \/ /\ channel_used' = channel_used \cup {c}
        /\ hw_channel' = [hw_channel EXCEPT ![c] = [timer |-> t, duty |-> v]]
        /\ route' = [route EXCEPT ![p] = c]
        /\ IF objs[o] # None
           THEN Shutdown /\ UNCHANGED objs
           ELSE /\ objs' = [objs EXCEPT ![o] =
                     [channel |-> c, pin |-> p, cycle |-> cycle, value |-> v, default |-> d]]
                /\ UNCHANGED <<is_shutdown, left>>

\* Every setup that gets to the channel is one.
LEMMA SetupParts ==
  ASSUME IInv, ~is_shutdown, NEW o, NEW p \in OutPins \cup {Invalid},
         NEW cycle \in Cycles, NEW v \in Duties, NEW d, setup_configures(o, p, cycle, v, d),
         NEW f, f = pwm_frequency_for_cycle(cycle)
  PROVE  /\ f \in Nat /\ f # 0 /\ f <= MaxFreq
         /\ p \in OutPins /\ v \in Nat /\ v <= PWM_MAX
         /\ \E t \in LedcTimers, c \in LedcChannels : SetUpWith(o, p, cycle, v, d, f, t, c)
<1>1. /\ f \in Nat /\ f # 0 /\ f <= MaxFreq
      /\ p \in OutPins /\ v \in Nat /\ v <= PWM_MAX
  BY FrequencyType, PwmAssumption DEF setup_configures, Refused
<1>2. PICK t \in find_or_allocate_timer(f), c \in allocate_channel :
        /\ timer_frequencies' = [timer_frequencies EXCEPT ![t] = f]
        /\ hw_timer' = IF timer_frequencies[t] = 0
                       THEN [hw_timer EXCEPT ![t] = f] ELSE hw_timer
        /\ \/ Shutdown /\ UNCHANGED <<channel_used, hw_channel, route, objs>>
           \/ /\ channel_used' = channel_used \cup {c}
              /\ hw_channel' = [hw_channel EXCEPT ![c] = [timer |-> t, duty |-> v]]
              /\ route' = [route EXCEPT ![p] = c]
              /\ IF objs[o] # None
                 THEN Shutdown /\ UNCHANGED objs
                 ELSE /\ objs' = [objs EXCEPT ![o] =
                           [channel |-> c, pin |-> p, cycle |-> cycle, value |-> v, default |-> d]]
                      /\ UNCHANGED <<is_shutdown, left>>
  BY DEF setup_configures
<1>3. /\ t \in LedcTimers /\ timer_frequencies[t] \in {0, f}
      /\ c \in LedcChannels /\ c \notin channel_used
  BY <1>2, FoundTimer, FreshChannel DEF IInv
<1>4. /\ timer_frequencies' \in [LedcTimers -> Nat] /\ timer_frequencies'[t] = f
      /\ \A u \in UsedTimers : timer_frequencies'[u] = timer_frequencies[u]
      /\ UsedTimers' = UsedTimers \cup {t} /\ BookingInv'
  BY <1>1, <1>2, BookedTimer DEF IInv
<1>5. /\ hw_timer' \in [LedcTimers -> Nat] /\ hw_timer'[t] = f
      /\ \A u \in UsedTimers : hw_timer'[u] = hw_timer[u]
  <2>1. CASE timer_frequencies[t] = 0
    BY <1>1, <1>2, <1>3, <2>1 DEF IInv, TypeInv, UsedTimers
  <2>2. CASE timer_frequencies[t] # 0
    <3>1. timer_frequencies[t] = f /\ t \in UsedTimers /\ hw_timer' = hw_timer
      BY <1>2, <1>3, <2>2 DEF UsedTimers
    <3> QED BY <3>1 DEF IInv, TypeInv, RunInv
  <2> QED BY <2>1, <2>2
<1>6. SetUpWith(o, p, cycle, v, d, f, t, c)
  BY <1>2, <1>3, <1>4, <1>5 DEF SetUpWith
<1> QED BY <1>1, <1>3, <1>6

\* An output set up has the channel just taken, at the frequency it asked for.
LEMMA SetupKeeps ==
  ASSUME IInv, ~is_shutdown,
         NEW o \in Oids, NEW p \in OutPins \cup {Invalid}, NEW cycle \in Cycles,
         NEW v \in Duties, NEW d \in Duties,
         setup_configures(o, p, cycle, v, d)
  PROVE  IInv'
<1> DEFINE f == pwm_frequency_for_cycle(cycle)
<1>0. PICK t \in LedcTimers, c \in LedcChannels : SetUpWith(o, p, cycle, v, d, f, t, c)
  BY SetupParts
<1>1. f \in Nat /\ f # 0 /\ p \in OutPins /\ v \in Nat
  BY SetupParts
<1> HIDE DEF f
<1>2. \/ Shutdown /\ UNCHANGED <<channel_used, hw_channel, route, objs>>
      \/ /\ channel_used' = channel_used \cup {c}
         /\ hw_channel' = [hw_channel EXCEPT ![c] = [timer |-> t, duty |-> v]]
         /\ route' = [route EXCEPT ![p] = c]
         /\ IF objs[o] # None
            THEN Shutdown /\ UNCHANGED objs
            ELSE /\ objs' = [objs EXCEPT ![o] =
                      [channel |-> c, pin |-> p, cycle |-> cycle, value |-> v, default |-> d]]
                 /\ UNCHANGED <<is_shutdown, left>>
  BY <1>0 DEF SetUpWith
<1>3. t \in LedcTimers /\ c \in LedcChannels /\ c \notin channel_used
  BY <1>0 DEF SetUpWith
<1>4. /\ timer_frequencies' \in [LedcTimers -> Nat] /\ timer_frequencies'[t] = f
      /\ \A u \in UsedTimers : timer_frequencies'[u] = timer_frequencies[u]
      /\ UsedTimers' = UsedTimers \cup {t} /\ BookingInv'
  BY <1>0 DEF SetUpWith
<1>5. /\ hw_timer' \in [LedcTimers -> Nat] /\ hw_timer'[t] = f
      /\ \A u \in UsedTimers : hw_timer'[u] = hw_timer[u]
  BY <1>0 DEF SetUpWith
<1>6. CASE Shutdown /\ UNCHANGED <<channel_used, hw_channel, route, objs>>
  <2>1. TypeInv' /\ is_shutdown' /\ left' = Oids
    BY <1>4, <1>5, <1>6 DEF Shutdown, IInv, TypeInv
  <2> QED BY <1>4, <1>5, <1>6, <2>1, RaiseKeeps
<1>7. ASSUME channel_used' = channel_used \cup {c},
             hw_channel' = [hw_channel EXCEPT ![c] = [timer |-> t, duty |-> v]],
             route' = [route EXCEPT ![p] = c]
      PROVE  /\ channel_used' \in SUBSET LedcChannels
             /\ hw_channel' \in [LedcChannels -> Channels]
             /\ hw_channel'[c].timer = t /\ hw_channel'[c].duty = v
             /\ \A e \in channel_used : hw_channel'[e] = hw_channel[e]
             /\ route' \in [OutPins -> LedcChannels \cup {-1}]
             /\ route'[p] = c /\ \A q \in OutPins \ {p} : route'[q] = route[q]
  <2>1. [timer |-> t, duty |-> v] \in Channels
    BY <1>1, <1>3 DEF Channels
  <2> QED BY <1>1, <1>3, <1>7, <2>1 DEF IInv, TypeInv
<1>8. CASE /\ channel_used' = channel_used \cup {c}
           /\ hw_channel' = [hw_channel EXCEPT ![c] = [timer |-> t, duty |-> v]]
           /\ route' = [route EXCEPT ![p] = c]
           /\ Shutdown /\ UNCHANGED objs
  <2>1. TypeInv' /\ is_shutdown' /\ left' = Oids
    BY <1>4, <1>5, <1>7, <1>8 DEF Shutdown, IInv, TypeInv
  <2> QED BY <1>4, <1>5, <1>7, <1>8, <2>1, RaiseKeeps
<1>9. CASE /\ channel_used' = channel_used \cup {c}
           /\ hw_channel' = [hw_channel EXCEPT ![c] = [timer |-> t, duty |-> v]]
           /\ route' = [route EXCEPT ![p] = c]
           /\ objs[o] = None
           /\ objs' = [objs EXCEPT ![o] = [channel |-> c, pin |-> p, cycle |-> cycle,
                                          value |-> v, default |-> d]]
           /\ UNCHANGED <<is_shutdown, left>>
  <2>1. [channel |-> c, pin |-> p, cycle |-> cycle, value |-> v, default |-> d]
          \in Outputs
    BY <1>1, <1>3 DEF Outputs
  <2>2. /\ objs' \in [Oids -> Outputs \cup {None}]
        /\ objs'[o] \in Outputs /\ objs'[o].channel = c /\ objs'[o].pin = p
        /\ objs'[o].cycle = cycle /\ objs'[o].value = v
        /\ \A x \in Oids \ {o} : objs'[x] = objs[x]
    BY <1>9, <2>1 DEF IInv, TypeInv
  <2>3. o \notin Configured /\ Configured' = Configured \cup {o}
        /\ \A x \in Configured : objs'[x] = objs[x]
    BY <1>9, <2>2, OutputKinds DEF Configured
  <2>4. TypeInv'
    BY <1>4, <1>5, <1>7, <1>9, <2>2 DEF IInv, TypeInv
  <2>5. \A x \in Configured : objs[x].channel \in channel_used /\ objs[x].channel # c
    BY <1>3 DEF IInv, ChannelInv
  <2>6. ChannelInv'
    BY <1>9, <2>2, <2>3, <2>5 DEF IInv, ChannelInv
  <2>7. \A x \in Configured : hw_channel'[objs'[x].channel] = hw_channel[objs[x].channel]
    BY <1>7, <1>9, <2>3, <2>5
  <2>8. OutputAsAsked'
    <3> SUFFICES ASSUME NEW x \in Configured'
                 PROVE  /\ hw_channel'[objs'[x].channel].duty = objs'[x].value
                        /\ (\A y \in Configured' \ {x} : objs'[y].pin # objs'[x].pin)
                             => route'[objs'[x].pin] = objs'[x].channel
      BY DEF OutputAsAsked
    <3>1. CASE x = o
      BY <1>7, <1>9, <2>2, <3>1
    <3>2. CASE x # o
      <4>1. x \in Configured /\ objs[x].pin \in OutPins
        BY <2>3, <3>2, OutputKinds DEF IInv
      <4>2. hw_channel'[objs'[x].channel].duty = objs'[x].value
        BY <4>1, <2>3, <2>7 DEF IInv, OutputAsAsked
      <4>3. ASSUME \A y \in Configured' \ {x} : objs'[y].pin # objs'[x].pin
            PROVE  route'[objs'[x].pin] = objs'[x].channel
        <5>1. objs[x].pin # p
          BY <4>1, <4>3, <2>2, <2>3, <3>2
        <5>2. \A y \in Configured \ {x} : objs[y].pin # objs[x].pin
          BY <4>1, <4>3, <2>3
        <5>3. route[objs[x].pin] = objs[x].channel
          BY <4>1, <5>2 DEF IInv, OutputAsAsked
        <5> QED BY <4>1, <5>1, <5>3, <1>7, <1>9, <2>3
      <4> QED BY <4>2, <4>3
    <3> QED BY <3>1, <3>2
  <2>9. /\ \A x \in Configured : Asked(x)' = Asked(x) /\ TimerOf(x)' = TimerOf(x)
        /\ Asked(o)' = f /\ TimerOf(o)' = t
    BY <1>7, <1>9, <2>2, <2>3, <2>7 DEF Asked, TimerOf, f
  <2>10. TimerInv'
    <3> SUFFICES ASSUME NEW x \in Configured'
                 PROVE  /\ TimerOf(x)' \in LedcTimers /\ Asked(x)' # 0
                        /\ timer_frequencies'[TimerOf(x)'] = Asked(x)'
                        /\ hw_timer'[TimerOf(x)'] = Asked(x)'
      BY DEF TimerInv
    <3>1. CASE x = o
      BY <1>1, <1>3, <1>4, <1>5, <2>9, <3>1
    <3>2. CASE x # o
      <4>1. x \in Configured
        BY <2>3, <3>2
      <4>2. TimerOf(x) \in UsedTimers
        BY <4>1 DEF IInv, TimerInv, UsedTimers
      <4> QED BY <4>1, <4>2, <1>4, <1>5, <2>9 DEF IInv, TimerInv
    <3> QED BY <3>1, <3>2
  <2>11. RunInv'
    <3>1. left' = {}
      BY <1>9 DEF IInv, RunInv
    <3>2. channel_used' = {objs'[x].channel : x \in Configured'}
      BY <1>9, <2>2, <2>3 DEF IInv, RunInv
    <3>3. ASSUME NEW u \in UsedTimers'
          PROVE  /\ hw_timer'[u] = timer_frequencies'[u]
                 /\ \E x \in Configured' : Asked(x)' = timer_frequencies'[u]
      <4>1. CASE u = t
        BY <4>1, <1>4, <1>5, <2>3, <2>9
      <4>2. CASE u # t
        <5>1. u \in UsedTimers
          BY <4>2, <3>3, <1>4
        <5>2. PICK x \in Configured : Asked(x) = timer_frequencies[u]
          BY <5>1 DEF IInv, RunInv
        <5> QED BY <5>1, <5>2, <1>4, <1>5, <2>3, <2>9 DEF IInv, RunInv
      <4> QED BY <4>1, <4>2
    <3> QED BY <3>1, <3>2, <3>3 DEF RunInv
  <2>12. WalkInv'
    BY <1>9 DEF WalkInv
  <2> QED BY <1>4, <2>4, <2>6, <2>8, <2>10, <2>11, <2>12 DEF IInv
<1> QED BY <1>2, <1>6, <1>8, <1>9

-----------------------------------------------------------------------------
\* A write changes the duty of the output's own channel, and of the output nothing
\* but its value.
LEMMA WriteParts ==
  ASSUME IInv, NEW o \in Configured, NEW v \in Duties,
         hw_channel' = [hw_channel EXCEPT ![objs[o].channel].duty = v],
         objs' = [objs EXCEPT ![o].value = v],
         NEW ch, ch = objs[o].channel
  PROVE  /\ o \in Oids /\ objs[o] \in Outputs /\ ch \in channel_used /\ ch \in LedcChannels
         /\ v \in Nat
         /\ objs' \in [Oids -> Outputs \cup {None}] /\ objs'[o].value = v
         /\ \A x \in Oids \ {o} : objs'[x] = objs[x]
         /\ hw_channel' \in [LedcChannels -> Channels]
         /\ hw_channel'[ch].duty = v /\ hw_channel'[ch].timer = hw_channel[ch].timer
         /\ \A c \in LedcChannels \ {ch} : hw_channel'[c] = hw_channel[c]
         /\ Configured' = Configured
         /\ \A x \in Configured :
              /\ x \in Oids /\ objs[x] \in Outputs
              /\ objs'[x].channel = objs[x].channel /\ objs'[x].pin = objs[x].pin
              /\ objs'[x].cycle = objs[x].cycle /\ objs'[x].default = objs[x].default
<1>1. /\ o \in Oids /\ objs[o] \in Outputs /\ ch \in channel_used /\ ch \in LedcChannels
      /\ v \in Nat
  BY OutputKinds, PwmAssumption DEF IInv, ChannelInv
<1>2. /\ objs' \in [Oids -> Outputs \cup {None}] /\ objs'[o] = [objs[o] EXCEPT !.value = v]
      /\ objs'[o] \in Outputs /\ objs'[o].value = v
      /\ objs'[o].channel = ch /\ objs'[o].pin = objs[o].pin
      /\ objs'[o].cycle = objs[o].cycle /\ objs'[o].default = objs[o].default
      /\ \A x \in Oids \ {o} : objs'[x] = objs[x]
  <2>1. /\ [objs[o] EXCEPT !.value = v] \in Outputs
        /\ [objs[o] EXCEPT !.value = v].value = v
        /\ [objs[o] EXCEPT !.value = v].channel = ch
        /\ [objs[o] EXCEPT !.value = v].pin = objs[o].pin
        /\ [objs[o] EXCEPT !.value = v].cycle = objs[o].cycle
        /\ [objs[o] EXCEPT !.value = v].default = objs[o].default
    BY <1>1 DEF Outputs
  <2>2. objs \in [Oids -> Outputs \cup {None}]
    BY DEF IInv, TypeInv
  <2>3. /\ DOMAIN objs' = Oids /\ objs'[o] = [objs[o] EXCEPT !.value = v]
        /\ \A x \in Oids \ {o} : objs'[x] = objs[x]
    BY <1>1, <2>2
  <2>4. objs' = [x \in Oids |-> objs'[x]]
    BY <2>2
  <2> QED BY <2>1, <2>2, <2>3, <2>4
<1>3. /\ hw_channel' \in [LedcChannels -> Channels]
      /\ hw_channel'[ch].duty = v /\ hw_channel'[ch].timer = hw_channel[ch].timer
      /\ \A c \in LedcChannels \ {ch} : hw_channel'[c] = hw_channel[c]
  BY <1>1 DEF IInv, TypeInv, Channels
<1>4. Configured' = Configured /\ \A x \in Configured : x \in Oids /\ objs[x] \in Outputs
  BY <1>1, <1>2, OutputKinds DEF Configured, IInv
<1>5. \A x \in Configured : /\ objs'[x].channel = objs[x].channel
                            /\ objs'[x].pin = objs[x].pin
                            /\ objs'[x].cycle = objs[x].cycle
                            /\ objs'[x].default = objs[x].default
  BY <1>2, <1>4
<1> QED BY <1>1, <1>2, <1>3, <1>4, <1>5

\* A write reaches the output's own channel and no other.
LEMMA DutyWritten ==
  ASSUME IInv, NEW o \in Configured, NEW v \in Duties,
         hw_channel' = [hw_channel EXCEPT ![objs[o].channel].duty = v],
         objs' = [objs EXCEPT ![o].value = v],
         UNCHANGED <<resources, hw_timer, route, is_shutdown>>,
         left' \in SUBSET Oids,
         is_shutdown \/ left' = left,
         is_shutdown => v = objs[o].default /\ left' = left \ {o}
  PROVE  IInv'
<1> DEFINE ch == objs[o].channel
<1>1. /\ o \in Oids /\ objs[o] \in Outputs /\ ch \in channel_used /\ ch \in LedcChannels
      /\ v \in Nat
      /\ objs' \in [Oids -> Outputs \cup {None}] /\ objs'[o].value = v
      /\ \A x \in Oids \ {o} : objs'[x] = objs[x]
  BY WriteParts
<1>2. /\ hw_channel' \in [LedcChannels -> Channels]
      /\ hw_channel'[ch].duty = v /\ hw_channel'[ch].timer = hw_channel[ch].timer
      /\ \A c \in LedcChannels \ {ch} : hw_channel'[c] = hw_channel[c]
  BY WriteParts
<1>3. Configured' = Configured /\ \A x \in Configured : x \in Oids /\ objs[x] \in Outputs
  BY WriteParts
<1>4. \A x \in Configured : /\ objs'[x].channel = objs[x].channel
                            /\ objs'[x].pin = objs[x].pin
                            /\ objs'[x].cycle = objs[x].cycle
                            /\ objs'[x].default = objs[x].default
  BY WriteParts
<1>5. /\ objs' \in [Oids -> Outputs \cup {None}] /\ objs'[o].value = v
      /\ objs'[o].channel = ch /\ objs'[o].default = objs[o].default
      /\ \A x \in Oids \ {o} : objs'[x] = objs[x]
  BY <1>1, <1>4
<1>6. \A x \in Configured \ {o} :
        /\ objs'[x] = objs[x] /\ objs[x].channel # ch
        /\ hw_channel'[objs'[x].channel] = hw_channel[objs[x].channel]
  <2> SUFFICES ASSUME NEW x \in Configured \ {o}
               PROVE  /\ objs'[x] = objs[x] /\ objs[x].channel # ch
                      /\ hw_channel'[objs'[x].channel] = hw_channel[objs[x].channel]
    OBVIOUS
  <2>1. x \in Oids /\ objs[x].channel \in LedcChannels
    BY <1>3, OutputKinds
  <2>2. objs[x].channel # ch
    BY DEF IInv, ChannelInv
  <2> QED BY <1>5, <1>2, <2>1, <2>2
<1> HIDE DEF ch
<1>7. /\ UNCHANGED <<timer_frequencies, channel_used, hw_timer, route, is_shutdown>>
  BY DEF resources
<1>8. TypeInv'
  BY <1>5, <1>2, <1>7 DEF IInv, TypeInv
<1>9. ChannelInv'
  BY <1>3, <1>4, <1>7 DEF IInv, ChannelInv
<1>10. OutputAsAsked'
  <2> SUFFICES ASSUME NEW x \in Configured
               PROVE  /\ hw_channel'[objs'[x].channel].duty = objs'[x].value
                      /\ (\A y \in Configured \ {x} : objs'[y].pin # objs'[x].pin)
                           => is_shutdown' \/ route'[objs'[x].pin] = objs'[x].channel
    BY <1>3 DEF OutputAsAsked
  <2>1. hw_channel'[objs'[x].channel].duty = objs'[x].value
    <3>1. CASE x = o
      BY <1>5, <1>2, <3>1
    <3>2. CASE x # o
      BY <1>6, <3>2 DEF IInv, OutputAsAsked
    <3> QED BY <3>1, <3>2
  <2> QED BY <2>1, <1>4, <1>7 DEF IInv, OutputAsAsked
<1>11. \A x \in Configured : Asked(x)' = Asked(x) /\ TimerOf(x)' = TimerOf(x)
  <2> SUFFICES ASSUME NEW x \in Configured
               PROVE  Asked(x)' = Asked(x) /\ TimerOf(x)' = TimerOf(x)
    OBVIOUS
  <2>1. Asked(x)' = Asked(x)
    BY <1>4 DEF Asked
  <2>2. TimerOf(x)' = TimerOf(x)
    <3>1. CASE x = o
      BY <1>5, <1>2, <3>1 DEF TimerOf, ch
    <3>2. CASE x # o
      BY <1>6, <3>2 DEF TimerOf
    <3> QED BY <3>1, <3>2
  <2> QED BY <2>1, <2>2
<1>12. TimerInv' /\ BookingInv'
  BY <1>3, <1>7, <1>11 DEF IInv, TimerInv, BookingInv, UsedTimers
<1>13. RunInv'
  BY <1>3, <1>4, <1>7, <1>11 DEF IInv, RunInv, UsedTimers
<1>14. WalkInv'
  <2> SUFFICES ASSUME is_shutdown, NEW x \in Configured, x \notin left'
               PROVE  hw_channel'[objs'[x].channel].duty = objs'[x].default
    BY <1>3, <1>7 DEF WalkInv
  <2>1. CASE x = o
    BY <1>5, <1>2, <2>1
  <2>2. CASE x # o
    BY <1>6, <2>2 DEF IInv, WalkInv
  <2> QED BY <2>1, <2>2
<1> QED BY <1>8, <1>9, <1>10, <1>12, <1>13, <1>14 DEF IInv

\* A write of a value or a default: it takes effect, or shuts the firmware down.
LEMMA WriteKeeps ==
  ASSUME IInv, NEW o \in Configured, NEW v \in Duties, NEW then \in SUBSET Oids,
         gpio_pwm_write(o, v, then),
         is_shutdown \/ then = left,
         is_shutdown => v = objs[o].default /\ then = left \ {o}
  PROVE  IInv'
<1>1. CASE /\ hw_channel' = [hw_channel EXCEPT ![objs[o].channel].duty = v]
           /\ objs' = [objs EXCEPT ![o].value = v]
           /\ left' = then
           /\ UNCHANGED <<resources, hw_timer, route, is_shutdown>>
  BY <1>1, DutyWritten
<1>2. CASE Shutdown /\ UNCHANGED <<resources, hw, objs>>
  BY <1>2, ShutdownKeeps
<1> QED BY <1>1, <1>2 DEF gpio_pwm_write

\* One object of the shutdown's walk is passed, or written its default.
LEMMA WalkKeeps == IInv /\ pwm_shutdown => IInv'
<1> SUFFICES ASSUME IInv, pwm_shutdown PROVE IInv'
  OBVIOUS
<1>1. left \subseteq Oids /\ Oids \subseteq Nat
  BY PwmAssumption DEF IInv, TypeInv
<1>2. PICK o \in First(left) :
        IF objs[o] = None
        THEN left' = left \ {o} /\ UNCHANGED <<resources, hw, objs, is_shutdown, failures>>
        ELSE gpio_pwm_write(o, objs[o].default, left \ {o})
  BY DEF pwm_shutdown
<1>3. o \in left /\ o \in Oids
  BY <1>1, FirstIn
<1>4. is_shutdown
  BY <1>3 DEF IInv, RunInv
<1>5. CASE objs[o] = None
  <2>1. left' = left \ {o} /\ o \notin Configured /\ is_shutdown'
        /\ UNCHANGED <<timer_frequencies, channel_used, hw_timer, hw_channel, route, objs>>
    BY <1>2, <1>4, <1>5 DEF resources, hw, Configured
  <2>2. Configured' = Configured
    BY <2>1 DEF Configured
  <2>3. TypeInv'
    BY <2>1 DEF IInv, TypeInv
  <2>4. ChannelInv' /\ OutputAsAsked' /\ TimerInv' /\ BookingInv'
    BY <2>1, <2>2, <1>4 DEF IInv, ChannelInv, OutputAsAsked, TimerInv, TimerOf, Asked,
                            BookingInv, UsedTimers
  <2>5. RunInv' /\ WalkInv'
    BY <2>1, <2>2, <1>4 DEF IInv, RunInv, WalkInv
  <2> QED BY <2>3, <2>4, <2>5 DEF IInv
<1>6. CASE objs[o] # None
  <2>1. o \in Configured /\ objs[o].default \in Duties
    BY <1>3, <1>6, OutputKinds DEF Configured, IInv
  <2> QED BY <2>1, <1>1, <1>2, <1>4, <1>6, WriteKeeps
<1> QED BY <1>5, <1>6

\* Out of reset nothing is booked.
LEMMA FreshStart ==
  ASSUME timer_frequencies = [t \in LedcTimers |-> 0], channel_used = {},
         hw_timer = [t \in LedcTimers |-> 0],
         hw_channel = [c \in LedcChannels |-> Unbound],
         route = [p \in OutPins |-> -1], objs = [o \in Oids |-> None],
         ~is_shutdown, left = {}
  PROVE  IInv
<1>1. Unbound \in Channels
  BY DEF Unbound, Channels
<1>2. TypeInv
  BY <1>1 DEF TypeInv
<1>3. Configured = {} /\ UsedTimers = {}
  BY DEF Configured, UsedTimers
<1> QED BY <1>2, <1>3 DEF IInv, ChannelInv, OutputAsAsked, TimerInv, BookingInv, RunInv,
                          WalkInv

\* The invariant holds in every reachable state.
LEMMA Invariance == Spec => []IInv
<1>1. Init => IInv
  BY FreshStart DEF Init
<1>2. IInv /\ [Next]_vars => IInv'
  <2> SUFFICES ASSUME IInv, [Next]_vars PROVE IInv'
    OBVIOUS
  <2>1. ASSUME NEW o \in Oids, NEW v \in Duties, pwm_event(o, v)
        PROVE  IInv'
    <3>1. o \in Configured /\ ~is_shutdown /\ gpio_pwm_write(o, v, left)
          /\ left \in SUBSET Oids
      BY <2>1 DEF pwm_event, Configured, IInv, TypeInv
    <3> QED BY <3>1, WriteKeeps
  <2>2. ASSUME NEW o \in Oids, NEW v \in Duties, NEW p \in OutPins \cup {Invalid},
               NEW cycle \in Cycles, NEW d \in Duties, config_pwm_out(o, p, cycle, v, d)
        PROVE  IInv'
    <3>1. CASE setup_refused(p, cycle, v)
      BY <3>1, ShutdownKeeps DEF setup_refused
    <3>2. CASE setup_no_channel(p, cycle, v) \/ setup_timer_fails(p, cycle, v)
      BY <3>2, SetupFailsKeeps
    <3>3. CASE setup_configures(o, p, cycle, v, d)
      BY <2>2, <3>3, SetupKeeps DEF config_pwm_out
    <3> QED BY <2>2, <3>1, <3>2, <3>3 DEF config_pwm_out
  <2>3. CASE OtherShutdown
    BY <2>3, ShutdownKeeps DEF OtherShutdown
  <2>4. CASE esp_restart
    <3>1. /\ timer_frequencies' = [t \in LedcTimers |-> 0] /\ channel_used' = {}
          /\ hw_timer' = [t \in LedcTimers |-> 0]
          /\ hw_channel' = [c \in LedcChannels |-> Unbound]
          /\ route' = [p \in OutPins |-> -1] /\ objs' = [o \in Oids |-> None]
          /\ ~is_shutdown' /\ left' = {}
      BY <2>4 DEF esp_restart
    <3>2. TypeInv'
      <4>1. Unbound \in Channels
        BY DEF Unbound, Channels
      <4> QED BY <3>1, <4>1 DEF TypeInv
    <3>3. Configured' = {} /\ UsedTimers' = {}
      BY <3>1 DEF Configured, UsedTimers
    <3> QED BY <3>1, <3>2, <3>3 DEF IInv, ChannelInv, OutputAsAsked, TimerInv,
                                    BookingInv, RunInv, WalkInv
  <2>5. CASE UNCHANGED vars
    BY <2>5 DEF vars, resources, hw, IInv, TypeInv, ChannelInv, OutputAsAsked, TimerInv,
                TimerOf, Asked, BookingInv, UsedTimers, RunInv, WalkInv, Configured
  <2> QED BY <2>1, <2>2, <2>3, <2>4, <2>5, WalkKeeps DEF Next
<1> QED BY <1>1, <1>2, PTL DEF Spec

-----------------------------------------------------------------------------
\* A channel a pin follows is in use, on a timer in use, and followed by no other.
RouteInv ==
  \A p \in OutPins : route[p] # -1 =>
    /\ route[p] \in channel_used
    /\ hw_channel[route[p]].timer \in UsedTimers
    /\ \A q \in OutPins \ {p} : route[q] # route[p]

\* No step but a reset takes a timer or a channel out of use or retunes a timer in
\* use, whatever it books beside them.
KeptInUse ==
  /\ channel_used \subseteq channel_used' /\ UsedTimers \subseteq UsedTimers'
  /\ \A t \in UsedTimers : hw_timer'[t] = hw_timer[t]

\* A step that moves no pin and no channel in use shows on no pin.
LEMMA NothingShows ==
  ASSUME IInv, RouteInv, KeptInUse, UNCHANGED <<route, objs>>,
         \A c \in channel_used : hw_channel'[c] = hw_channel[c]
  PROVE  RouteInv' /\ WaveOf' = WaveOf /\ HolderOf' = HolderOf /\ AskedOf' = AskedOf
<1>1. RouteInv'
  BY DEF RouteInv, KeptInUse
<1>2. ASSUME NEW p \in OutPins PROVE Wave(p)' = Wave(p)
  BY DEF Wave, RouteInv, KeptInUse
<1>3. WaveOf' = WaveOf
  BY <1>2 DEF WaveOf
<1>4. HolderOf' = HolderOf /\ AskedOf' = AskedOf
  BY DEF HolderOf, AskedOf, Configured
<1> QED BY <1>1, <1>3, <1>4

\* Such a step that shuts down is a stop.
LEMMA RaiseStops ==
  ASSUME IInv, RouteInv, KeptInUse, UNCHANGED <<route, objs>>, is_shutdown',
         \A c \in channel_used : hw_channel'[c] = hw_channel[c]
  PROVE  RouteInv' /\ Waves!Next
BY NothingShows DEF Waves!Next, Waves!Stop

\* So is a step that only shuts down.
LEMMA ShutdownStops ==
  IInv /\ RouteInv /\ Shutdown /\ UNCHANGED <<resources, hw, objs>> => RouteInv' /\ Waves!Next
<1> SUFFICES ASSUME IInv, RouteInv, Shutdown, UNCHANGED <<resources, hw, objs>>
             PROVE  RouteInv' /\ Waves!Next
  OBVIOUS
<1>1. /\ UNCHANGED <<timer_frequencies, channel_used, hw_timer, hw_channel, route, objs>>
      /\ is_shutdown'
  BY DEF Shutdown, resources, hw
<1> QED BY <1>1, RaiseStops DEF KeptInUse, UsedTimers

\* A setup that fails before the channel is a stop: what it booked shows nowhere.
LEMMA SetupFailsStops ==
  ASSUME IInv, RouteInv, NEW p, NEW cycle \in Cycles, NEW v,
         setup_no_channel(p, cycle, v) \/ setup_timer_fails(p, cycle, v)
  PROVE  RouteInv' /\ Waves!Next
<1> DEFINE f == pwm_frequency_for_cycle(cycle)
<1>1. f \in Nat /\ f # 0
  BY FrequencyType DEF setup_no_channel, setup_timer_fails, Refused
<1>2. /\ is_shutdown' /\ UNCHANGED <<hw_timer, hw_channel, route, objs>>
      /\ channel_used \subseteq channel_used'
  BY DEF setup_no_channel, setup_timer_fails, Shutdown, hw
<1>3. PICK t \in find_or_allocate_timer(f) :
        timer_frequencies' = [timer_frequencies EXCEPT ![t] = f]
  BY DEF setup_no_channel, setup_timer_fails
<1> HIDE DEF f
<1>4. UsedTimers' = UsedTimers \cup {t}
  BY <1>1, <1>3, BookedTimer DEF IInv
<1> QED BY <1>2, <1>4, RaiseStops DEF KeptInUse

\* A setup that reaches the channel puts a wave on its own pin, which is the new
\* output's, or nobody's when its object was taken; or it is a stop.
LEMMA SetupEmits ==
  ASSUME IInv, RouteInv, ~is_shutdown,
         NEW o \in Oids, NEW p \in OutPins \cup {Invalid}, NEW cycle \in Cycles,
         NEW v \in Duties, NEW d \in Duties,
         setup_configures(o, p, cycle, v, d)
  PROVE  RouteInv' /\ Waves!Next
<1> DEFINE f == pwm_frequency_for_cycle(cycle)
<1>1. /\ f \in Nat /\ f # 0 /\ f <= MaxFreq /\ p \in OutPins /\ v \in Nat /\ v <= PWM_MAX
      /\ \E t \in LedcTimers, c \in LedcChannels : SetUpWith(o, p, cycle, v, d, f, t, c)
  BY SetupParts
<1>2. PICK t \in LedcTimers, c \in LedcChannels : SetUpWith(o, p, cycle, v, d, f, t, c)
  BY <1>1
<1>3. f \in Waves!Frequencies /\ v \in Waves!Allowed /\ Waves!Nearest(f, cycle)
  <2>1. cycle \in Nat /\ cycle # 0 /\ MaxFreq \in Nat
    BY <1>1, FrequencyType, PwmAssumption
  <2>2. f \in Waves!Frequencies /\ v \in Waves!Allowed
    BY <1>1, <2>1 DEF Waves!Frequencies, Waves!Allowed
  <2> QED BY <2>1, <2>2, NearestFrequency DEF Waves!Nearest
<1> HIDE DEF f
<1>4. /\ c \notin channel_used /\ c # -1
      /\ UsedTimers' = UsedTimers \cup {t} /\ hw_timer'[t] = f
      /\ \A u \in UsedTimers : hw_timer'[u] = hw_timer[u]
  BY <1>2, PwmAssumption DEF SetUpWith
<1>5. CASE Shutdown /\ UNCHANGED <<channel_used, hw_channel, route, objs>>
  BY <1>4, <1>5, RaiseStops DEF Shutdown, KeptInUse
<1>6. CASE /\ channel_used' = channel_used \cup {c}
           /\ hw_channel' = [hw_channel EXCEPT ![c] = [timer |-> t, duty |-> v]]
           /\ route' = [route EXCEPT ![p] = c]
           /\ IF objs[o] # None
              THEN Shutdown /\ UNCHANGED objs
              ELSE /\ objs' = [objs EXCEPT ![o] =
                        [channel |-> c, pin |-> p, cycle |-> cycle,
                         value |-> v, default |-> d]]
                   /\ UNCHANGED <<is_shutdown, left>>
  <2>1. /\ hw_channel'[c] = [timer |-> t, duty |-> v]
        /\ \A e \in channel_used : hw_channel'[e] = hw_channel[e]
        /\ route'[p] = c /\ \A q \in OutPins \ {p} : route'[q] = route[q]
    BY <1>1, <1>4, <1>6 DEF IInv, TypeInv
  <2>2. RouteInv'
    <3> SUFFICES ASSUME NEW q \in OutPins, route'[q] # -1
                 PROVE  /\ route'[q] \in channel_used'
                        /\ hw_channel'[route'[q]].timer \in UsedTimers'
                        /\ \A r \in OutPins \ {q} : route'[r] # route'[q]
      BY DEF RouteInv
    <3>1. CASE q = p
      <4>1. \A r \in OutPins \ {p} : route'[r] # c
        BY <1>4, <2>1 DEF RouteInv
      <4>2. hw_channel'[c].timer = t
        BY <2>1
      <4> QED BY <1>4, <1>6, <2>1, <3>1, <4>1, <4>2
    <3>2. CASE q # p
      <4>1. /\ route'[q] = route[q] /\ route[q] \in channel_used
            /\ hw_channel[route[q]].timer \in UsedTimers
            /\ \A r \in OutPins \ {q} : route[r] # route[q]
        BY <2>1, <3>2 DEF RouteInv
      <4>2. \A r \in OutPins \ {q} : route'[r] # route[q]
        BY <1>4, <2>1, <4>1
      <4> QED BY <1>4, <1>6, <2>1, <4>1, <4>2
    <3> QED BY <3>1, <3>2
  <2>3. WaveOf' = [WaveOf EXCEPT ![p] = [freq |-> f, duty |-> v]]
    <3>1. Wave(p)' = [freq |-> f, duty |-> v]
      BY <1>4, <2>1 DEF Wave
    <3>2. ASSUME NEW q \in OutPins \ {p} PROVE Wave(q)' = Wave(q)
      BY <1>4, <2>1 DEF Wave, RouteInv
    <3> QED BY <1>1, <3>1, <3>2 DEF WaveOf
  <2>4. ASSUME NEW S, \A x \in Oids : x \in S <=> x \in Configured' /\ objs'[x].channel = c,
               S \subseteq Oids,
               \A q \in OutPins \ {p} :
                  {x \in Configured' : objs'[x].channel = route[q]}
                    = {x \in Configured : objs[x].channel = route[q]}
        PROVE  Waves!Emit(p, cycle, S)
    <3>1. HolderOf' = [HolderOf EXCEPT ![p] = S]
      <4>1. {x \in Configured' : objs'[x].channel = route'[p]} = S
        BY <2>1, <2>4 DEF Configured
      <4>2. ASSUME NEW q \in OutPins \ {p}
            PROVE  {x \in Configured' : objs'[x].channel = route'[q]} = HolderOf[q]
        <5>1. route'[q] = route[q]
          BY <2>1
        <5>2. {x \in Configured' : objs'[x].channel = route[q]}
                = {x \in Configured : objs[x].channel = route[q]}
          BY <2>4
        <5> QED BY <5>1, <5>2 DEF HolderOf
      <4>3. HolderOf' = [q \in OutPins |-> IF q = p THEN S ELSE HolderOf[q]]
        BY <4>1, <4>2 DEF HolderOf
      <4>4. HolderOf = [q \in OutPins |-> HolderOf[q]]
        BY DEF HolderOf
      <4> QED BY <1>1, <4>3, <4>4
    <3>2. WaveOf'[p] = [freq |-> f, duty |-> v]
      BY <1>1, <2>3 DEF WaveOf
    <3>3. [freq |-> f, duty |-> v] \in [freq : Waves!Frequencies, duty : Waves!Allowed]
      BY <1>3
    <3>4. [freq |-> f, duty |-> v].freq = f
      OBVIOUS
    <3> QED BY <1>3, <2>3, <3>1, <3>2, <3>3, <3>4 DEF Waves!Emit
  <2>5. \A x \in Configured : objs[x].channel \in channel_used /\ objs[x].channel # c
    BY <1>4 DEF IInv, ChannelInv
  <2>6. CASE objs[o] # None
    <3>1. is_shutdown' /\ objs' = objs /\ Configured' = Configured
      BY <1>6, <2>6 DEF Shutdown, Configured
    <3>2. Waves!Emit(p, cycle, {})
      BY <2>4, <2>5, <3>1
    <3>3. AskedOf' = AskedOf
      BY <3>1 DEF AskedOf
    <3>4. Waves!ConfigureFails(p, cycle)
      BY <3>1, <3>2, <3>3 DEF Waves!ConfigureFails
    <3> QED BY <1>1, <2>2, <3>4 DEF Waves!Next
  <2>7. CASE objs[o] = None
    <3> DEFINE new == [channel |-> c, pin |-> p, cycle |-> cycle, value |-> v, default |-> d]
    <3>1. /\ ~is_shutdown' /\ objs'[o] = new /\ new \in Outputs
          /\ \A x \in Oids \ {o} : objs'[x] = objs[x]
      <4>1. new \in Outputs
        BY <1>1 DEF Outputs
      <4> QED BY <1>6, <2>7, <4>1 DEF IInv, TypeInv
    <3>2. new # None /\ new.channel = c /\ new.default = d
      BY <3>1, OutputKinds
    <3> HIDE DEF new
    <3>3. /\ o \notin Configured /\ Configured' = Configured \cup {o}
          /\ \A x \in Configured : x \in Oids /\ objs'[x] = objs[x]
      BY <2>7, <3>1, <3>2 DEF Configured
    <3>4. ASSUME NEW q \in OutPins \ {p}
          PROVE  {x \in Configured' : objs'[x].channel = route[q]}
                   = {x \in Configured : objs[x].channel = route[q]}
      <4>1. route[q] # c
        BY <1>4 DEF RouteInv
      <4> QED BY <3>1, <3>2, <3>3, <4>1
    <3>5. \A x \in Oids : x \in {o} <=> x \in Configured' /\ objs'[x].channel = c
      BY <2>5, <3>1, <3>2, <3>3
    <3>6. Waves!Emit(p, cycle, {o})
      BY <2>4, <3>4, <3>5
    <3>7. /\ AskedOf[o] = Waves!Unasked
          /\ AskedOf'[o] = [period |-> cycle, default |-> d]
          /\ AskedOf' = [AskedOf EXCEPT ![o] = AskedOf'[o]]
      <4>1. AskedOf[o] = Waves!Unasked
        BY <2>7 DEF AskedOf, Waves!Unasked
      <4>2. objs'[o].cycle = cycle
        BY <3>1 DEF new
      <4>3. AskedOf' = [x \in Oids |-> IF x = o THEN [period |-> cycle, default |-> d]
                                                ELSE AskedOf[x]]
        BY <3>1, <3>2, <4>2 DEF AskedOf
      <4>4. AskedOf = [x \in Oids |-> AskedOf[x]]
        BY DEF AskedOf
      <4> QED BY <4>1, <4>3, <4>4
    <3>8. Waves!Configure(o, p, cycle)
      BY <3>1, <3>6, <3>7 DEF Waves!Configure
    <3> QED BY <1>1, <2>2, <3>8 DEF Waves!Next
  <2> QED BY <2>6, <2>7
<1>7. \/ Shutdown /\ UNCHANGED <<channel_used, hw_channel, route, objs>>
      \/ /\ channel_used' = channel_used \cup {c}
         /\ hw_channel' = [hw_channel EXCEPT ![c] = [timer |-> t, duty |-> v]]
         /\ route' = [route EXCEPT ![p] = c]
         /\ IF objs[o] # None
            THEN Shutdown /\ UNCHANGED objs
            ELSE /\ objs' = [objs EXCEPT ![o] =
                      [channel |-> c, pin |-> p, cycle |-> cycle,
                       value |-> v, default |-> d]]
                 /\ UNCHANGED <<is_shutdown, left>>
  BY <1>2 DEF SetUpWith
<1> QED BY <1>5, <1>6, <1>7

\* A write shows on the pin that follows the output, if any, as its new duty; the
\* walk of a shutdown writes defaults.
LEMMA WriteShows ==
  ASSUME IInv, RouteInv, NEW o \in Configured, NEW v \in Duties, NEW then,
         gpio_pwm_write(o, v, then),
         is_shutdown => v = objs[o].default
  PROVE  RouteInv' /\ Waves!Next
<1>1. CASE Shutdown /\ UNCHANGED <<resources, hw, objs>>
  BY <1>1, ShutdownStops
<1>2. CASE /\ write_in_range(o, v)
           /\ hw_channel' = [hw_channel EXCEPT ![objs[o].channel].duty = v]
           /\ objs' = [objs EXCEPT ![o].value = v]
           /\ UNCHANGED <<resources, hw_timer, route, is_shutdown>>
  <2> DEFINE ch == objs[o].channel
  <2>1. /\ hw_channel' = [hw_channel EXCEPT ![objs[o].channel].duty = v]
        /\ objs' = [objs EXCEPT ![o].value = v]
        /\ UNCHANGED <<timer_frequencies, channel_used, hw_timer, route, is_shutdown>>
        /\ v <= PWM_MAX
    BY <1>2 DEF write_in_range, resources
  <2>0. hw_channel \in [LedcChannels -> Channels]
    BY DEF IInv, TypeInv
  <2>2. /\ o \in Oids /\ objs[o] \in Outputs /\ ch \in LedcChannels
        /\ \A c \in LedcChannels \ {ch} : hw_channel'[c] = hw_channel[c]
        /\ hw_channel'[ch].duty = v /\ hw_channel'[ch].timer = hw_channel[ch].timer
        /\ Configured' = Configured
        /\ \A x \in Configured : /\ objs'[x].channel = objs[x].channel
                                 /\ objs'[x].cycle = objs[x].cycle
                                 /\ objs'[x].default = objs[x].default
    BY <2>1, WriteParts
  <2>3. \A c \in LedcChannels : hw_channel'[c].timer = hw_channel[c].timer
    BY <2>2
  <2>4. channel_used \subseteq LedcChannels /\ UsedTimers' = UsedTimers
    BY <2>1 DEF IInv, TypeInv, UsedTimers
  <2>5. RouteInv'
    BY <2>1, <2>3, <2>4 DEF RouteInv
  <2>6. HolderOf' = HolderOf
    BY <2>1, <2>2 DEF HolderOf
  <2>7. /\ AskedOf' = AskedOf /\ AskedOf[o] # Waves!Unasked
        /\ AskedOf[o].default = objs[o].default
    <3>1. \A x \in Oids : /\ objs'[x] = None <=> objs[x] = None
                          /\ objs[x] # None => /\ objs'[x].default = objs[x].default
                                               /\ objs'[x].cycle = objs[x].cycle
      BY <2>2 DEF Configured
    <3>2. AskedOf' = AskedOf
      BY <3>1 DEF AskedOf
    <3>3. AskedOf[o] = [period |-> objs[o].cycle, default |-> objs[o].default]
      BY <2>2 DEF AskedOf, Configured
    <3>4. objs[o].default # -1
      BY <2>2, PwmAssumption DEF Outputs
    <3> QED BY <3>2, <3>3, <3>4 DEF Waves!Unasked
  <2>8. WaveOf' = [p \in OutPins |-> IF o \in HolderOf[p]
                                     THEN [WaveOf[p] EXCEPT !.duty = v] ELSE WaveOf[p]]
    <3> SUFFICES ASSUME NEW p \in OutPins
                 PROVE  Wave(p)' = IF o \in HolderOf[p]
                                   THEN [Wave(p) EXCEPT !.duty = v] ELSE Wave(p)
      BY DEF WaveOf
    <3>1. o \in HolderOf[p] <=> route[p] = ch
      BY DEF HolderOf
    <3>2. CASE route[p] = ch
      <4>1. ch # -1
        BY <2>2, PwmAssumption
      <4>2. /\ Wave(p) = [freq |-> hw_timer[hw_channel[ch].timer], duty |-> hw_channel[ch].duty]
            /\ Wave(p)' = [freq |-> hw_timer[hw_channel[ch].timer], duty |-> v]
        BY <2>1, <2>2, <3>2, <4>1 DEF Wave
      <4> QED BY <3>1, <3>2, <4>2
    <3>3. CASE route[p] # ch
      BY <2>1, <2>2, <2>4, <3>1, <3>3 DEF Wave, RouteInv
    <3> QED BY <3>2, <3>3
  <2>9. Waves!Write(o, v)
    BY <2>1, <2>6, <2>7, <2>8 DEF Waves!Write
  <2>10. v \in Waves!Allowed
    BY <2>1 DEF Waves!Allowed
  <2> QED BY <2>2, <2>5, <2>9, <2>10 DEF Waves!Next
<1> QED BY <1>1, <1>2 DEF gpio_pwm_write

\* Every step of the outputs is one of the waves, or changes none.
LEMMA StepShows == IInv /\ RouteInv /\ [Next]_vars => RouteInv' /\ [Waves!Next]_(Waves!vars)
<1> SUFFICES ASSUME IInv, RouteInv, [Next]_vars PROVE RouteInv' /\ [Waves!Next]_(Waves!vars)
  OBVIOUS
<1>1. ASSUME NEW o \in Oids, NEW v \in Duties, pwm_event(o, v)
      PROVE  RouteInv' /\ Waves!Next
  BY <1>1, WriteShows DEF pwm_event, Configured
<1>2. ASSUME NEW o \in Oids, NEW v \in Duties, NEW p \in OutPins \cup {Invalid},
             NEW cycle \in Cycles, NEW d \in Duties, config_pwm_out(o, p, cycle, v, d)
      PROVE  RouteInv' /\ Waves!Next
  <2>1. CASE setup_refused(p, cycle, v)
    BY <2>1, ShutdownStops DEF setup_refused
  <2>2. CASE setup_no_channel(p, cycle, v) \/ setup_timer_fails(p, cycle, v)
    BY <2>2, SetupFailsStops
  <2>3. CASE setup_configures(o, p, cycle, v, d)
    BY <1>2, <2>3, SetupEmits DEF config_pwm_out
  <2> QED BY <1>2, <2>1, <2>2, <2>3 DEF config_pwm_out
<1>3. CASE pwm_shutdown
  <2>1. PICK o \in First(left) :
          IF objs[o] = None
          THEN left' = left \ {o} /\ UNCHANGED <<resources, hw, objs, is_shutdown, failures>>
          ELSE gpio_pwm_write(o, objs[o].default, left \ {o})
    BY <1>3 DEF pwm_shutdown
  <2>2. o \in Oids
    BY FirstIn, PwmAssumption DEF IInv, TypeInv
  <2>3. CASE objs[o] = None
    <3>1. UNCHANGED <<timer_frequencies, channel_used, hw_timer, hw_channel, route, objs,
                      is_shutdown>>
      BY <2>1, <2>3 DEF resources, hw
    <3> QED BY <3>1, NothingShows DEF KeptInUse, UsedTimers, Waves!vars
  <2>4. CASE objs[o] # None
    <3>1. o \in Configured /\ objs[o].default \in Duties
      BY <2>2, <2>4, OutputKinds DEF Configured, IInv
    <3> QED BY <2>1, <2>4, <3>1, WriteShows
  <2> QED BY <2>3, <2>4
<1>4. CASE OtherShutdown
  BY <1>4, ShutdownStops DEF OtherShutdown
<1>5. CASE esp_restart
  <2>1. /\ route' = [p \in OutPins |-> -1] /\ objs' = [o \in Oids |-> None] /\ ~is_shutdown'
    BY <1>5 DEF esp_restart
  <2>2. Configured' = {} /\ RouteInv'
    BY <2>1 DEF Configured, RouteInv
  <2>3. WaveOf' = [p \in OutPins |-> Waves!Still]
    BY <2>1 DEF WaveOf, Wave, Waves!Still
  <2>4. HolderOf' = [p \in OutPins |-> {}] /\ AskedOf' = [o \in Oids |-> Waves!Unasked]
    BY <2>1, <2>2 DEF HolderOf, AskedOf, Waves!Unasked
  <2> QED BY <2>1, <2>2, <2>3, <2>4 DEF Waves!Restart, Waves!Next
<1>6. CASE UNCHANGED vars
  <2>1. UNCHANGED <<timer_frequencies, channel_used, hw_timer, hw_channel, route, objs,
                    is_shutdown>>
    BY <1>6 DEF vars, resources, hw
  <2> QED BY <2>1, NothingShows DEF KeptInUse, UsedTimers, Waves!vars
<1> QED BY <1>1, <1>2, <1>3, <1>4, <1>5, <1>6 DEF Next

-----------------------------------------------------------------------------
\* A function one to one and onto leaves the size of its finite domain.
LEMMA SameSize ==
  ASSUME NEW S, NEW T, NEW g \in [S -> T], IsFiniteSet(S),
         \A x, y \in S : g[x] = g[y] => x = y,
         \A z \in T : \E x \in S : g[x] = z
  PROVE  Cardinality(T) = Cardinality(S)
<1>1. g \in Bijection(S, T)
  BY DEF Bijection, Injection, Surjection, IsInjective
<1>2. ExistsBijection(S, T)
  BY <1>1 DEF ExistsBijection
<1> QED BY <1>2, FS_Bijection

\* Every output holds the duty last asked of it, on a channel of its own that its
\* pin follows (hard_pwm.c:134-178).
THEOREM PwmOutputAsAsked == Spec => []OutputAsAsked
<1>1. IInv => OutputAsAsked
  BY DEF IInv
<1> QED BY <1>1, Invariance, PTL

\* Every output runs at the integer frequency nearest to its own period; sharing
\* a timer retunes nobody (hard_pwm.c:45-66, pwm_math.h:9-17).
THEOREM PwmFrequencyNearest == Spec => []FrequencyNearest
<1>1. IInv => FrequencyNearest
  <2> SUFFICES ASSUME IInv, NEW o \in Configured
               PROVE  LET f == hw_timer[TimerOf(o)]
                          n == objs[o].cycle
                      IN  2 * ClockFreq - n =< 2 * f * n /\ 2 * f * n =< 2 * ClockFreq + n
    BY DEF FrequencyNearest, TimerOf
  <2>1. /\ objs[o].cycle \in Cycles /\ objs[o].cycle \in Nat
        /\ Asked(o) # 0 /\ hw_timer[TimerOf(o)] = Asked(o)
    BY OutputKinds, PwmAssumption DEF IInv, TimerInv
  <2>2. objs[o].cycle # 0
    BY <2>1, FrequencyType DEF Asked
  <2> QED BY <2>1, <2>2, NearestFrequency DEF Asked
<1> QED BY <1>1, Invariance, PTL

\* While the firmware runs, channels and timers in use are exactly those its
\* outputs need, counted one by one (hard_pwm.c:45-77, 146-151).
THEOREM PwmNothingLeaks == Spec => []NothingLeaks
<1>1. IInv => NothingLeaks
  <2> SUFFICES ASSUME IInv, ~is_shutdown
               PROVE  /\ channel_used = {objs[o].channel : o \in Configured}
                      /\ Cardinality(channel_used) = Cardinality(Configured)
                      /\ Cardinality(UsedTimers) = Cardinality({Asked(o) : o \in Configured})
    BY DEF NothingLeaks, UsedTimers, Asked
  <2>1. channel_used = {objs[o].channel : o \in Configured}
    BY DEF IInv, RunInv
  <2>2. IsFiniteSet(Configured) /\ IsFiniteSet(UsedTimers)
    BY PwmAssumption, FS_Subset DEF Configured, UsedTimers
  <2>3. Cardinality(channel_used) = Cardinality(Configured)
    <3> DEFINE g == [o \in Configured |-> objs[o].channel]
    <3>1. g \in [Configured -> channel_used]
      BY <2>1
    <3>2. \A x, y \in Configured : g[x] = g[y] => x = y
      BY DEF IInv, ChannelInv
    <3>3. \A z \in channel_used : \E x \in Configured : g[x] = z
      BY <2>1
    <3> HIDE DEF g
    <3> QED BY <2>2, <3>1, <3>2, <3>3, SameSize
  <2>4. Cardinality({Asked(o) : o \in Configured}) = Cardinality(UsedTimers)
    <3> DEFINE F == {Asked(o) : o \in Configured}
               g == [t \in UsedTimers |-> timer_frequencies[t]]
    <3>1. g \in [UsedTimers -> F]
      BY DEF IInv, RunInv
    <3>2. \A x, y \in UsedTimers : g[x] = g[y] => x = y
      BY DEF IInv, BookingInv
    <3>3. \A z \in F : \E x \in UsedTimers : g[x] = z
      <4> SUFFICES ASSUME NEW o \in Configured
                   PROVE  \E x \in UsedTimers : g[x] = Asked(o)
        OBVIOUS
      <4>1. TimerOf(o) \in UsedTimers /\ timer_frequencies[TimerOf(o)] = Asked(o)
        BY DEF IInv, TimerInv, UsedTimers
      <4> QED BY <4>1
    <3> HIDE DEF F, g
    <3>4. Cardinality(F) = Cardinality(UsedTimers)
      BY <2>2, <3>1, <3>2, <3>3, SameSize
    <3> QED BY <3>4 DEF F
  <2> QED BY <2>1, <2>3, <2>4
<1> QED BY <1>1, Invariance, PTL

\* When the shutdown's walk is over every output is at its default, also when a
\* write inside it shut the firmware down once more.
THEOREM PwmDefaultsAfterShutdown == Spec => []DefaultsAfterShutdown
<1>1. IInv => DefaultsAfterShutdown
  BY DEF IInv, WalkInv, Stopped, DefaultsAfterShutdown
<1> QED BY <1>1, Invariance, PTL

\* Pin by pin the outputs are the waves asked for: timers and channels, shared, short
\* or left behind by a failed setup, never show (hard_pwm.c:79-178).
THEOREM PwmWavesKept == Spec => WavesSpec
<1>1. Init => RouteInv /\ Waves!Init
  <2> SUFFICES ASSUME Init PROVE RouteInv /\ Waves!Init
    OBVIOUS
  <2>1. Configured = {} /\ RouteInv
    BY DEF Init, Configured, RouteInv
  <2>2. WaveOf = [p \in OutPins |-> Waves!Still]
    BY DEF Init, WaveOf, Wave, Waves!Still
  <2>3. HolderOf = [p \in OutPins |-> {}] /\ AskedOf = [o \in Oids |-> Waves!Unasked]
    BY <2>1 DEF Init, HolderOf, AskedOf, Waves!Unasked
  <2> QED BY <2>1, <2>2, <2>3 DEF Init, Waves!Init
<1>2. IInv /\ RouteInv /\ [Next]_vars => RouteInv' /\ [Waves!Next]_(Waves!vars)
  BY StepShows
<1> QED BY <1>1, <1>2, Invariance, PTL DEF Spec, WavesSpec, Waves!Spec

\* In a shutdown each step leaves fewer outputs to reach, or is a reset, or there is
\* a cause for starting over: the driver refused, or the output just reached has a
\* default out of range.  That its channel were not in use is no cause that occurs
\* (hard_pwm.c:158-178).
THEOREM PwmStartsOverForCause == Spec => StartsOverForCause
<1>1. ASSUME IInv, [Next]_vars, is_shutdown, is_shutdown', vars' # vars
      PROVE  \/ left' \subseteq left /\ left' # left
             \/ failures' = failures + 1
             \/ \E o \in First(left) : OutOfRange(o)
  <2>1. pwm_shutdown
    BY <1>1 DEF Next, pwm_event, config_pwm_out, OtherShutdown, esp_restart
  <2>2. PICK o \in First(left) :
          IF objs[o] = None
          THEN left' = left \ {o} /\ UNCHANGED <<resources, hw, objs, is_shutdown, failures>>
          ELSE gpio_pwm_write(o, objs[o].default, left \ {o})
    BY <2>1 DEF pwm_shutdown
  <2>3. o \in left /\ o \in Oids
    BY <1>1, FirstIn, PwmAssumption DEF IInv, TypeInv
  <2>4. CASE objs[o] = None
    BY <2>2, <2>3, <2>4
  <2>5. CASE objs[o] # None /\ ~write_in_range(o, objs[o].default)
    <3>1. o \in Configured /\ objs[o].channel \in channel_used
          /\ objs[o].default \in Nat /\ PWM_MAX \in Nat
      BY <1>1, <2>3, <2>5, OutputKinds, PwmAssumption
      DEF IInv, TypeInv, ChannelInv, Configured
    <3>2. OutOfRange(o)
      BY <2>5, <3>1 DEF write_in_range, OutOfRange
    <3> QED BY <3>2
  <2>6. CASE objs[o] # None /\ write_in_range(o, objs[o].default)
    BY <2>2, <2>3, <2>6 DEF gpio_pwm_write
  <2> QED BY <2>4, <2>5, <2>6
<1>2. IInv /\ [Next]_vars
        => [is_shutdown /\ is_shutdown'
              => \/ left' \subseteq left /\ left' # left
                 \/ failures' = failures + 1
                 \/ \E o \in First(left) : OutOfRange(o)]_vars
  BY <1>1
<1> QED BY <1>2, Invariance, PTL DEF Spec, StartsOverForCause

=============================================================================
