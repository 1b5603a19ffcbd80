--------------------------- MODULE EventDispatcher ---------------------------
(***************************************************************************)
(* The event dispatcher (internal/events) and the event streams of the API *)
(* that listen to it (SubscribeToEventStream in internal/api/grpc.go).     *)
(*                                                                         *)
(* A handler that has changed a link calls Dispatch, which sends the event *)
(* to every listener while it holds the read lock of the list.  A stream   *)
(* adds its listener when it starts, and removes it when it ends; the      *)
(* removal searches the list before it takes the lock.  The list is a Go   *)
(* slice, so the search may run over an array that others rewrite.         *)
(***************************************************************************)
EXTENDS Naturals, Sequences, FiniteSets

CONSTANTS
    Dispatchers, \* goroutines of API calls that dispatch events
    Streams,     \* event streams; a stream and its listener are one
    Closing,     \* the streams that may end
    Capacity,    \* EventChanBufferSize (100 in the code)
    MaxEvents,   \* bound: events a goroutine dispatches
    None

ASSUME ClosingAssumption   == Closing \subseteq Streams
ASSUME CapacityAssumption  == Capacity \in Nat \ {0}
ASSUME MaxEventsAssumption == MaxEvents \in Nat
ASSUME NoneAssumption      == None \notin Streams

VARIABLES
    arrays,   \* backing arrays, in the order of their allocation; None: a cell never written
    list,     \* d.listeners: the first len cells of array arr
    readers,  \* dispatchers that hold d.lock for reading
    writer,   \* the stream that holds d.lock for writing or waits for the readers to leave
    channel,  \* channel[s]: the buffered events of the listener of s
    disp,     \* disp[d]: where dispatcher d is, with its copy of the list
    stream,   \* stream[s]: where stream s is, with its copy of the list
    past,     \* past[s][d]: the last event of d that s has received or lost
    crashed   \* a slice index was out of range: no handler recovers from the panic

vars == <<arrays, list, readers, writer, channel, disp, stream, past, crashed>>

-----------------------------------------------------------------------------
(* Slices.                                                                 *)

(* What lies beyond an array is no listener.                               *)
Cell(slice, i) == IF i <= Len(arrays[slice.arr]) THEN arrays[slice.arr][i] ELSE None
Elements(slice) == SubSeq(arrays[slice.arr], 1, slice.len)
Registered == {Cell(list, i) : i \in 1..list.len}

(* append: in place while the array has room, else into one twice as long. *)
AppendToList(s) ==
    LET cap == Len(arrays[list.arr])
        room == (IF cap = 0 THEN 1 ELSE 2 * cap) - (list.len + 1)
    IN  /\ list.len < cap => /\ arrays' = [arrays EXCEPT ![list.arr][list.len + 1] = s]
                             /\ list' = [list EXCEPT !.len = @ + 1]
        /\ list.len = cap => /\ arrays' = Append(arrays, Elements(list) \o <<s>> \o [i \in 1..room |-> None])
                             /\ list' = [arr |-> Len(arrays) + 1, len |-> list.len + 1]

(* append(d.listeners[:i], d.listeners[i+1:]...) shifts the cells in place.*)
DeleteFromList(i) ==
    /\ arrays' = [arrays EXCEPT ![list.arr] =
                    [j \in DOMAIN @ |-> IF i <= j /\ j < list.len THEN @[j + 1] ELSE @[j]]]
    /\ list' = [list EXCEPT !.len = @ - 1]

-----------------------------------------------------------------------------
(* Dispatch.                                                               *)

Event(d) == [from |-> d, n |-> disp[d].n]
Target(d) == Cell(disp[d].list, disp[d].i)

Dispatch(d) ==
    /\ disp[d].pc = "idle"
    /\ disp[d].n < MaxEvents
    /\ disp' = [disp EXCEPT ![d].pc = "rlock", ![d].n = @ + 1]
    /\ UNCHANGED <<arrays, list, readers, writer, channel, stream, past, crashed>>

(* A writer that waits keeps new readers out.                              *)
RLock(d) ==
    /\ disp[d].pc = "rlock"
    /\ writer = None
    /\ readers' = readers \cup {d}
    /\ disp' = [disp EXCEPT ![d].pc = "send", ![d].list = list, ![d].i = 1]
    /\ UNCHANGED <<arrays, list, writer, channel, stream, past, crashed>>

(* Send tries the channel first.  When it is full, the oldest event is     *)
(* taken out and the new one put in, two steps that may both block.        *)
Send(d) ==
    /\ disp[d].pc = "send"
    /\ disp[d].i <= disp[d].list.len
    /\ IF Len(channel[Target(d)]) < Capacity
       THEN /\ channel' = [channel EXCEPT ![Target(d)] = Append(@, Event(d))]
            /\ disp' = [disp EXCEPT ![d].i = @ + 1]
       ELSE /\ disp' = [disp EXCEPT ![d].pc = "evict"]
            /\ UNCHANGED channel
    /\ UNCHANGED <<arrays, list, readers, writer, stream, past, crashed>>

Forget(s, e) == past' = [past EXCEPT ![s][e.from] = e.n]

Evict_Newest(d) ==
    /\ disp[d].pc = "evict"
    /\ channel[Target(d)] # <<>>
    /\ LET last == Len(channel[Target(d)])
       IN  /\ Forget(Target(d), channel[Target(d)][last])
           /\ channel' = [channel EXCEPT ![Target(d)] = SubSeq(@, 1, last - 1)]
    /\ disp' = [disp EXCEPT ![d].pc = "resend"]
    /\ UNCHANGED <<arrays, list, readers, writer, stream, crashed>>
Evict(d) ==
    /\ disp[d].pc = "evict"
    /\ channel[Target(d)] # <<>>
    /\ Forget(Target(d), Head(channel[Target(d)]))
    /\ channel' = [channel EXCEPT ![Target(d)] = Tail(@)]
    /\ disp' = [disp EXCEPT ![d].pc = "resend"]
    /\ UNCHANGED <<arrays, list, readers, writer, stream, crashed>>

Resend(d) ==
    /\ disp[d].pc = "resend"
    /\ Len(channel[Target(d)]) < Capacity
    /\ channel' = [channel EXCEPT ![Target(d)] = Append(@, Event(d))]
    /\ disp' = [disp EXCEPT ![d].pc = "send", ![d].i = @ + 1]
    /\ UNCHANGED <<arrays, list, readers, writer, stream, past, crashed>>

RUnlock_Missing(d) ==
    /\ disp[d].pc = "send"
    /\ disp[d].i > disp[d].list.len
    /\ disp' = [disp EXCEPT ![d].pc = "idle"]
    /\ UNCHANGED <<arrays, list, readers, writer, channel, stream, past, crashed>>
RUnlock(d) ==
    /\ disp[d].pc = "send"
    /\ disp[d].i > disp[d].list.len
    /\ readers' = readers \ {d}
    /\ disp' = [disp EXCEPT ![d].pc = "idle"]
    /\ UNCHANGED <<arrays, list, writer, channel, stream, past, crashed>>

-----------------------------------------------------------------------------
(* Streams.                                                                *)

(* SubscribeToEventStream is called: NewListener asks for the lock.        *)
Open(s) ==
    /\ stream[s].pc = "off"
    /\ stream' = [stream EXCEPT ![s].pc = "add"]
    /\ UNCHANGED <<arrays, list, readers, writer, channel, disp, past, crashed>>

(* Lock: one writer at a time keeps new readers out, then waits until the  *)
(* readers have left.                                                      *)
Lock(s) ==
    /\ stream[s].pc \in {"add", "remove"}
    /\ writer = None
    /\ writer' = s
    /\ UNCHANGED <<arrays, list, readers, channel, disp, stream, past, crashed>>

AddListener(s) ==
    /\ stream[s].pc = "add"
    /\ writer = s /\ readers = {}
    /\ AppendToList(s)
    /\ writer' = None
    /\ stream' = [stream EXCEPT ![s].pc = "open"]
    /\ UNCHANGED <<readers, channel, disp, past, crashed>>

(* The stream hands the next event to its client.                          *)
Receive(s) ==
    /\ stream[s].pc = "open"
    /\ channel[s] # <<>>
    /\ Forget(s, Head(channel[s]))
    /\ channel' = [channel EXCEPT ![s] = Tail(@)]
    /\ UNCHANGED <<arrays, list, readers, writer, disp, stream, crashed>>

(* The client has gone: Close searches the list without the lock.  Its     *)
(* copy of the slice is torn when the list moves to another array between  *)
(* the reads of the array and of the length, in whichever order.           *)
Close(s) ==
    /\ s \in Closing
    /\ stream[s].pc = "open"
    /\ \/ stream' = [stream EXCEPT ![s].pc = "length", ![s].list.arr = list.arr]
       \/ stream' = [stream EXCEPT ![s].pc = "array", ![s].list.len = list.len]
    /\ UNCHANGED <<arrays, list, readers, writer, channel, disp, past, crashed>>

CopyRest(s) ==
    /\ \/ /\ stream[s].pc = "length"
          /\ stream' = [stream EXCEPT ![s].pc = "search", ![s].list.len = list.len]
       \/ /\ stream[s].pc = "array"
          /\ stream' = [stream EXCEPT ![s].pc = "search", ![s].list.arr = list.arr]
    /\ UNCHANGED <<arrays, list, readers, writer, channel, disp, past, crashed>>

(* A search that ends without a match is ErrListenerNotFound.              *)
Search_SkipsLast(s) ==
    /\ stream[s].pc = "search"
    /\ stream' = IF stream[s].i >= stream[s].list.len THEN [stream EXCEPT ![s].pc = "closed"]
                 ELSE IF Cell(stream[s].list, stream[s].i) = s THEN [stream EXCEPT ![s].pc = "remove"]
                 ELSE [stream EXCEPT ![s].i = @ + 1]
    /\ UNCHANGED <<arrays, list, readers, writer, channel, disp, past, crashed>>
Search(s) ==
    /\ stream[s].pc = "search"
    /\ stream' = IF stream[s].i > stream[s].list.len THEN [stream EXCEPT ![s].pc = "closed"]
                 ELSE IF Cell(stream[s].list, stream[s].i) = s THEN [stream EXCEPT ![s].pc = "remove"]
                 ELSE [stream EXCEPT ![s].i = @ + 1]
    /\ UNCHANGED <<arrays, list, readers, writer, channel, disp, past, crashed>>

(* The index found is used on the list as it is by then.                   *)
RemoveListener_NoLock(s) ==
    /\ stream[s].pc = "remove"
    /\ DeleteFromList(stream[s].i)
    /\ stream' = [stream EXCEPT ![s].pc = "closed"]
    /\ UNCHANGED <<readers, writer, channel, disp, past, crashed>>
RemoveListener_NoUnlock(s) ==
    /\ stream[s].pc = "remove"
    /\ writer = s /\ readers = {}
    /\ DeleteFromList(stream[s].i)
    /\ stream' = [stream EXCEPT ![s].pc = "closed"]
    /\ UNCHANGED <<readers, writer, channel, disp, past, crashed>>
RemoveListener_OldLength(s) ==
    /\ stream[s].pc = "remove"
    /\ writer = s /\ readers = {}
    /\ arrays' = [arrays EXCEPT ![list.arr] =
                    [j \in DOMAIN @ |-> IF stream[s].i <= j /\ j < list.len THEN @[j + 1] ELSE @[j]]]
    /\ list' = [list EXCEPT !.len = stream[s].list.len - 1]
    /\ writer' = None
    /\ stream' = [stream EXCEPT ![s].pc = "closed"]
    /\ UNCHANGED <<readers, channel, disp, past, crashed>>
RemoveListener(s) ==
    /\ stream[s].pc = "remove"
    /\ writer = s /\ readers = {}
    /\ IF stream[s].i <= list.len
       THEN /\ DeleteFromList(stream[s].i)
            /\ writer' = None
            /\ stream' = [stream EXCEPT ![s].pc = "closed"]
            /\ UNCHANGED crashed
       ELSE crashed' = TRUE /\ UNCHANGED <<arrays, list, writer, stream>>
    /\ UNCHANGED <<readers, channel, disp, past>>

-----------------------------------------------------------------------------
Init ==
    /\ arrays = << <<>> >>
    /\ list = [arr |-> 1, len |-> 0]
    /\ readers = {}
    /\ writer = None
    /\ channel = [s \in Streams |-> <<>>]
    /\ disp = [d \in Dispatchers |-> [pc |-> "idle", n |-> 0, list |-> list, i |-> 1]]
    /\ stream = [s \in Streams |-> [pc |-> "off", list |-> list, i |-> 1]]
    /\ past = [s \in Streams |-> [d \in Dispatchers |-> 0]]
    /\ crashed = FALSE

DispatchStep(d) == ~crashed /\ (RLock(d) \/ Send(d) \/ Evict(d) \/ Resend(d) \/ RUnlock(d))
ListStep(s) == ~crashed /\ (Lock(s) \/ AddListener(s) \/ CopyRest(s) \/ Search(s) \/ RemoveListener(s))

Next ==
    \/ ~crashed /\ (\/ \E d \in Dispatchers : Dispatch(d)
                    \/ \E s \in Streams : Open(s) \/ Receive(s) \/ Close(s))
    \/ \E d \in Dispatchers : DispatchStep(d)
    \/ \E s \in Streams : ListStep(s)

Spec == Init /\ [][Next]_vars

(* Goroutines that can proceed do, clients read the events of their        *)
(* streams; nothing forces a call, a stream to open or a client to leave.  *)
FairSpec == /\ Spec
            /\ \A d \in Dispatchers : WF_vars(DispatchStep(d))
            /\ \A s \in Streams : WF_vars(ListStep(s)) /\ WF_vars(~crashed /\ Receive(s))

-----------------------------------------------------------------------------
(* Properties.                                                             *)

Slices == [arr : 1..Len(arrays), len : Nat]
Events == [from : Dispatchers, n : 1..MaxEvents]
DispatcherStates == [pc : {"idle", "rlock", "send", "evict", "resend"},
                     n : 0..MaxEvents, list : Slices, i : Nat \ {0}]
StreamStates == [pc : {"off", "add", "open", "array", "length", "search", "remove", "closed"},
                 list : Slices, i : Nat \ {0}]

(* Type invariant: the list and its copies are slices of arrays that       *)
(* exist, and the read lock is held by those who are sending.              *)
TypeOK ==
    /\ arrays \in Seq(Seq(Streams \cup {None}))
    /\ list \in Slices /\ list.len <= Len(arrays[list.arr])
    /\ Registered \subseteq Streams
    /\ readers = {d \in Dispatchers : disp[d].pc \in {"send", "evict", "resend"}}
    /\ writer \in Streams \cup {None}
    /\ channel \in [Streams -> Seq(Events)] /\ \A s \in Streams : Len(channel[s]) <= Capacity
    /\ disp \in [Dispatchers -> DispatcherStates]
    /\ stream \in [Streams -> StreamStates]
    /\ past \in [Streams -> [Dispatchers -> 0..MaxEvents]]
    /\ crashed \in BOOLEAN

(* The copy of the list that Dispatch ranges over is the list until it has *)
(* sent the event to the last listener: nobody enters or leaves meanwhile, *)
(* and the event reaches every listener registered when it took the lock.  *)
FanOutListIsStable ==
    \A d \in readers : disp[d].list = list

(* A full channel loses its oldest events and no others: whatever is in a  *)
(* channel is newer than anything the stream has received or lost from the *)
(* same goroutine, and in the order of dispatch, with any number of sends  *)
(* to the same channel in progress.                                        *)
NewestAreKeptInOrder ==
    \A s \in Streams : \A i \in 1..Len(channel[s]) :
        LET e == channel[s][i]
        IN  /\ past[s][e.from] < e.n
            /\ \A j \in (i + 1)..Len(channel[s]) : channel[s][j].from = e.from => e.n < channel[s][j].n

(* A stream that has not ended is in the list; only its own Close takes it *)
(* out.                                                                    *)
OpenStreamsAreRegistered ==
    ~crashed => \A s \in Streams : stream[s].pc \in {"open", "array", "length", "search", "remove"} => s \in Registered

(* A stream whose Close has returned is in the list no more.               *)
ClosedStreamsAreGone ==
    \A s \in Streams : stream[s].pc = "closed" => s \notin Registered

(* Whether a goroutine of Dispatch, or a stream and its client, can take   *)
(* its next step: the guards of the steps above.                           *)
DispatcherReady(d) ==
    \/ disp[d].pc = "rlock" /\ writer = None
    \/ disp[d].pc = "send"
    \/ disp[d].pc = "evict" /\ channel[Target(d)] # <<>>
    \/ disp[d].pc = "resend" /\ Len(channel[Target(d)]) < Capacity
StreamReady(s) ==
    \/ stream[s].pc \in {"array", "length", "search"}
    \/ stream[s].pc \in {"add", "remove"} /\ (writer = None \/ (writer = s /\ readers = {}))
    \/ stream[s].pc = "open" /\ channel[s] # <<>>

(* The lock and the loops never bring everyone to a halt: when no          *)
(* goroutine can move although one has work left, somebody stands in the   *)
(* overflow branch of Send, waiting for an event in a channel that has     *)
(* been emptied or for room in the channel of a stream that has ended.     *)
Halted ==
    /\ ~crashed
    /\ \A d \in Dispatchers : ~DispatcherReady(d)
    /\ \A s \in Streams : ~StreamReady(s)
Waiting ==
    \/ \E d \in Dispatchers : disp[d].pc # "idle"
    \/ \E s \in Streams : stream[s].pc \notin {"off", "open", "closed"}
OnlyOverflowHalts ==
    Halted /\ Waiting =>
        \E d \in Dispatchers :
            \/ disp[d].pc = "evict" /\ channel[Target(d)] = <<>>
            \/ disp[d].pc = "resend" /\ stream[Target(d)].pc # "open"

(* Dispatch returns: the handler that called it does.                      *)
DispatchReturns == \A d \in Dispatchers : disp[d].pc = "rlock" ~> disp[d].pc = "idle"
=============================================================================
