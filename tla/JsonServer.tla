----------------------------- MODULE JsonServer -----------------------------
(***************************************************************************)
(* The JSON coroutine server                                               *)
(* (http-server/src/modified/simple_coro_server.cpp): connections, the     *)
(* request limit per descriptor, and the replies of the JSON protocol.     *)
(*                                                                         *)
(* One thread accepts and resumes the coroutines; a coroutine suspends     *)
(* only where it waits for input.  So what is done with one input is one   *)
(* action.  An input is what one read returns, at most 1023 bytes.  Rate   *)
(* limiting is enabled, as in the default configuration.                   *)
(***************************************************************************)
EXTENDS Integers, Sequences, FiniteSets

CONSTANTS Fd,               \* descriptors accept may return
          RequestsPerMinute,
          Minute,           \* its length in clock ticks
          MaxRequestSize,
          MaxInputs,        \* bound on inputs read
          LastTick          \* bound: the clock stops here

ASSUME JsonServerAssumption ==
  /\ Fd \subseteq Nat
  /\ RequestsPerMinute \in Nat \ {0} /\ Minute \in Nat \ {0}
  /\ MaxRequestSize \in Nat /\ MaxInputs \in Nat /\ LastTick \in Nat

VARIABLES open,         \* descriptors with a coroutine
          rates,        \* g_client_rates
          reply,        \* the last reply, with the input it answers
          handled,      \* history: when each open connection passed the limit
          inputs, now

vars == <<open, rates, reply, handled, inputs, now>>

(***************************************************************************)
(* An input: its size, its form and, for a JSON object, whether it has an  *)
(* id, its command ("none": missing or no string; "computed": echo or pow, *)
(* which need parameters; "plain": time or message) and whether the        *)
(* parameters are there and of the right types.                            *)
(***************************************************************************)
Size == {1, 1023}

Input == [size : Size, form : {"text", "text exit", "broken JSON", "array"},
          id : {FALSE}, command : {"none"}, parameters : {"wrong"}]
         \union
         [size : Size, form : {"object"}, id : BOOLEAN,
          command : {"none", "computed", "plain", "exit", "other"},
          parameters : {"right", "wrong"}]

NoReply == [asked |-> FALSE, id |-> FALSE, status |-> "none", code |-> 0]
Failure(input, id, code) ==
  [asked |-> input.id, id |-> id, status |-> "error", code |-> code]
Success(input) == [asked |-> input.id, id |-> input.id, status |-> "success", code |-> 0]
Text == [NoReply EXCEPT !.status = "text"]

-----------------------------------------------------------------------------
(* process_json_command.                                                   *)
ProcessJson(input) ==
  CASE input.command = "none"  -> Failure(input, input.id, 400)
    [] input.command = "other" -> Failure(input, input.id, 404)
    [] input.command = "computed" /\ input.parameters = "wrong"
                               -> Failure(input, input.id, 400)
    [] OTHER                   -> Success(input)

(* check_rate_limit: the entry after the window has been renewed if it is  *)
(* over, and whether another request fits into it.                         *)
Fresh == [last_reset |-> now, request_count |-> 0]

Renewed_TimeOnly(fd) ==
  IF fd \notin DOMAIN rates THEN Fresh
  ELSE IF now - rates[fd].last_reset >= Minute
    THEN [rates[fd] EXCEPT !.last_reset = now]
    ELSE rates[fd]

Renewed(fd) == IF fd \notin DOMAIN rates \/ now - rates[fd].last_reset >= Minute
                 THEN Fresh ELSE rates[fd]

WithinLimit_OneMore(entry) == entry.request_count <= RequestsPerMinute

WithinLimit(entry) == entry.request_count < RequestsPerMinute

SetRate(fd, entry) ==
  rates' = [f \in DOMAIN rates \union {fd} |-> IF f = fd THEN entry ELSE rates[f]]

(* cleanup_client_rate_limit, then close.                                  *)
Close_RateKept(fd) == /\ open' = open \ {fd}
                      /\ UNCHANGED rates

Close(fd) == /\ open' = open \ {fd}
             /\ rates' = [f \in DOMAIN rates \ {fd} |-> rates[f]]

-----------------------------------------------------------------------------
Init == /\ open = {}
        /\ rates = [f \in {} |-> Fresh]
        /\ reply = NoReply
        /\ handled = [f \in Fd |-> <<>>]
        /\ inputs = 0 /\ now = 0

Accept == /\ open # Fd
          /\ LET fd == CHOOSE f \in Fd \ open : \A g \in Fd \ open : f <= g
             IN  /\ open' = open \union {fd}
                 /\ handled' = [handled EXCEPT ![fd] = <<>>]
          /\ UNCHANGED <<rates, reply, inputs, now>>

(* The peer closed the connection, or read failed.                         *)
Disconnected(fd) == /\ fd \in open
                    /\ Close(fd)
                    /\ UNCHANGED <<reply, handled, inputs, now>>

Read(fd) == /\ fd \in open
            /\ inputs < MaxInputs /\ inputs' = inputs + 1
            /\ UNCHANGED now

TooLarge(fd, input) ==
  /\ Read(fd)
  /\ input.size > MaxRequestSize
  /\ reply' = Failure(input, FALSE, 413)
  /\ UNCHANGED <<open, rates, handled>>

RateExceeded(fd, input) ==
  /\ Read(fd)
  /\ input.size <= MaxRequestSize
  /\ ~ WithinLimit(Renewed(fd))
  /\ SetRate(fd, Renewed(fd))
  /\ reply' = Failure(input, FALSE, 429)
  /\ UNCHANGED <<open, handled>>

Answer(input) ==
  CASE input.form \in {"array", "object"} -> ProcessJson(input)
    [] input.form = "broken JSON" -> Failure(input, FALSE, 400)
    [] input.form \in {"text", "text exit"} -> Text

Exits(input) == \/ input.form = "text exit"
                \/ input.form = "object" /\ input.command = "exit"

(* The result of the send is looked at except after a parse error.         *)
Handle(fd, input) ==
  /\ Read(fd)
  /\ input.size <= MaxRequestSize
  /\ WithinLimit(Renewed(fd))
  /\ reply' = Answer(input)
  /\ handled' = [handled EXCEPT ![fd] = Append(@, now)]
  /\ \/ /\ ~ Exits(input)
        /\ SetRate(fd, [Renewed(fd) EXCEPT !.request_count = @ + 1])
        /\ UNCHANGED open
     \/ /\ Exits(input)
        /\ Close(fd)
     \/ /\ input.form # "broken JSON"           \* send failed
        /\ Close(fd)

Tick == /\ now < LastTick
        /\ now' = now + 1
        /\ UNCHANGED <<open, rates, reply, handled, inputs>>

Next == \/ Accept
        \/ \E fd \in Fd : \/ Disconnected(fd)
                          \/ \E input \in Input : \/ TooLarge(fd, input)
                                                  \/ RateExceeded(fd, input)
                                                  \/ Handle(fd, input)
        \/ Tick

Spec == Init /\ [][Next]_vars

-----------------------------------------------------------------------------
(* The variables have the types the code declares; a count stays within    *)
(* the limit.                                                              *)
TypeOK ==
  /\ open \subseteq Fd
  /\ DOMAIN rates \subseteq Fd
  /\ rates \in [DOMAIN rates -> [last_reset : 0..now, request_count : 0..RequestsPerMinute]]
  /\ reply.status \in {"none", "text", "success", "error"}
  /\ handled \in [Fd -> Seq(0..now)]
  /\ now \in 0..LastTick

(* What the connection of fd got through the limit in the last minute.     *)
Recent(fd) == {i \in DOMAIN handled[fd] : handled[fd][i] > now - Minute}

(* Nobody gets twice the limit through in any minute, though up to one     *)
(* less: the counter starts afresh with a window, not with every minute,   *)
(* so the rest of one window and the whole next one add up.  Only the      *)
(* request with which the first window began is more than a minute old.    *)
BelowTwiceTheLimit == \A fd \in open : Cardinality(Recent(fd)) < 2 * RequestsPerMinute

(* A connection is refused only for what it did itself, in the last        *)
(* minute: never for the requests of an earlier connection that had its    *)
(* descriptor, nor for those of an expired window.                         *)
RefusedForOwnRequests ==
  [][\A fd \in Fd :
       (reply'.code = 429 /\ \E input \in Input : RateExceeded(fd, input))
         => Cardinality(Recent(fd)) >= RequestsPerMinute]_vars

(* An entry of the limiter belongs to an open connection and never counts  *)
(* more than that connection got through.                                  *)
RatesOfTheOpen ==
  \A fd \in DOMAIN rates : /\ fd \in open
                           /\ rates[fd].request_count <= Len(handled[fd])

(* protocol.json: a response has the id of the request, whatever it says.  *)
RepliesCarryTheId == reply.asked => reply.id
=============================================================================
