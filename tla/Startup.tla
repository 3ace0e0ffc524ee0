------------------------------ MODULE Startup -------------------------------
(***************************************************************************)
(* One run of the program, from main of src/cryptochan.c: read the command *)
(* line, generate keys (see Keygen), or load the configuration             *)
(* (src/cryptochan_config.c) and run as server (src/server.c,              *)
(* src/dispatcher.c) or client (a stub).                                   *)
(* There is a single thread; what is hard is that nearly every call it     *)
(* makes can fail, and that what was allocated, opened or recorded before  *)
(* must be dealt with.                                                     *)
(*                                                                         *)
(* A configuration file is described by what its settings are like; a      *)
(* string of the configuration by whether it has been set.                 *)
(***************************************************************************)
EXTENDS Integers, Sequences

CONSTANTS
  CommandLines,  \* what argp may hand to parse_opt: the options, then the words
  Files,         \* what the configuration file may hold
  Fds,           \* the descriptors socket may return
  Default        \* CRYPTOCHAN_DEFAULT_CONFIG_FILE

Sections == {"client", "server"}
SockAddrs == {"missing", "no host", "no port", "bad port", "good"}

ASSUME StartupAssumption ==
  /\ \A line \in CommandLines :
       /\ line \in Seq([key : {"config", "prng", "arg"}, value : STRING])
       /\ \A i \in DOMAIN line :
            /\ line[i].key = "config" => line[i].value # ""   \* "" stands for a null pointer
            /\ line[i].key = "arg" => \A j \in i .. Len(line) : line[j].key = "arg"
  /\ Fds \subseteq Nat
  /\ \A f \in Files :
       /\ f.readable \in BOOLEAN
       /\ f.private \in {"missing", "bad", "good"}
       /\ f.public \in {"missing", "bad", "other", "good"}
       /\ \A s \in Sections :
            f[s].present \in BOOLEAN /\ f[s].listen \in SockAddrs /\ f[s].target \in SockAddrs

None == -1

VARIABLES
  args, parsed,     \* the command line, and how much of it argp has been through
  mode, config_file, use_prng,  \* cryptochan_arguments_t, and do_use_prng of random.c
  file,             \* what that file holds, once it is read
  pc,
  setting,          \* the setting cryptochan_config_parse_sock_addr parses
  config,           \* cryptochan_config_t of main
  error_desc,       \* whether it points to a message, in config_load ...
  nest_error_desc,  \* ... and in parse_client or parse_server
  out_of_memory,    \* history: a strdup or asprintf of the loading has failed
  res,              \* the addrinfo list of dispatcher_init is allocated
  sockaddr,         \* its sockaddr_in is allocated
  context,          \* cryptochan_dispatcher_context_t
  open,             \* the descriptors the program has opened
  status            \* the exit status, or "running"

loading == <<setting, config, error_desc, nest_error_desc, out_of_memory>>
serving == <<res, sockaddr, context, open>>
arguments == <<args, parsed, mode, config_file, use_prng>>
vars == <<arguments, file, pc, loading, serving, status>>

NoAddr == [host |-> FALSE, port |-> FALSE]
NoSection == [present |-> FALSE, listen |-> NoAddr, target |-> NoAddr]
Nothing == [present |-> FALSE, listen |-> "missing", target |-> "missing"]
Unread == [readable |-> FALSE, private |-> "missing", public |-> "missing",
           client |-> Nothing, server |-> Nothing]
NoContext == [listen_socket_ptr |-> FALSE, listen_sockfd |-> 0]

Init ==
  /\ args \in CommandLines /\ parsed = 0
  /\ mode = "none" /\ config_file = "" /\ use_prng = FALSE
  /\ file = Unread
  /\ pc = "parse"
  /\ setting = "listen"
  /\ config = [private |-> FALSE, public |-> FALSE,
               client |-> NoSection, server |-> NoSection]
  /\ error_desc = FALSE /\ nest_error_desc = FALSE /\ out_of_memory = FALSE
  /\ res = FALSE /\ sockaddr = FALSE
  /\ context = NoContext
  /\ open = {}
  /\ status = "running"

Goes(from, to) == pc = from /\ pc' = to /\ UNCHANGED status
Ends(from, s) == pc = from /\ pc' = "exit" /\ status' = s
Goto(from, to) == Goes(from, to) /\ UNCHANGED <<arguments, file>>
Exit(from, s) == Ends(from, s) /\ UNCHANGED <<arguments, file>>

-----------------------------------------------------------------------------
(* parse_opt, called by argp for each argument in turn and once at the end *)

Arg == args[parsed + 1]
Parses == parsed < Len(args) /\ parsed' = parsed + 1 /\ UNCHANGED <<args, file, loading, serving>>

ParseConfig ==
  /\ Parses /\ Arg.key = "config"
  /\ Goes("parse", "parse")
  /\ config_file' = Arg.value
  /\ UNCHANGED <<mode, use_prng>>

ParsePrng ==
  /\ Parses /\ Arg.key = "prng"
  /\ Goes("parse", "parse")
  /\ use_prng' = TRUE
  /\ UNCHANGED <<mode, config_file>>

\* Fault: the file of an option before the mode is forgotten.
DefaultConfigAlways == config_file' = Default

DefaultConfig == config_file' = IF config_file = "" THEN Default ELSE config_file

\* The case of a mode falls through to that of the end of the arguments.
ParseMode ==
  /\ Parses /\ Arg.key = "arg"
  /\ mode = "none" /\ Arg.value \in Sections \cup {"keygen"}
  /\ Goes("parse", "parse")
  /\ mode' = Arg.value
  /\ DefaultConfig
  /\ UNCHANGED use_prng

ParseEnd ==
  /\ parsed = Len(args) /\ mode # "none"
  /\ Goes("parse", "main")
  /\ DefaultConfig
  /\ UNCHANGED <<args, parsed, mode, use_prng, file, loading, serving>>

\* argp_error: a second mode, an unknown one, or none at all.
UsageError ==
  /\ \/ parsed < Len(args) /\ Arg.key = "arg"
        /\ (mode # "none" \/ Arg.value \notin Sections \cup {"keygen"})
     \/ parsed = Len(args) /\ mode = "none"
  /\ Exit("parse", "usage")
  /\ UNCHANGED <<loading, serving>>

parse_opt == ParseConfig \/ ParsePrng \/ ParseMode \/ ParseEnd \/ UsageError

-----------------------------------------------------------------------------
(* main *)

Main ==
  /\ Goes("main", IF mode = "keygen" THEN "keygen" ELSE "read")
  /\ args' = <<>> /\ parsed' = 0
  /\ UNCHANGED <<mode, config_file, use_prng, file, loading, serving>>

\* The steps of keygen_display are those of module Keygen; here, what comes of it.
keygen_display ==
  /\ Exit("keygen", "success") \/ Exit("keygen", "failure")
  /\ UNCHANGED <<loading, serving>>

-----------------------------------------------------------------------------
(* cryptochan_config_load *)

ReadFile ==
  /\ file' \in Files
  /\ Goes("read", IF file'.readable THEN "private" ELSE "load_failed")
  /\ UNCHANGED <<arguments, loading, serving>>

\* A string setting, copied with strdup, which may fail.
Copied(field, ok) == config' = [config EXCEPT ![field] = ok]

\* assure_error_desc_empty aborts when a message would be overwritten.
assure_error_desc_empty(from, desc, to) ==
  IF desc THEN Exit(from, "abort") ELSE Goto(from, to)

(***************************************************************************)
(* asprintf makes a message where one is due, or fails, which the code     *)
(* does not look at: the pointer stays null.  (glibc leaves it so or sets  *)
(* it to null; the C library may do otherwise.)                            *)
(***************************************************************************)
Printed(due, printed, copied) ==
  /\ printed => due
  /\ out_of_memory' = (out_of_memory \/ ~ copied \/ (due /\ ~ printed))

\* A key is copied, then decoded; the message of a bad key is that of the decoder.
Decode(field, next) ==
  /\ \E copied, printed \in BOOLEAN :
       /\ Copied(field, copied)
       /\ Printed(copied /\ file[field] = "bad", printed, copied)
       /\ error_desc' = (error_desc \/ printed)
       /\ IF copied
          THEN assure_error_desc_empty(field, error_desc,
                 IF file[field] = "good" THEN next ELSE "load_failed")
          ELSE Goto(field, "load_failed")
  /\ UNCHANGED <<setting, nest_error_desc, serving>>

PrivateKey ==
  \/ file.private # "missing" /\ Decode("private", "public")
  \/ /\ file.private = "missing"
     /\ Goto("private", "load_failed")
     /\ UNCHANGED <<loading, serving>>

\* optional, must belong to the private key
PublicKey ==
  \/ file.public # "missing" /\ Decode("public", "client")
  \/ /\ file.public = "missing"
     /\ Goto("public", "client")
     /\ UNCHANGED <<loading, serving>>

After(s) == IF s = "client" THEN "server" ELSE "loaded"
Addr(s) == IF s = "client" THEN "client_addr" ELSE "server_addr"
Failed(s) == IF s = "client" THEN "client_failed" ELSE "server_failed"

Section(s) ==
  /\ IF file[s].present THEN assure_error_desc_empty(s, error_desc, Addr(s))
                        ELSE Goto(s, After(s))
  /\ config' = [config EXCEPT ![s].present = file[s].present]
  /\ setting' = "listen"
  /\ nest_error_desc' = FALSE
  /\ UNCHANGED <<error_desc, out_of_memory, serving>>

(***************************************************************************)
(* cryptochan_config_parse_sock_addr: the host, then the port.  A message  *)
(* is due for whatever is missing or bad (a port that is missing is called *)
(* a missing host there), and none when strdup fails.                      *)
(***************************************************************************)
SockAddr(s, addr, copied, printed) ==
  LET no_host == addr \in {"missing", "no host"} IN
  /\ copied => ~ no_host
  /\ config' = [config EXCEPT ![s][setting] =
                  [host |-> copied, port |-> copied /\ addr = "good"]]
  /\ Printed(no_host \/ (copied /\ addr # "good"), printed, copied \/ no_host)
  /\ nest_error_desc' = printed

\* Fault: the target is parsed whatever the listen setting was like.
ParseBothAddrs(s) ==
  /\ \E copied, printed \in BOOLEAN :
       /\ SockAddr(s, file[s][setting], copied, printed)
       /\ IF setting = "listen"
          THEN /\ assure_error_desc_empty(Addr(s), nest_error_desc, Addr(s))
               /\ setting' = "target"
          ELSE /\ assure_error_desc_empty(Addr(s), nest_error_desc,
                    IF copied /\ file[s][setting] = "good" THEN After(s) ELSE Failed(s))
               /\ UNCHANGED setting
  /\ UNCHANGED <<error_desc, serving>>

\* listen, then, if that was all right, target.
ParseSockAddr(s) ==
  /\ \E copied, printed \in BOOLEAN :
       LET ok == copied /\ file[s][setting] = "good" IN
       /\ SockAddr(s, file[s][setting], copied, printed)
       /\ assure_error_desc_empty(Addr(s), nest_error_desc,
            IF ~ ok THEN Failed(s) ELSE IF setting = "listen" THEN Addr(s) ELSE After(s))
       /\ setting' = IF ok THEN "target" ELSE setting
  /\ UNCHANGED <<error_desc, serving>>

\* Fault: the failure of parse_client goes unnoticed.
ParseClientGoesOn ==
  /\ Goto("client_failed", "server")
  /\ UNCHANGED <<loading, serving>>

\* Fault: the message is dropped on the way up.
ParseClientSilent ==
  /\ Goto("client_failed", "load_failed")
  /\ nest_error_desc' = FALSE
  /\ UNCHANGED <<setting, config, error_desc, out_of_memory, serving>>

\* Pass the message on, if there is one; that takes another asprintf.
PassOn ==
  /\ \E printed \in BOOLEAN :
       /\ Printed(nest_error_desc, printed, TRUE)
       /\ error_desc' = (error_desc \/ printed)
  /\ nest_error_desc' = FALSE
  /\ UNCHANGED <<setting, config, serving>>

\* parse_client returns false; parse_server does not.
ParseClientFails == Goto("client_failed", "load_failed") /\ PassOn
ParseServerFails == Goto("server_failed", "loaded") /\ PassOn

\* finalize
LoadFailed ==
  /\ Exit("load_failed", "failure")
  /\ error_desc' = FALSE
  /\ UNCHANGED <<setting, config, nest_error_desc, out_of_memory, serving>>

Loaded ==
  /\ pc = "loaded"
  /\ IF config[mode].present
     THEN Goto("loaded", IF mode = "server" THEN "run_server" ELSE "run_client")
     ELSE Exit("loaded", "failure")
  /\ error_desc' = FALSE
  /\ UNCHANGED <<setting, config, nest_error_desc, out_of_memory, serving>>

cryptochan_config_load ==
  \/ ReadFile \/ PrivateKey \/ PublicKey
  \/ \E s \in Sections : Section(s) \/ ParseSockAddr(s)
  \/ ParseClientFails \/ ParseServerFails
  \/ LoadFailed \/ Loaded

-----------------------------------------------------------------------------
(* run_server, dispatcher_init, dispatcher_destroy_context *)

\* getaddrinfo; without a host there is nothing to resolve.
Resolve ==
  /\ \/ config.server.listen.host /\ Goto("run_server", "alloc") /\ res' = TRUE
     \/ Exit("run_server", "failure") /\ UNCHANGED res
  /\ UNCHANGED <<loading, sockaddr, context, open>>

Alloc ==
  /\ \/ /\ Goto("alloc", "socket")
        /\ sockaddr' = TRUE
        /\ context' = [listen_socket_ptr |-> TRUE, listen_sockfd |-> 0]
     \/ Exit("alloc", "failure") /\ UNCHANGED <<sockaddr, context>>
  /\ UNCHANGED <<loading, res, open>>

Socket ==
  /\ \/ \E fd \in Fds : /\ Goto("socket", "nonblocking")
                        /\ context' = [context EXCEPT !.listen_sockfd = fd]
                        /\ open' = open \cup {fd}
     \/ /\ Goto("socket", "init_failed")
        /\ context' = [context EXCEPT !.listen_sockfd = None]
        /\ UNCHANGED open
  /\ UNCHANGED <<loading, res, sockaddr>>

\* Each of the two fcntl calls may fail.
setnonblocking ==
  /\ Goto("nonblocking", "setup") \/ Goto("nonblocking", "init_failed")
  /\ UNCHANGED <<loading, serving>>

\* setsockopt, bind: each may fail.
Setup ==
  /\ Goto("setup", "init_done") \/ Goto("setup", "init_failed")
  /\ UNCHANGED <<loading, serving>>

\* Fault: the context is erased without releasing its memory.
DestroyNoMemory ==
  /\ open' = IF context.listen_sockfd > 0 THEN open \ {context.listen_sockfd} ELSE open
  /\ sockaddr' = sockaddr
  /\ context' = NoContext

\* close listen socket (if any), release memory (if any), erase any context data
dispatcher_destroy_context ==
  /\ open' = IF context.listen_sockfd > 0 THEN open \ {context.listen_sockfd} ELSE open
  /\ sockaddr' = (sockaddr /\ ~ context.listen_socket_ptr)
  /\ context' = NoContext

DispatcherFails ==
  /\ Exit("init_failed", "failure")
  /\ dispatcher_destroy_context
  /\ UNCHANGED <<loading, res>>

\* The server stops here: there is nothing to dispatch yet.
ServerEnds ==
  /\ Exit("init_done", "success")
  /\ dispatcher_destroy_context
  /\ UNCHANGED <<loading, res>>

run_server == Resolve \/ Alloc \/ Socket \/ setnonblocking \/ Setup \/ DispatcherFails \/ ServerEnds

\* client is not implemented yet.
run_client == Exit("run_client", "failure") /\ UNCHANGED <<loading, serving>>

Next ==
  \/ parse_opt
  \/ Main
  \/ keygen_display
  \/ cryptochan_config_load
  \/ run_server \/ run_client
  \/ pc = "exit" /\ UNCHANGED vars

Spec == Init /\ [][Next]_vars

-----------------------------------------------------------------------------
(***************************************************************************)
(* main starts with what the command line says, although parse_opt, having *)
(* handled a mode, falls through to the case of the end of the arguments:  *)
(* the one mode given, the file of the last -C or else the default, and    *)
(* the generator if -P is among them.                                      *)
(***************************************************************************)
Given(key) == {i \in DOMAIN args : args[i].key = key}

ArgumentsObeyed ==
  pc = "main" =>
    /\ \A i \in Given("arg") : args[i].value = mode
    /\ \/ Given("config") = {} /\ config_file = Default
       \/ \E i \in Given("config") :
            /\ \A j \in Given("config") : j <= i
            /\ config_file = args[i].value
    /\ use_prng <=> Given("prng") # {}

Complete(s) ==
  /\ config[s].present
  /\ \A a \in {config[s].listen, config[s].target} : a.host /\ a.port
  /\ config.private
  /\ config.public <=> file.public # "missing"

(***************************************************************************)
(* No message is overwritten on the way up from parse_sock_addr through    *)
(* parse_client and parse_server to config_load: the assertion of          *)
(* assure_error_desc_empty never aborts the program.                       *)
(***************************************************************************)
NoPanic == status # "abort"

(***************************************************************************)
(* When main calls run_client, everything the client section must give and *)
(* the keys were read: whatever setting is missing or bad, and whichever   *)
(* strdup or asprintf fails, config_load has returned false instead.       *)
(***************************************************************************)
ClientComplete == pc = "run_client" => Complete("client")

(***************************************************************************)
(* The message "bad `server' config" of parse_server is that of a failure  *)
(* like parse_client's: main must not go on to run_server with a server    *)
(* section whose addresses were not read.  It does.                        *)
(***************************************************************************)
ServerComplete == pc = "run_server" => Complete("server")

(***************************************************************************)
(* cryptochan_config_load prints error_desc when a key or the client       *)
(* section is bad: there is a message then, which no step on its way up    *)
(* has dropped, unless there was no memory to copy a string or to make the *)
(* message.  A file or a private key that cannot be read and a public key  *)
(* of another pair are reported without it.                                *)
(***************************************************************************)
FailureExplained ==
  pc = "load_failed" /\ ~ error_desc =>
    \/ out_of_memory
    \/ ~ file.readable
    \/ file.private = "missing"
    \/ config.public /\ file.public = "other"

(***************************************************************************)
(* However the program ends - no memory, no socket, a setup call that      *)
(* failed, a bad configuration, or all done - the socket address and the   *)
(* messages are freed if they were allocated, and no descriptor is left    *)
(* open, unless it is 0, which dispatcher_destroy_context takes for none.  *)
(***************************************************************************)
NothingLeft ==
  status # "running" =>
    /\ ~ sockaddr
    /\ open \subseteq {0}
    /\ ~ error_desc /\ ~ nest_error_desc

=============================================================================
