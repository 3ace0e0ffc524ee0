--------------------------- MODULE StartupProofs ----------------------------
(***************************************************************************)
(* Proofs about Startup, for every set of command lines, configuration     *)
(* files and descriptors.                                                  *)
(***************************************************************************)
EXTENDS Startup, SequenceTheorems, TLAPS

-----------------------------------------------------------------------------
(* The command line *)

\* What argp has handed over has left its mark on the arguments of main.
Seen(key) == {i \in 1 .. parsed : args[i].key = key}

ArgsInv ==
  pc \in {"parse", "main"} =>
    /\ args \in CommandLines
    /\ parsed \in 0 .. Len(args) /\ (pc = "main" => parsed = Len(args))
    /\ mode \in {"none", "keygen"} \cup Sections
    /\ pc = "main" => mode # "none"
    /\ \A i \in Seen("arg") : mode # "none" /\ args[i].value = mode
    /\ \/ /\ Seen("config") = {} /\ config_file \in {"", Default}
          /\ pc = "main" => config_file = Default
       \/ \E i \in Seen("config") :
            (\A j \in Seen("config") : j <= i) /\ config_file = args[i].value
    /\ use_prng \in BOOLEAN /\ (use_prng <=> Seen("prng") # {})

\* What is known of a command line.
LEMMA CommandLine ==
  ASSUME NEW line \in CommandLines
  PROVE  /\ Len(line) \in Nat /\ DOMAIN line = 1 .. Len(line)
         /\ \A i \in 1 .. Len(line) :
              /\ line[i].key \in {"config", "prng", "arg"}
              /\ line[i].key = "config" => line[i].value # ""
  <1> DEFINE Argument == [key : {"config", "prng", "arg"}, value : STRING]
  <1>1. /\ line \in Seq(Argument)
        /\ \A i \in DOMAIN line : line[i].key = "config" => line[i].value # ""
    BY StartupAssumption
  <1> HIDE DEF Argument
  <1>2. Len(line) \in Nat /\ line \in [1 .. Len(line) -> Argument]
    BY <1>1, LenProperties
  <1>3. \A i \in 1 .. Len(line) : line[i] \in Argument
    BY <1>2
  <1>4. \A a \in Argument : a.key \in {"config", "prng", "arg"}
    BY DEF Argument
  <1>5. QED
    BY <1>1, <1>2, <1>3, <1>4

\* argp has handed over nothing yet.
LEMMA InitArgsInv == Init => ArgsInv
  <1> SUFFICES ASSUME Init PROVE ArgsInv
    OBVIOUS
  <1>1. args \in CommandLines /\ parsed = 0
    BY DEF Init
  <1>2. Len(args) \in Nat
    BY <1>1, CommandLine
  <1>3. 0 \in 0 .. Len(args)
    BY <1>2
  <1>4. \A key : Seen(key) = {}
    BY <1>1 DEF Seen
  <1>5. QED
    BY <1>1, <1>3, <1>4 DEF Init, ArgsInv

\* One more argument adds itself to those of its kind.
LEMMA SeenMore ==
  ASSUME ArgsInv, pc = "parse", Parses
  PROVE  /\ Arg = args[parsed + 1] /\ parsed + 1 \in 1 .. Len(args)
         /\ parsed' = parsed + 1 /\ parsed \in Nat /\ args' = args
         /\ \A key : Seen(key)' = Seen(key) \cup IF Arg.key = key THEN {parsed + 1} ELSE {}
         /\ \A key : \A i \in Seen(key) : i \in Nat /\ i <= parsed
  <1>1. /\ parsed \in Nat /\ Len(args) \in Nat /\ parsed <= Len(args) /\ parsed < Len(args)
        /\ parsed' = parsed + 1 /\ args' = args
    <2>1. args \in CommandLines /\ parsed \in 0 .. Len(args)
      BY DEF ArgsInv
    <2>2. Len(args) \in Nat
      BY <2>1, CommandLine
    <2>3. QED
      BY <2>1, <2>2 DEF Parses
  <1>2. 1 .. parsed + 1 = (1 .. parsed) \cup {parsed + 1}
    BY <1>1
  <1>3. ASSUME NEW key
        PROVE  Seen(key)' = Seen(key) \cup IF Arg.key = key THEN {parsed + 1} ELSE {}
    BY <1>1, <1>2 DEF Seen, Arg
  <1>4. QED
    BY <1>1, <1>3 DEF Seen, Arg

\* The option -C always comes with a file name.
LEMMA ConfigGiven ==
  ASSUME args \in CommandLines, parsed \in 0 .. Len(args)
  PROVE  \A i \in Seen("config") : args[i].value # ""
  <1>1. Len(args) \in Nat
    BY CommandLine
  <1>2. 1 .. parsed \subseteq 1 .. Len(args)
    BY <1>1
  <1>3. \A i \in 1 .. Len(args) : args[i].key = "config" => args[i].value # ""
    BY CommandLine
  <1>4. QED
    BY <1>2, <1>3 DEF Seen

\* parse_opt, called with an option or a word.
LEMMA ParseKeepsArgsInv ==
  ASSUME ArgsInv, ParseConfig \/ ParsePrng \/ ParseMode
  PROVE  ArgsInv'
  <1>1. /\ pc = "parse" /\ pc' = "parse" /\ Parses
    BY DEF ParseConfig, ParsePrng, ParseMode, Goes
  <1>2. /\ parsed' = parsed + 1 /\ parsed + 1 \in 1 .. Len(args) /\ parsed \in Nat /\ args' = args
        /\ \A key : Seen(key)' = Seen(key) \cup IF Arg.key = key THEN {parsed + 1} ELSE {}
        /\ \A key : \A i \in Seen(key) : i \in Nat /\ i <= parsed
        /\ args \in CommandLines /\ Arg = args[parsed + 1]
    BY <1>1, SeenMore DEF ArgsInv
  <1>3. args' \in CommandLines /\ parsed' \in 0 .. Len(args')
    <2>1. Len(args) \in Nat
      BY <1>2, CommandLine
    <2>2. QED
      BY <1>2, <2>1
  <1>4. CASE ParseConfig
    <2>1. /\ Seen("arg")' = Seen("arg") /\ Seen("prng")' = Seen("prng")
          /\ Seen("config")' = Seen("config") \cup {parsed + 1}
          /\ config_file' = args[parsed + 1].value /\ UNCHANGED <<mode, use_prng>>
      BY <1>2, <1>4 DEF ParseConfig
    <2>2. \A j \in Seen("config")' : j <= parsed + 1
      BY <1>2, <2>1
    <2>3. \E i \in Seen("config")' :
            (\A j \in Seen("config")' : j <= i) /\ config_file' = args'[i].value
      BY <1>2, <2>1, <2>2
    <2>4. QED
      BY <1>1, <1>2, <1>3, <2>1, <2>3 DEF ArgsInv
  <1>5. CASE ParsePrng
    <2>1. /\ Seen("arg")' = Seen("arg") /\ Seen("config")' = Seen("config")
          /\ Seen("prng")' = Seen("prng") \cup {parsed + 1}
          /\ use_prng' = TRUE /\ UNCHANGED <<mode, config_file>>
      BY <1>2, <1>5 DEF ParsePrng
    <2>2. QED
      BY <1>1, <1>2, <1>3, <2>1 DEF ArgsInv
  <1>6. CASE ParseMode
    <2>1. /\ Seen("config")' = Seen("config") /\ Seen("prng")' = Seen("prng")
          /\ Seen("arg")' = Seen("arg") \cup {parsed + 1}
          /\ mode = "none" /\ mode' = args[parsed + 1].value
          /\ mode' \in Sections \cup {"keygen"}
          /\ config_file' = (IF config_file = "" THEN Default ELSE config_file)
          /\ use_prng' = use_prng
      BY <1>2, <1>6 DEF ParseMode, DefaultConfig
    <2>2. Seen("arg") = {} /\ mode' # "none"
      BY <1>1, <2>1 DEF ArgsInv, Sections
    <2>3. \A i \in Seen("config") : args[i].value # ""
      BY <1>1, ConfigGiven DEF ArgsInv
    <2>4. \/ Seen("config")' = {} /\ config_file' \in {"", Default}
          \/ \E i \in Seen("config")' :
               (\A j \in Seen("config")' : j <= i) /\ config_file' = args'[i].value
      BY <1>1, <1>2, <2>1, <2>3 DEF ArgsInv
    <2>5. QED
      BY <1>1, <1>2, <1>3, <2>1, <2>2, <2>4 DEF ArgsInv
  <1>7. QED
    BY <1>4, <1>5, <1>6

\* parse_opt, called at the end of the arguments.
LEMMA ParseEndKeepsArgsInv == ASSUME ArgsInv, ParseEnd PROVE ArgsInv'
  <1>1. /\ pc = "parse" /\ pc' = "main" /\ parsed = Len(args) /\ mode # "none"
        /\ config_file' = (IF config_file = "" THEN Default ELSE config_file)
        /\ UNCHANGED <<args, parsed, mode, use_prng>>
    BY DEF ParseEnd, Goes, DefaultConfig
  <1>2. \A key : Seen(key)' = Seen(key)
    BY <1>1 DEF Seen
  <1>3. \A i \in Seen("config") : args[i].value # ""
    BY <1>1, ConfigGiven DEF ArgsInv
  <1>4. \/ Seen("config")' = {} /\ config_file' = Default
        \/ \E i \in Seen("config")' :
             (\A j \in Seen("config")' : j <= i) /\ config_file' = args'[i].value
    BY <1>1, <1>2, <1>3 DEF ArgsInv
  <1>5. QED
    BY <1>1, <1>2, <1>4 DEF ArgsInv

\* Whatever is not a step of parse_opt leaves its two places behind.
LEMMA NextKeepsArgsInv == ArgsInv /\ [Next]_vars => ArgsInv'
  <1> SUFFICES ASSUME ArgsInv, [Next]_vars PROVE ArgsInv'
    OBVIOUS
  <1> USE DEF Goto, Exit, Goes, Ends
  <1>1. CASE parse_opt
    <2>1. CASE UsageError
      BY <2>1 DEF UsageError, ArgsInv
    <2>2. QED
      BY <1>1, <2>1, ParseKeepsArgsInv, ParseEndKeepsArgsInv DEF parse_opt
  <1>2. CASE Main \/ keygen_display
    BY <1>2 DEF Main, keygen_display, ArgsInv
  <1>3. CASE cryptochan_config_load
    <2>1. pc' \notin {"parse", "main"}
      BY <1>3 DEF cryptochan_config_load, ReadFile, PrivateKey, PublicKey, Decode, Section,
         ParseSockAddr, assure_error_desc_empty, After, Addr, Failed, ParseClientFails, ParseServerFails,
         LoadFailed, Loaded, Sections
    <2>2. QED
      BY <2>1 DEF ArgsInv
  <1>4. CASE run_server \/ run_client
    <2>1. pc' \notin {"parse", "main"}
      BY <1>4 DEF run_server, Resolve, Alloc, Socket, setnonblocking, Setup, DispatcherFails,
         ServerEnds, run_client
    <2>2. QED
      BY <2>1 DEF ArgsInv
  <1>5. CASE UNCHANGED vars
    BY <1>5 DEF vars, arguments, ArgsInv, Seen
  <1>6. QED
    BY <1>1, <1>2, <1>3, <1>4, <1>5 DEF Next

-----------------------------------------------------------------------------
(* Messages *)

(***************************************************************************)
(* A message is only about between the failure and the place that prints   *)
(* it, and none is there when another one may be made.                     *)
(***************************************************************************)
MessagesInv ==
  /\ status # "abort"
  /\ pc # "exit" => status = "running"
  /\ pc \notin {"load_failed", "loaded"} => ~ error_desc
  /\ pc \notin {"client_failed", "server_failed"} => ~ nest_error_desc

\* Neither message is set when main begins.
LEMMA InitMessagesInv == Init => MessagesInv
  BY DEF Init, MessagesInv

\* Decoding a key: a message stops the loading at once.
LEMMA DecodeKeepsMessagesInv ==
  ASSUME MessagesInv, NEW field \in {"private", "public"}, NEW next \in {"public", "client"},
         Decode(field, next)
  PROVE  MessagesInv'
  <1> USE DEF Goto, Exit, Goes, Ends
  <1>1. PICK copied \in BOOLEAN, printed \in BOOLEAN :
          /\ Printed(copied /\ file[field] = "bad", printed, copied)
          /\ error_desc' = (error_desc \/ printed)
          /\ IF copied
             THEN assure_error_desc_empty(field, error_desc,
                    IF file[field] = "good" THEN next ELSE "load_failed")
             ELSE Goto(field, "load_failed")
    BY DEF Decode
  <1>2. pc = field /\ ~ error_desc /\ ~ nest_error_desc /\ ~ nest_error_desc'
        /\ status = "running"
    BY <1>1 DEF Decode, MessagesInv, assure_error_desc_empty
  <1>3. status' = "running" /\ pc' = IF copied /\ file[field] = "good" THEN next ELSE "load_failed"
    BY <1>1, <1>2 DEF assure_error_desc_empty
  <1>4. copied /\ file[field] = "good" => ~ error_desc'
    BY <1>1, <1>2 DEF Printed
  <1>5. QED
    BY <1>2, <1>3, <1>4 DEF MessagesInv

\* Reading the file and its keys.
LEMMA KeysKeepMessagesInv ==
  ASSUME MessagesInv, ReadFile \/ PrivateKey \/ PublicKey
  PROVE  MessagesInv'
  <1> USE DEF MessagesInv, Goto, Goes
  <1>1. CASE ReadFile
    BY <1>1 DEF ReadFile, loading
  <1>2. CASE PrivateKey
    BY <1>2, DecodeKeepsMessagesInv DEF PrivateKey, loading
  <1>3. CASE PublicKey
    BY <1>3, DecodeKeepsMessagesInv DEF PublicKey, loading
  <1>4. QED
    BY <1>1, <1>2, <1>3

\* A section: what stops it is noted once, in the nested message.
LEMMA SectionsKeepMessagesInv ==
  ASSUME MessagesInv, NEW s \in Sections, Section(s) \/ ParseSockAddr(s)
  PROVE  MessagesInv'
  <1> USE DEF MessagesInv, Goto, Goes, Exit, Ends, assure_error_desc_empty, Sections, After, Addr
  <1>1. CASE Section(s)
    BY <1>1 DEF Section
  <1>2. CASE ParseSockAddr(s)
    <2>1. PICK copied \in BOOLEAN, printed \in BOOLEAN :
            LET ok == copied /\ file[s][setting] = "good" IN
            /\ SockAddr(s, file[s][setting], copied, printed)
            /\ assure_error_desc_empty(Addr(s), nest_error_desc,
                 IF ~ ok THEN Failed(s) ELSE IF setting = "listen" THEN Addr(s) ELSE After(s))
      BY <1>2 DEF ParseSockAddr
    <2>2. pc = Addr(s) /\ status' = status /\ error_desc' = error_desc
          /\ ~ nest_error_desc /\ ~ error_desc /\ status = "running"
      BY <1>2, <2>1 DEF ParseSockAddr
    <2>3. CASE copied /\ file[s][setting] = "good"
      <3>1. ~ nest_error_desc' /\ pc' \in {Addr(s), After(s)}
        BY <2>1, <2>2, <2>3 DEF SockAddr, Printed
      <3>2. QED
        BY <2>2, <3>1
    <2>4. CASE ~ (copied /\ file[s][setting] = "good")
      <3>1. pc' = Failed(s)
        BY <2>1, <2>2, <2>4
      <3>2. QED
        BY <2>2, <3>1 DEF Failed
    <2>5. QED
      BY <2>3, <2>4
  <1>3. QED
    BY <1>1, <1>2

\* A message is set where a call fails and freed where it is printed.
LEMMA NextKeepsMessagesInv == MessagesInv /\ [Next]_vars => MessagesInv'
  <1> SUFFICES ASSUME MessagesInv, [Next]_vars PROVE MessagesInv'
    OBVIOUS
  <1> USE DEF Goto, Exit, Goes, Ends
  <1>1. CASE parse_opt \/ Main \/ keygen_display
    BY <1>1 DEF parse_opt, ParseConfig, ParsePrng, ParseMode, ParseEnd, UsageError, Parses, Main,
       keygen_display, loading, MessagesInv
  <1>2. CASE cryptochan_config_load
    <2>1. CASE ParseClientFails \/ ParseServerFails
      <3>1. /\ pc \in {"client_failed", "server_failed"} /\ pc' \in {"load_failed", "loaded"}
            /\ status' = status /\ nest_error_desc' = FALSE
        BY <2>1 DEF ParseClientFails, ParseServerFails, PassOn
      <3>2. QED
        BY <3>1 DEF MessagesInv
    <2>2. CASE LoadFailed \/ Loaded
      BY <2>2 DEF LoadFailed, Loaded, MessagesInv
    <2>3. QED
      BY <1>2, <2>1, <2>2, KeysKeepMessagesInv, SectionsKeepMessagesInv DEF cryptochan_config_load
  <1>3. CASE run_server \/ run_client
    BY <1>3 DEF run_server, Resolve, Alloc, Socket, setnonblocking, Setup, DispatcherFails,
       ServerEnds, run_client, loading, MessagesInv
  <1>4. CASE UNCHANGED vars
    BY <1>4 DEF vars, loading, MessagesInv
  <1>5. QED
    BY <1>1, <1>2, <1>3, <1>4 DEF Next

-----------------------------------------------------------------------------
(* What the server allocates and opens *)

ServingInv ==
  /\ pc \notin {"socket", "nonblocking", "setup", "init_done", "init_failed"} => ~ sockaddr
  /\ pc \notin {"nonblocking", "setup", "init_done", "init_failed", "exit"} => open = {}
  /\ pc \in {"nonblocking", "setup", "init_done", "init_failed"} =>
       /\ context.listen_sockfd \in Nat \cup {None}
       /\ open = {context.listen_sockfd} \ {None}
  /\ pc \in {"socket", "nonblocking", "setup", "init_done", "init_failed"} =>
       context = [listen_socket_ptr |-> TRUE, listen_sockfd |-> context.listen_sockfd]
  /\ pc = "exit" => open \subseteq {0}

\* There is no dispatcher before run_server.
LEMMA InitServingInv == Init => ServingInv
  <1> SUFFICES ASSUME Init PROVE ServingInv
    OBVIOUS
  <1>1. pc = "parse" /\ open = {} /\ ~ sockaddr
    BY DEF Init
  <1>2. QED
    BY <1>1 DEF ServingInv

\* dispatcher_init, its failures and dispatcher_destroy_context.
LEMMA NextKeepsServingInv == ServingInv /\ [Next]_vars => ServingInv'
  <1> SUFFICES ASSUME ServingInv, [Next]_vars PROVE ServingInv'
    OBVIOUS
  <1> USE DEF Goto, Exit, Goes, Ends
  <1>1. CASE parse_opt \/ Main \/ keygen_display
    BY <1>1 DEF parse_opt, ParseConfig, ParsePrng, ParseMode, ParseEnd, UsageError, Parses, Main,
       keygen_display, serving, ServingInv
  <1>2. CASE cryptochan_config_load
    <2>1. /\ pc \notin {"socket", "nonblocking", "setup", "init_done", "init_failed", "exit"}
          /\ pc' \notin {"socket", "nonblocking", "setup", "init_done", "init_failed"}
          /\ UNCHANGED serving
      BY <1>2 DEF cryptochan_config_load, ReadFile, PrivateKey, PublicKey, Decode, Section,
         ParseSockAddr, assure_error_desc_empty, PassOn, After, Addr, Failed, ParseClientFails, ParseServerFails,
         LoadFailed, Loaded, Sections
    <2>2. QED
      BY <2>1 DEF ServingInv, serving
  <1>3. CASE Resolve \/ Alloc \/ run_client
    BY <1>3 DEF Resolve, Alloc, run_client, serving, ServingInv
  <1>4. CASE Socket
    <2>1. Fds \subseteq Nat
      BY StartupAssumption, Zenon
    <2>2. QED
      BY <1>4, <2>1 DEF Socket, ServingInv, None
  <1>5. CASE setnonblocking \/ Setup
    BY <1>5 DEF setnonblocking, Setup, serving, ServingInv
  <1>6. CASE DispatcherFails \/ ServerEnds
    <2>1. /\ context.listen_sockfd \in Nat \cup {None}
          /\ open = {context.listen_sockfd} \ {None}
          /\ pc' = "exit"
          /\ open' = IF context.listen_sockfd > 0 THEN open \ {context.listen_sockfd} ELSE open
      BY <1>6 DEF DispatcherFails, ServerEnds, dispatcher_destroy_context, ServingInv
    <2>2. open' \subseteq {0}
      BY <2>1 DEF None
    <2>3. context.listen_socket_ptr
      <3>1. context = [listen_socket_ptr |-> TRUE, listen_sockfd |-> context.listen_sockfd]
        BY <1>6 DEF DispatcherFails, ServerEnds, ServingInv
      <3>2. context.listen_socket_ptr = TRUE
        BY <3>1, SMT
      <3>3. QED
        BY <3>2, Zenon
    <2>4. ~ sockaddr'
      BY <1>6, <2>3, Zenon DEF DispatcherFails, ServerEnds, dispatcher_destroy_context
    <2>5. QED
      BY <2>1, <2>2, <2>4 DEF ServingInv
  <1>7. CASE UNCHANGED vars
    BY <1>7 DEF vars, serving, ServingInv
  <1>8. QED
    BY <1>1, <1>2, <1>3, <1>4, <1>5, <1>6, <1>7 DEF Next, run_server

-----------------------------------------------------------------------------
(* What is known of the configuration *)

Address == [host : BOOLEAN, port : BOOLEAN]
SectionType == [present : BOOLEAN, listen : Address, target : Address]

Types ==
  /\ config \in [private : BOOLEAN, public : BOOLEAN, client : SectionType, server : SectionType]
  /\ setting \in {"listen", "target"}
  /\ file \in Files \cup {Unread}
  /\ mode \in {"none", "keygen"} \cup Sections
  /\ pc = "main" => mode # "none"
  /\ pc \notin {"parse", "main", "keygen", "exit"} => mode \in Sections

KeysRead == config.private /\ (config.public <=> file.public # "missing")
BothGiven(a) == a.host /\ a.port
ClientRead ==
  config.client.present => BothGiven(config.client.listen) /\ BothGiven(config.client.target)

\* What is reported without error_desc.
OwnMessage ==
  \/ ~ file.readable
  \/ file.private = "missing"
  \/ config.public /\ file.public = "other"

BeforeSections == {"parse", "main", "keygen", "read", "private", "public", "client"}
ClientDone == {"server", "server_addr", "server_failed", "loaded", "run_client"}

ConfigInv ==
  /\ Types
  /\ pc \in BeforeSections => ~ config.client.present
  /\ pc \in BeforeSections \ {"client"} => ~ config.public
  /\ pc = "public" => config.private
  /\ pc \in {"client", "client_addr"} \cup ClientDone => KeysRead
  /\ pc = "client_addr" /\ setting = "target" => BothGiven(config.client.listen)
  /\ pc \in ClientDone => ClientRead
  /\ pc = "client_failed" => nest_error_desc \/ out_of_memory
  /\ pc = "load_failed" => error_desc \/ out_of_memory \/ OwnMessage
  /\ pc = "run_client" => config.client.present

\* What a file that can be read has in its sections.
LEMMA FilesHaveSections ==
  ASSUME NEW f \in Files \cup {Unread}, NEW s \in Sections
  PROVE  f[s].present \in BOOLEAN
  <1>1. CASE f \in Files
    <2>1. \A g \in Files : \A t \in Sections :
            g[t].present \in BOOLEAN /\ g[t].listen \in SockAddrs /\ g[t].target \in SockAddrs
      BY StartupAssumption, Zenon
    <2>2. QED
      BY <1>1, <2>1
  <1>2. CASE f = Unread
    <2>1. Unread["client"] = Nothing /\ Unread["server"] = Nothing
      BY DEF Unread
    <2>2. Nothing.present \in BOOLEAN
      BY DEF Nothing
    <2>3. QED
      BY <1>2, <2>1, <2>2 DEF Sections
  <1>3. QED
    BY <1>1, <1>2

\* ... and what its keys are like.
LEMMA FilesHaveKeys ==
  ASSUME NEW f \in Files \cup {Unread}
  PROVE  /\ f.private \in {"missing", "bad", "good"}
         /\ f.public \in {"missing", "bad", "other", "good"}
  <1>1. CASE f \in Files
    BY <1>1, StartupAssumption, Zenon
  <1>2. CASE f = Unread
    BY <1>2 DEF Unread
  <1>3. QED
    BY <1>1, <1>2

\* No configuration is loaded yet.
LEMMA InitConfigInv == Init => ConfigInv
  <1> SUFFICES ASSUME Init PROVE ConfigInv
    OBVIOUS
  <1>1. /\ pc = "parse" /\ setting = "listen" /\ file = Unread /\ mode = "none"
        /\ config = [private |-> FALSE, public |-> FALSE,
                     client |-> NoSection, server |-> NoSection]
    BY DEF Init
  <1>2. NoSection \in SectionType /\ ~ NoSection.present
    BY DEF NoSection, SectionType, NoAddr, Address
  <1>3. config.client = NoSection /\ Types
    BY <1>1, <1>2 DEF Types
  <1>4. QED
    BY <1>1, <1>2, <1>3 DEF ConfigInv, ClientDone

\* Setting one of the two strings of the keys leaves the sections as they are.
LEMMA CopiedKeepsSections ==
  ASSUME Types, NEW field \in {"private", "public"}, NEW ok \in BOOLEAN, Copied(field, ok)
  PROVE  /\ config'.client = config.client
         /\ field = "private" => config'.private = ok /\ config'.public = config.public
         /\ field = "public" => config'.public = ok /\ config'.private = config.private
         /\ config' \in [private : BOOLEAN, public : BOOLEAN,
                         client : SectionType, server : SectionType]
  BY DEF Types, Copied

\* A key that is given is copied and decoded.
LEMMA DecodeKeepsConfigInv ==
  ASSUME ConfigInv, MessagesInv,
         \/ file.private # "missing" /\ Decode("private", "public")
         \/ file.public # "missing" /\ Decode("public", "client")
  PROVE  ConfigInv'
  <1> USE DEF Goto, Exit, Goes, Ends
  <1> PICK field \in {"private", "public"} :
            file[field] # "missing" /\ Decode(field, IF field = "private" THEN "public" ELSE "client")
    OBVIOUS
  <1> DEFINE next == IF field = "private" THEN "public" ELSE "client"
  <1>1. PICK copied \in BOOLEAN, printed \in BOOLEAN :
          /\ Copied(field, copied)
          /\ Printed(copied /\ file[field] = "bad", printed, copied)
          /\ error_desc' = (error_desc \/ printed)
          /\ IF copied
             THEN assure_error_desc_empty(field, error_desc,
                    IF file[field] = "good" THEN next ELSE "load_failed")
             ELSE Goto(field, "load_failed")
    BY DEF Decode
  <1>2. /\ pc = field /\ ~ error_desc
        /\ pc' = IF copied /\ file[field] = "good" THEN next ELSE "load_failed"
        /\ UNCHANGED <<setting, file, mode>>
    BY <1>1 DEF Decode, MessagesInv, assure_error_desc_empty, arguments
  <1>3. /\ Types /\ ~ config.client.present /\ mode \in Sections
        /\ field = "public" => config.private
        /\ ~ config.public
    BY <1>2 DEF ConfigInv, BeforeSections, Types
  <1>4. /\ config'.client = config.client
        /\ field = "private" => config'.private = copied /\ ~ config'.public
        /\ field = "public" => config'.public = copied /\ config'.private
        /\ Types'
    BY <1>1, <1>2, <1>3, CopiedKeepsSections DEF Types
  <1>5. field = "public" /\ pc' = "client" => KeysRead'
    BY <1>2, <1>4 DEF KeysRead
  <1>6. pc' = "load_failed" => error_desc' \/ out_of_memory' \/ OwnMessage'
    <2>1. CASE ~ copied
      BY <1>1, <2>1 DEF Printed
    <2>2. CASE copied /\ file[field] = "bad"
      BY <1>1, <2>2 DEF Printed
    <2>3. CASE copied /\ file[field] = "other" /\ field = "public"
      BY <1>2, <1>4, <2>3 DEF OwnMessage
    <2>4. CASE copied /\ file[field] = "good"
      BY <1>2, <2>4
    <2>5. QED
      BY <1>3, <2>1, <2>2, <2>3, <2>4, FilesHaveKeys DEF Types
  <1>7. QED
    BY <1>2, <1>3, <1>4, <1>5, <1>6 DEF ConfigInv, BeforeSections, ClientDone

\* cryptochan_config_load reads the two keys, if they are there.
LEMMA KeysKeepConfigInv ==
  ASSUME ConfigInv, MessagesInv, PrivateKey \/ PublicKey
  PROVE  ConfigInv'
  <1> USE DEF Goto, Goes
  <1>1. CASE Decode("private", "public") /\ file.private # "missing"
    BY <1>1, DecodeKeepsConfigInv
  <1>2. CASE Decode("public", "client") /\ file.public # "missing"
    BY <1>2, DecodeKeepsConfigInv
  <1>3. CASE file.private = "missing" /\ Goto("private", "load_failed") /\ UNCHANGED loading
    BY <1>3 DEF loading, arguments, ConfigInv, Types, OwnMessage, BeforeSections, ClientDone
  <1>4. CASE file.public = "missing" /\ Goto("public", "client") /\ UNCHANGED loading
    <2>1. ~ config.public
      BY <1>4 DEF ConfigInv, BeforeSections
    <2>2. QED
      BY <1>4, <2>1 DEF loading, arguments, ConfigInv, Types, KeysRead, BeforeSections, ClientDone
  <1>5. QED
    BY <1>1, <1>2, <1>3, <1>4 DEF PrivateKey, PublicKey

\* The address of one setting of one section is all that parse_sock_addr changes.
LEMMA SockAddrKeeps ==
  ASSUME Types, NEW s \in Sections, NEW addr, NEW copied \in BOOLEAN, NEW printed \in BOOLEAN,
         SockAddr(s, addr, copied, printed)
  PROVE  /\ config' \in [private : BOOLEAN, public : BOOLEAN,
                         client : SectionType, server : SectionType]
         /\ config'.private = config.private /\ config'.public = config.public
         /\ s = "server" => config'.client = config.client
         /\ s = "client" =>
              config'.client = [config.client EXCEPT ![setting] =
                                  [host |-> copied, port |-> copied /\ addr = "good"]]
  <1> DEFINE a == [host |-> copied, port |-> copied /\ addr = "good"]
  <1>1. a \in Address
    BY DEF Address
  <1>2. config' = [config EXCEPT ![s] = [config[s] EXCEPT ![setting] = a]]
    BY DEF SockAddr
  <1> HIDE DEF a
  <1>3. config[s] \in SectionType
    BY DEF Types, Sections
  <1>4. [config[s] EXCEPT ![setting] = a] \in SectionType
    BY <1>1, <1>3 DEF Types, SectionType
  <1>5. QED
    BY <1>2, <1>4 DEF Types, Sections, a

\* What is wrong with an address leaves a message, if there is memory for one.
LEMMA SockAddrExplains ==
  ASSUME NEW s, NEW addr, NEW copied \in BOOLEAN, NEW printed \in BOOLEAN,
         SockAddr(s, addr, copied, printed), ~ (copied /\ addr = "good")
  PROVE  nest_error_desc' \/ out_of_memory'
  BY DEF SockAddr, Printed

\* cryptochan_config_load reads one of its sections.
LEMMA SectionKeepsConfigInv ==
  ASSUME ConfigInv, MessagesInv, NEW s \in Sections, Section(s)
  PROVE  ConfigInv'
  <1> USE DEF Goto, Goes
  <1>1. /\ pc = s /\ UNCHANGED <<file, mode>> /\ setting' = "listen"
        /\ pc' = IF file[s].present THEN Addr(s) ELSE After(s)
        /\ config' = [config EXCEPT ![s].present = file[s].present]
    BY DEF Section, assure_error_desc_empty, MessagesInv, Sections, arguments, Exit, Ends
  <1>2. Types /\ mode \in Sections
    BY <1>1 DEF ConfigInv, Types, Sections
  <1>3. file[s].present \in BOOLEAN
    BY <1>2, FilesHaveSections DEF Types
  <1>4. /\ config' \in [private : BOOLEAN, public : BOOLEAN,
                        client : SectionType, server : SectionType]
        /\ config'.private = config.private /\ config'.public = config.public
        /\ s = "server" => config'.client = config.client
        /\ s = "client" => config'.client.present = file[s].present
    BY <1>1, <1>2, <1>3 DEF Types, Sections, SectionType
  <1>5. Types' /\ KeysRead'
    BY <1>1, <1>2, <1>4 DEF Types, KeysRead, ConfigInv, ClientDone, Sections, Addr, After
  <1>6. CASE s = "client"
    <2>1. pc' = "server" => ~ config'.client.present
      BY <1>1, <1>4, <1>6 DEF Addr, After
    <2>2. QED
      BY <1>1, <1>5, <1>6, <2>1
         DEF ConfigInv, BeforeSections, ClientDone, ClientRead, Addr, After
  <1>7. CASE s = "server"
    <2>1. ClientRead'
      BY <1>1, <1>4, <1>7 DEF ConfigInv, ClientDone, ClientRead
    <2>2. QED
      BY <1>1, <1>5, <1>7, <2>1 DEF ConfigInv, BeforeSections, ClientDone, Addr, After
  <1>8. QED
    BY <1>6, <1>7 DEF Sections

\* The address and the port of a section, each with a strdup that may fail.
LEMMA SockAddrKeepsConfigInv ==
  ASSUME ConfigInv, MessagesInv, NEW s \in Sections, ParseSockAddr(s)
  PROVE  ConfigInv'
  <1> USE DEF Goto, Goes
  <1> PICK copied \in BOOLEAN, printed \in BOOLEAN :
            LET ok == copied /\ file[s][setting] = "good" IN
            /\ SockAddr(s, file[s][setting], copied, printed)
            /\ assure_error_desc_empty(Addr(s), nest_error_desc,
                 IF ~ ok THEN Failed(s) ELSE IF setting = "listen" THEN Addr(s) ELSE After(s))
            /\ setting' = IF ok THEN "target" ELSE setting
    BY DEF ParseSockAddr
  <1> DEFINE addr == file[s][setting]
             ok == copied /\ addr = "good"
  <1>1. /\ SockAddr(s, addr, copied, printed)
        /\ pc = Addr(s) /\ UNCHANGED <<file, mode>>
        /\ setting' = IF ok THEN "target" ELSE setting
        /\ pc' = IF ~ ok THEN Failed(s) ELSE IF setting = "listen" THEN Addr(s) ELSE After(s)
    BY DEF assure_error_desc_empty, MessagesInv, Sections, arguments, Addr, Exit, Ends
  <1>2. Types /\ mode \in Sections
    BY <1>1 DEF ConfigInv, Types, Sections, Addr
  <1> HIDE DEF addr
  <1>3. /\ config' \in [private : BOOLEAN, public : BOOLEAN,
                        client : SectionType, server : SectionType]
        /\ config'.private = config.private /\ config'.public = config.public
        /\ s = "server" => config'.client = config.client
        /\ s = "client" =>
             config'.client = [config.client EXCEPT ![setting] =
                                 [host |-> copied, port |-> copied /\ addr = "good"]]
    BY <1>1, <1>2, SockAddrKeeps
  <1>4. Types' /\ KeysRead'
    BY <1>1, <1>2, <1>3 DEF Types, KeysRead, ConfigInv, ClientDone, Sections, Addr, After, Failed
  <1>5. CASE s = "server"
    <2>1. ClientRead'
      BY <1>1, <1>3, <1>5 DEF ConfigInv, ClientDone, ClientRead, Addr
    <2>2. QED
      BY <1>1, <1>4, <1>5, <2>1 DEF ConfigInv, BeforeSections, ClientDone, Addr, After, Failed
  <1>6. CASE s = "client" /\ ok
    <2>1. config.client \in SectionType /\ setting \in {"listen", "target"}
      BY <1>2 DEF Types
    <2>2. /\ setting = "listen" => BothGiven(config'.client.listen)
          /\ setting = "target" => /\ BothGiven(config'.client.target)
                                   /\ config'.client.listen = config.client.listen
      <3> DEFINE a == [host |-> copied, port |-> copied /\ addr = "good"]
      <3>1. a.host /\ a.port
        BY <1>6
      <3>2. config'.client = [config.client EXCEPT ![setting] = a]
        BY <1>3, <1>6
      <3> HIDE DEF a
      <3>3. CASE setting = "listen"
        BY <2>1, <3>1, <3>2, <3>3 DEF SectionType, BothGiven
      <3>4. CASE setting = "target"
        BY <2>1, <3>1, <3>2, <3>4 DEF SectionType, BothGiven
      <3>5. QED
        BY <2>1, <3>3, <3>4
    <2>3. setting = "target" => BothGiven(config.client.listen)
      BY <1>1, <1>6 DEF ConfigInv, Addr
    <2>4. QED
      BY <1>1, <1>4, <1>6, <2>1, <2>2, <2>3
         DEF ConfigInv, BeforeSections, ClientDone, ClientRead, Addr, After
  <1>7. CASE s = "client" /\ ~ ok
    <2>1. pc' = "client_failed" /\ (nest_error_desc' \/ out_of_memory')
      <3>1. nest_error_desc' \/ out_of_memory'
        BY <1>1, <1>7, SockAddrExplains
      <3>2. QED
        BY <1>1, <1>7, <3>1 DEF Failed
    <2>2. QED
      BY <1>4, <2>1 DEF ConfigInv, BeforeSections, ClientDone
  <1>8. QED
    BY <1>5, <1>6, <1>7 DEF Sections

\* One case per step of the loading; all else leaves the configuration alone.
LEMMA NextKeepsConfigInv == ConfigInv /\ MessagesInv /\ [Next]_vars => ConfigInv'
  <1> SUFFICES ASSUME ConfigInv, MessagesInv, [Next]_vars PROVE ConfigInv'
    OBVIOUS
  <1> USE DEF Goto, Exit, Goes, Ends
  <1>1. CASE parse_opt
    <2>1. /\ pc = "parse" /\ pc' \in {"parse", "main", "exit"}
          /\ UNCHANGED <<file, setting, config>>
          /\ mode' \in {mode} \cup Sections \cup {"keygen"}
          /\ pc' = "main" => mode' # "none"
      BY <1>1 DEF parse_opt, ParseConfig, ParsePrng, ParseMode, ParseEnd, UsageError, Parses,
         loading, arguments
    <2>2. QED
      BY <2>1 DEF ConfigInv, Types, BeforeSections, ClientDone
  <1>2. CASE Main \/ keygen_display
    <2>1. /\ pc \in {"main", "keygen"} /\ pc' \in {"keygen", "read", "exit"}
          /\ UNCHANGED <<file, setting, config, mode>>
          /\ pc' = "read" => pc = "main" /\ mode # "keygen"
      BY <1>2 DEF Main, keygen_display, loading, arguments
    <2>2. QED
      BY <2>1 DEF ConfigInv, Types, BeforeSections, ClientDone
  <1>3. CASE ReadFile
    <2>1. /\ pc = "read" /\ pc' = (IF file'.readable THEN "private" ELSE "load_failed")
          /\ file' \in Files /\ UNCHANGED <<setting, config, mode>>
      BY <1>3 DEF ReadFile, loading, arguments
    <2>2. QED
      BY <2>1 DEF ConfigInv, Types, OwnMessage, BeforeSections, ClientDone
  <1>4. CASE ParseClientFails \/ ParseServerFails
    <2>1. UNCHANGED <<setting, config, mode, file>>
      BY <1>4 DEF ParseClientFails, ParseServerFails, PassOn, arguments
    <2>2. nest_error_desc \/ out_of_memory => error_desc' \/ out_of_memory'
      BY <1>4 DEF ParseClientFails, ParseServerFails, PassOn, Printed
    <2>3. CASE ParseClientFails
      <3>1. pc = "client_failed" /\ pc' = "load_failed" /\ (error_desc' \/ out_of_memory')
        BY <2>2, <2>3 DEF ParseClientFails, ConfigInv
      <3>2. Types'
        BY <2>1, <3>1 DEF ConfigInv, Types
      <3>3. QED
        BY <2>1, <3>1, <3>2 DEF ConfigInv, BeforeSections, ClientDone
    <2>4. CASE ParseServerFails
      <3>1. pc = "server_failed" /\ pc' = "loaded"
        BY <2>4 DEF ParseServerFails
      <3>2. QED
        BY <2>1, <3>1 DEF ConfigInv, Types, BeforeSections, ClientDone, KeysRead, ClientRead
    <2>5. QED
      BY <1>4, <2>3, <2>4
  <1>5. CASE LoadFailed
    BY <1>5 DEF LoadFailed, arguments, ConfigInv, Types, BeforeSections, ClientDone
  <1>6. CASE Loaded
    <2>1. /\ pc = "loaded" /\ pc' \in {"run_server", "run_client", "exit"}
          /\ UNCHANGED <<setting, config, mode, file>>
          /\ pc' = "run_client" => mode # "server" /\ config[mode].present
      BY <1>6 DEF Loaded, arguments
    <2>2. mode \in Sections
      BY <2>1 DEF ConfigInv, Types
    <2>3. pc' = "run_client" => config.client.present
      BY <2>1, <2>2 DEF Sections
    <2>4. QED
      BY <2>1, <2>3 DEF ConfigInv, Types, BeforeSections, ClientDone, KeysRead, ClientRead
  <1>7. CASE run_server \/ run_client
    <2>1. /\ pc' \notin BeforeSections \cup ClientDone
                        \cup {"client_addr", "client_failed", "load_failed"}
          /\ UNCHANGED <<setting, config, mode, file>>
          /\ pc \notin {"parse", "main", "keygen", "exit"}
      BY <1>7 DEF run_server, Resolve, Alloc, Socket, setnonblocking, Setup, DispatcherFails,
         ServerEnds, run_client, arguments, loading, BeforeSections, ClientDone
    <2>2. QED
      BY <2>1 DEF ConfigInv, Types, BeforeSections, ClientDone
  <1>8. CASE UNCHANGED vars
    <2>1. /\ UNCHANGED <<pc, config, setting, mode, file>>
          /\ UNCHANGED <<error_desc, nest_error_desc, out_of_memory>>
      BY <1>8 DEF vars, arguments, loading
    <2>2. Types'
      BY <2>1 DEF ConfigInv, Types
    <2>3. KeysRead' = KeysRead /\ ClientRead' = ClientRead /\ OwnMessage' = OwnMessage
      BY <2>1 DEF KeysRead, ClientRead, OwnMessage
    <2>4. QED
      BY <2>1, <2>2, <2>3 DEF ConfigInv, BeforeSections, ClientDone
  <1>9. QED
    BY <1>1, <1>2, <1>3, <1>4, <1>5, <1>6, <1>7, <1>8, KeysKeepConfigInv, SectionKeepsConfigInv,
       SockAddrKeepsConfigInv DEF Next, cryptochan_config_load

-----------------------------------------------------------------------------
(* Theorems *)

StartupInv == ArgsInv /\ MessagesInv /\ ServingInv /\ ConfigInv

\* The four parts of the invariant hold from the command line to the exit.
THEOREM StartupInvariance == Spec => []StartupInv
  <1>1. Init => StartupInv
    BY InitArgsInv, InitMessagesInv, InitServingInv, InitConfigInv DEF StartupInv
  <1>2. StartupInv /\ [Next]_vars => StartupInv'
    BY NextKeepsArgsInv, NextKeepsMessagesInv, NextKeepsServingInv, NextKeepsConfigInv
       DEF StartupInv
  <1>3. QED
    BY <1>1, <1>2, PTL DEF Spec

(***************************************************************************)
(* The assertion of assure_error_desc_empty never aborts the program.      *)
(***************************************************************************)
THEOREM NeverPanics == Spec => []NoPanic
  <1>1. StartupInv => NoPanic
    BY DEF StartupInv, MessagesInv, NoPanic
  <1>2. QED
    BY <1>1, StartupInvariance, PTL

(***************************************************************************)
(* main starts with what the command line says, whatever its length, the   *)
(* order of the options before the mode, and the fall through of parse_opt.*)
(***************************************************************************)
THEOREM MainHasItsArguments == Spec => []ArgumentsObeyed
  <1>1. ASSUME StartupInv PROVE ArgumentsObeyed
    <2>1. SUFFICES ASSUME pc = "main"
                   PROVE  /\ \A i \in Given("arg") : args[i].value = mode
                          /\ \/ Given("config") = {} /\ config_file = Default
                             \/ \E i \in Given("config") :
                                  /\ \A j \in Given("config") : j <= i
                                  /\ config_file = args[i].value
                          /\ use_prng <=> Given("prng") # {}
      BY DEF ArgumentsObeyed
    <2>2. args \in CommandLines /\ parsed = Len(args)
      BY <1>1, <2>1 DEF StartupInv, ArgsInv
    <2>3. DOMAIN args = 1 .. Len(args)
      BY <2>2, CommandLine
    <2>4. \A key : Given(key) = Seen(key)
      BY <2>2, <2>3 DEF Given, Seen
    <2>5. QED
      BY <1>1, <2>1, <2>4 DEF StartupInv, ArgsInv
  <1>2. QED
    BY <1>1, StartupInvariance, PTL

(***************************************************************************)
(* run_client gets both keys' strings, where given, and both addresses of  *)
(* its section, from any file whatsoever.                                  *)
(***************************************************************************)
THEOREM ClientIsComplete == Spec => []ClientComplete
  <1>1. ASSUME StartupInv PROVE ClientComplete
    BY <1>1 DEF StartupInv, ConfigInv, ClientDone, ClientRead, KeysRead, BothGiven,
                ClientComplete, Complete
  <1>2. QED
    BY <1>1, StartupInvariance, PTL

(***************************************************************************)
(* A bad key or client section is explained by a message, unless a string  *)
(* could not be copied or the message itself not be made.                  *)
(***************************************************************************)
THEOREM FailureIsExplained == Spec => []FailureExplained
  <1>1. StartupInv => FailureExplained
    BY DEF StartupInv, ConfigInv, OwnMessage, FailureExplained
  <1>2. QED
    BY <1>1, StartupInvariance, PTL

(***************************************************************************)
(* Whichever call fails, nothing allocated, recorded or opened is left at  *)
(* the end but a socket with the descriptor 0.                             *)
(***************************************************************************)
THEOREM NothingIsLeft == Spec => []NothingLeft
  <1>1. ASSUME StartupInv PROVE NothingLeft
    BY <1>1 DEF StartupInv, MessagesInv, ServingInv, NothingLeft
  <1>2. QED
    BY <1>1, StartupInvariance, PTL

=============================================================================
