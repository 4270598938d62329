------------------------------- MODULE Config -------------------------------
(***************************************************************************)
(* How a run comes by its parameters: server/entry.c and client/entry.c    *)
(* put defaults into a zeroed structure, then the options of the command   *)
(* line, then the lines of a configuration file, check the result and run. *)
(* The graphical front end reads the client's file into a zeroed structure *)
(* and runs.  teavpn2_auth() of auth.c reads the file of a user the same   *)
(* way, compares the password and hands out the user's interface.          *)
(*                                                                         *)
(* Options and lines are words [name, val] in the order they are read.     *)
(* Fields that no check and no later step tells apart are left out: the    *)
(* words that set them are the one called "other".                         *)
(***************************************************************************)
EXTENDS Integers, Sequences, FiniteSetsExt

CONSTANTS Num,       \* numbers given for threads and the MTU
          Dev,       \* device names given
          Pass,      \* passwords given; "" is among them
          MaxOpts,   \* bound on the options
          MaxLines   \* bound on the lines of the file

Empty == ""   \* a zeroed string, and what a word without a value has

ASSUME ConfigAssumption == /\ Num \subseteq Int /\ Empty \in Pass
                           /\ {MaxOpts, MaxLines} \subseteq Nat

Program == {"server", "client", "gui", "auth"}

VARIABLES prog,      \* what is configured
          cfg,       \* struct srv_cfg, struct cli_cfg or struct user_parse_ctx
          opens,     \* the files fopen() opens: the default one, the other one
          errno,     \* why it does not open the others
          ask,       \* auth: the username is well-formed, and the password sent
          pc,        \* "argv", "open", "lines", "check" or "done"
          opts, lines, \* the words read so far
          result,    \* what came of it
          iff        \* auth: the caller's interface description

config_vars == <<prog, cfg, opens, errno, ask, pc, opts, lines, result, iff>>

Zeroed == [cfg_file |-> "default", thread_num |-> 0, dev |-> Empty, iff_dev |-> Empty,
           mtu |-> 0, iff_mtu |-> 0, type |-> "udp", username |-> Empty, password |-> Empty,
           ipv4 |-> Empty]

(* SOCK_UDP is zero: the default of every program.                         *)
ServerDefaults == [Zeroed EXCEPT !.thread_num = 2, !.iff_mtu = 1450,
                                 !.dev = "tsrv0", !.iff_dev = "tsrv0"]

ClientDefaults == [Zeroed EXCEPT !.thread_num = 2, !.dev = "tcli0", !.iff_dev = "tcli0"]

set_default_config(p) == CASE p = "server" -> ServerDefaults
                           [] p = "client" -> ClientDefaults
                           [] OTHER -> Zeroed

(* The description a caller of teavpn2_auth() passes in.                   *)
Untouched == [mtu |-> -1, ipv4 |-> "untouched"]

ConfigInit == /\ prog \in Program
              /\ cfg = set_default_config(prog)
              /\ opens \in SUBSET {"default", "named"}
              /\ errno \in {"ENOENT", "EACCES"}
              /\ ask \in [valid : BOOLEAN, pass : Pass]
              /\ prog # "auth" => ask = [valid |-> TRUE, pass |-> Empty]
              /\ pc = IF prog \in {"server", "client"} THEN "argv" ELSE "open"
              /\ opts = <<>> /\ lines = <<>>
              /\ result = "none" /\ iff = Untouched

-----------------------------------------------------------------------------
(* The words, with the values they may have.                               *)
Types == {"udp", "tcp", "sctp"}
Flag  == {Empty}

ServerOptions ==
    [t |-> Num, D |-> Dev, m |-> Num, s |-> Types, c |-> {"default", "named"},
     encrypt |-> Flag, other |-> Flag, unknown |-> Flag, help |-> Flag]

ClientOptions ==
    [t |-> Num, D |-> Dev, s |-> Types, c |-> {"default", "named"}, u |-> {"alice"},
     p |-> Pass, encrypt |-> Flag, other |-> Flag, unknown |-> Flag, help |-> Flag]

Options == IF prog = "server" THEN ServerOptions ELSE ClientOptions

ServerLines ==
    [thread |-> Num, dev |-> Dev, mtu |-> Num, sock_type |-> Types,
     other |-> Flag, unknown |-> Flag, malformed |-> Flag]

ClientLines ==
    [thread |-> Num, dev |-> Dev, sock_type |-> Types, username |-> {"alice"},
     password |-> Pass, other |-> Flag, unknown |-> Flag, malformed |-> Flag]

UserLines ==
    [username |-> {"alice"}, password |-> Pass, mtu |-> Num, ipv4 |-> {"10.5.5.2"},
     unknown |-> Flag, malformed |-> Flag]

Lines == CASE prog = "server" -> ServerLines
           [] prog = "auth" -> UserLines
           [] OTHER -> ClientLines

(* The fields an option sets.                                              *)
OptionSets(name) ==
    CASE name = "t" -> {"thread_num"}
      [] name = "D" -> {"dev"}
      [] name = "m" -> {"mtu"}
      [] name = "s" -> {"type"}
      [] name = "c" -> {"cfg_file"}
      [] name = "u" -> {"username"}
      [] name = "p" -> {"password"}
      [] OTHER -> {}

(* A slip: a line for the device sets one of its two names.                *)
LineSets_OneName(name) ==
    CASE name = "thread" -> {"thread_num"}
      [] name = "sock_type" -> {"type"}
      [] name = "mtu" -> {"mtu", "iff_mtu"}
      [] name \in {"dev", "username", "password", "ipv4"} -> {name}
      [] OTHER -> {}

(* The fields a line sets.  The server keeps the device and the MTU twice, *)
(* for itself and for the commands that configure the interface.           *)
LineSets(name) ==
    CASE name = "thread" -> {"thread_num"}
      [] name = "sock_type" -> {"type"}
      [] name = "mtu" -> {"mtu", "iff_mtu"}
      [] name = "dev" -> IF prog = "server" THEN {"dev", "iff_dev"} ELSE {"dev"}
      [] name \in {"username", "password", "ipv4"} -> {name}
      [] OTHER -> {}

(* The casts to uint8_t and uint16_t, of what atoi() or strtoul() returns. *)
Convert(f, val) == CASE f = "thread_num" -> val % 2^8
                     [] f \in {"mtu", "iff_mtu"} -> val % 2^16
                     [] OTHER -> val

Assign(fields, val) ==
    cfg' = [f \in DOMAIN cfg |-> IF f \in fields THEN Convert(f, val) ELSE cfg[f]]

Done(res) == pc' = "done" /\ result' = res

-----------------------------------------------------------------------------
(* parse_argv()                                                            *)

(* The tests before the cast.  The server's switch has no default: what it *)
(* does not know it ignores.                                               *)
BadOption(name, val) ==
    \/ name \in {"t", "m"} /\ val <= 0
    \/ name = "s" /\ val = "sctp"
    \/ prog = "client" /\ name = "unknown"

(* atoi(optarg) of an option without an argument reads the null pointer.   *)
TakeOption ==
    /\ pc = "argv" /\ Len(opts) < MaxOpts
    /\ \E name \in DOMAIN Options : \E val \in Options[name] :
         /\ opts' = Append(opts, [name |-> name, val |-> val])
         /\ \/ name = "help" /\ Done("exit") /\ UNCHANGED cfg
            \/ name = "encrypt" /\ Done("crash") /\ UNCHANGED cfg
            \/ BadOption(name, val) /\ Done("EINVAL") /\ UNCHANGED cfg
            \/ /\ name \notin {"help", "encrypt"} /\ ~BadOption(name, val)
               /\ Assign(OptionSets(name), val)
               /\ UNCHANGED <<pc, result>>
    /\ UNCHANGED <<prog, opens, errno, ask, lines, iff>>

ArgvEnds == /\ pc = "argv" /\ pc' = "open"
            /\ UNCHANGED <<prog, cfg, opens, errno, ask, opts, lines, result, iff>>

-----------------------------------------------------------------------------
(* parse_cfg_file(), client_parse_cfg_file() and the opening of the user   *)
(* file, whose name is made of the username.  The programs do without the  *)
(* default file when there is none, and give up when it cannot be read.    *)
OpenFile ==
    /\ pc = "open"
    /\ \/ prog = "auth" /\ ~ask.valid /\ Done("reject")
       \/ /\ prog = "auth" => ask.valid
          /\ cfg.cfg_file \in opens /\ pc' = "lines" /\ UNCHANGED result
       \/ /\ prog = "auth" => ask.valid
          /\ cfg.cfg_file \notin opens
          /\ IF prog \in {"server", "client"} /\ cfg.cfg_file = "default" /\ errno = "ENOENT"
             THEN pc' = "check" /\ UNCHANGED result
             ELSE Done(IF prog = "auth" THEN "reject" ELSE errno)
    /\ UNCHANGED <<prog, cfg, opens, errno, ask, opts, lines, iff>>

(* What a handler refuses, or the parser itself.  teavpn2_auth() only      *)
(* warns of names it does not know.                                        *)
BadLine(name, val) == \/ name = "malformed"
                      \/ name = "sock_type" /\ val = "sctp"
                      \/ prog # "auth" /\ name = "unknown"

(* A refused line does not end the parsing: the following ones count.      *)
ReadLine ==
    /\ pc = "lines" /\ Len(lines) < MaxLines
    /\ \E name \in DOMAIN Lines : \E val \in Lines[name] :
         /\ lines' = Append(lines, [name |-> name, val |-> val])
         /\ IF BadLine(name, val) THEN UNCHANGED cfg ELSE Assign(LineSets(name), val)
    /\ UNCHANGED <<prog, opens, errno, ask, pc, opts, result, iff>>

(* A slip: a good line clears the error of a bad one.                      *)
FileEnds_LastLine ==
    /\ pc = "lines"
    /\ IF lines # <<>> /\ BadLine(lines[Len(lines)].name, lines[Len(lines)].val)
       THEN Done(IF prog = "auth" THEN "reject" ELSE "EINVAL")
       ELSE pc' = "check" /\ UNCHANGED result
    /\ UNCHANGED <<prog, cfg, opens, errno, ask, opts, lines, iff>>

(* ini_parse_file() returns the number of the first bad line, or zero.     *)
FileEnds ==
    /\ pc = "lines"
    /\ IF \E i \in DOMAIN lines : BadLine(lines[i].name, lines[i].val)
       THEN Done(IF prog = "auth" THEN "reject" ELSE "EINVAL")
       ELSE pc' = "check" /\ UNCHANGED result
    /\ UNCHANGED <<prog, cfg, opens, errno, ask, opts, lines, iff>>

-----------------------------------------------------------------------------
(* The end of run_server(), run_client() and the front end's run_teavpn2().*)
Check ==
    /\ pc = "check" /\ prog # "auth"
    /\ Done(CASE prog = "client" /\ Empty \in {cfg.username, cfg.password} -> "EINVAL"
              [] cfg.type = "tcp" /\ ~(prog = "client" /\ Empty \in {cfg.username, cfg.password})
                 -> "ESOCKTNOSUPPORT"
              [] OTHER -> "run")
    /\ UNCHANGED <<prog, cfg, opens, errno, ask, opts, lines, iff>>

(* A slip: the interface is handed out before the password is compared.    *)
CheckPassword_CopiesFirst ==
    /\ pc = "check" /\ prog = "auth"
    /\ iff' = [mtu |-> cfg.iff_mtu, ipv4 |-> cfg.ipv4]
    /\ Done(IF ask.pass = cfg.password THEN "accept" ELSE "reject")
    /\ UNCHANGED <<prog, cfg, opens, errno, ask, opts, lines>>

(* The end of _teavpn2_auth().  A username that differs from the file's is *)
(* only warned of.                                                         *)
CheckPassword ==
    /\ pc = "check" /\ prog = "auth"
    /\ IF ask.pass = cfg.password
       THEN Done("accept") /\ iff' = [mtu |-> cfg.iff_mtu, ipv4 |-> cfg.ipv4]
       ELSE Done("reject") /\ UNCHANGED iff
    /\ UNCHANGED <<prog, cfg, opens, errno, ask, opts, lines>>

ConfigNext == \/ TakeOption \/ ArgvEnds \/ OpenFile \/ ReadLine \/ FileEnds
              \/ Check \/ CheckPassword

ConfigSpec == ConfigInit /\ [][ConfigNext]_config_vars

-----------------------------------------------------------------------------
(* The value of the last of the words with one of these names, or the      *)
(* default.                                                                *)
LastOf(words, names, default) ==
    LET at == {i \in DOMAIN words : words[i].name \in names}
    IN  IF at = {} THEN default ELSE words[Max(at)].val

Given(words, name) == \E i \in DOMAIN words : words[i].name = name

(* -D, "Set virtual network interface name": the interface the server      *)
(* configures is the one of the last -D, when no line of the file names    *)
(* another.  Does not hold: the option sets one of the two names only.     *)
OptionNamesInterface ==
    prog = "server" /\ result = "run" /\ Given(opts, "D") /\ ~Given(lines, "dev") =>
        cfg.dev = LastOf(opts, {"D"}, cfg.dev) /\ cfg.iff_dev = cfg.dev

(* The server configures the device it opened: tun_alloc() and ip(8) get   *)
(* the same name, whatever words named it, in whatever order.  The one     *)
(* exception is an option -D that no line of the file follows up, for      *)
(* which see OptionNamesInterface.                                         *)
DeviceIsConfigured ==
    prog = "server" /\ result = "run" /\ cfg.dev # cfg.iff_dev =>
        Given(opts, "D") /\ ~Given(lines, "dev")

(* The event loops are entered only after input in which nothing was wrong *)
(* and with at least one thread.  No thread at all, which the loops do not *)
(* expect, takes a number that is zero in eight bits, or the front end,    *)
(* which has no default.                                                   *)
CleanRun ==
    result = "run" =>
        /\ \A i \in DOMAIN opts : ~BadOption(opts[i].name, opts[i].val)
        /\ \A i \in DOMAIN lines : ~BadLine(lines[i].name, lines[i].val)
        /\ cfg.cfg_file \notin opens =>
             cfg.cfg_file = "default" /\ errno = "ENOENT" /\ prog # "gui"
        /\ prog = "client" => Empty \notin {cfg.username, cfg.password}
        /\ cfg.thread_num = 0 =>
             \/ prog = "gui" /\ ~Given(lines, "thread")
             \/ Given(lines, "thread") /\ LastOf(lines, {"thread"}, 1) % 256 = 0
             \/ LastOf(opts, {"t"}, 1) >= 256

(* A user is let in exactly with the last password of a readable file, and *)
(* gets the interface of that file; otherwise the caller's description is  *)
(* not touched.                                                            *)
AuthIsExact ==
    prog = "auth" /\ pc = "done" =>
        LET good == /\ ask.valid /\ "default" \in opens
                    /\ ~Given(lines, "malformed")
                    /\ ask.pass = LastOf(lines, {"password"}, Empty)
        IN  /\ result = IF good THEN "accept" ELSE "reject"
            /\ IF good THEN /\ iff.mtu = LastOf(lines, {"mtu"}, 0) % 65536
                            /\ iff.ipv4 = LastOf(lines, {"ipv4"}, Empty)
                       ELSE iff = Untouched
=============================================================================
