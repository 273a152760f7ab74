----------------------------- MODULE ShellProofs -----------------------------
(***************************************************************************)
(* Proofs about the shell: its terminal on USB (UsbTerminal), and the      *)
(* streams with the parser they share (ShellParser).                       *)
(***************************************************************************)
EXTENDS UsbTerminal, ShellParser, SequenceTheorems, WellFoundedInduction, TLAPS

\* What each thread transmits, and where it is.
LEMMA Values ==
  ASSUME TerminalTypeOK
  PROVE  /\ "shell" \in Threads /\ "parser" \in Threads
         /\ \A t \in Threads : text[t] \in [kind : Texts, left : 0 .. Chunks]
         /\ \A t \in Threads : text[t].kind \in Texts /\ text[t].left \in Nat
         /\ Chunks \in Nat /\ Chunks > 0
BY UsbTerminalAssumption DEF TerminalTypeOK, Threads

\* The text of one thread changes.
LEMMA NewText ==
  ASSUME TerminalTypeOK, NEW t \in Threads, NEW kind \in Texts, NEW left \in 0 .. Chunks,
         text' = [text EXCEPT ![t].kind = kind, ![t].left = left]
  PROVE  /\ text' \in [Threads -> [kind : Texts, left : 0 .. Chunks]]
         /\ text'[t].kind = kind /\ text'[t].left = left
         /\ \A u \in Threads \ {t} : text'[u] = text[u]
<1>1. text[t] \in [kind : Texts, left : 0 .. Chunks] BY Values
<1>2. text' = [text EXCEPT ![t] = [text[t] EXCEPT !.kind = kind, !.left = left]]
  BY <1>1 DEF TerminalTypeOK
<1>3. [text[t] EXCEPT !.kind = kind, !.left = left] \in [kind : Texts, left : 0 .. Chunks]
  BY <1>1
<1> QED BY <1>1, <1>2, <1>3 DEF TerminalTypeOK

LEMMA PlugInv ==
  ASSUME TerminalInv, USBX_TerminalEnable
  PROVE  TerminalInv'
BY DEF TerminalInv, USBX_TerminalEnable, TerminalTypeOK, WritesHavePort, PortFits,
       WelcomeDue, stream, history

LEMMA UnplugInv ==
  ASSUME TerminalInv, USBX_TerminalDisable
  PROVE  TerminalInv'
<1> USE DEF TerminalInv, USBX_TerminalDisable, Abort
<1>1. TerminalTypeOK' BY DEF TerminalTypeOK, Transmitting, Threads
<1>2. WritesHavePort' BY DEF TerminalTypeOK, WritesHavePort, Transmitting
<1>3. PortFits' BY DEF TerminalTypeOK, PortFits, Transmitting
<1>4. WelcomeDue' BY DEF WelcomeDue
<1> QED BY <1>1, <1>2, <1>3, <1>4

LEMMA ChangeInv ==
  ASSUME TerminalInv, NEW line \in {0, 1}, USBX_TerminalChange(line)
  PROVE  TerminalInv'
<1> USE DEF TerminalInv, USBX_TerminalChange, stream
<1>1. TerminalTypeOK' BY DEF TerminalTypeOK
<1>2. WritesHavePort' BY DEF WritesHavePort
<1>3. PortFits' BY DEF TerminalTypeOK, PortFits
<1>4. WelcomeDue' BY DEF WelcomeDue
<1> QED BY <1>1, <1>2, <1>3, <1>4

\* The steps of the reader that transmit nothing.
LEMMA ReaderInv ==
  ASSUME TerminalInv, CheckPort \/ WaitEnabled \/ Read \/ Key \/ FindWelcome
  PROVE  TerminalInv'
<1> USE DEF TerminalInv, CheckPort, WaitEnabled, Read, Key, FindWelcome, Goto, port,
            stream, history
<1>1. PICK where \in {"check", "wait", "call", "read", "process", "clear"} :
        /\ pc' = [pc EXCEPT !["shell"] = where] /\ pc["shell"] \notin Transmitting
        /\ UNCHANGED <<port, stream, text, endpoint, welcomed, pulled, kept, fault>>
        /\ fresh' \in BOOLEAN
  BY DEF TerminalTypeOK, Transmitting
<1>2. /\ pc' \in [Threads -> {"idle", "check", "wait", "call", "read", "process", "clear"}
                               \cup Transmitting]
      /\ pc'["shell"] = where /\ pc'["parser"] = pc["parser"]
      /\ pc'["shell"] \notin Transmitting
  BY <1>1 DEF TerminalTypeOK, Threads, Transmitting
<1> HIDE DEF CheckPort, WaitEnabled, Read, Key, FindWelcome, Goto
<1>3. TerminalTypeOK' BY <1>1, <1>2 DEF TerminalTypeOK, Threads, Transmitting
<1>4. WritesHavePort' BY <1>1, <1>2 DEF WritesHavePort, Threads, Transmitting
<1>5. PortFits' BY <1>1, <1>2 DEF PortFits, Threads, Transmitting
<1>6. WelcomeDue' BY <1>1, <1>2 DEF WelcomeDue, Transmitting
<1> QED BY <1>3, <1>4, <1>5, <1>6

\* A thread begins a text: the reader an echo or the welcome, parser_task an answer.
LEMMA BeginTextInv ==
  ASSUME TerminalInv, Echo \/ Welcome \/ Answer
  PROVE  TerminalInv'
<1> USE Values DEF TerminalInv
<1>1. PICK t \in Threads, kind \in Texts, left \in 0 .. Chunks :
        /\ left > 0 /\ text' = [text EXCEPT ![t].kind = kind, ![t].left = left]
        /\ pc' = [pc EXCEPT ![t] = "test"] /\ pc[t] \notin Transmitting
        /\ UNCHANGED <<port, cdc, endpoint, history, fault>>
        /\ \/ t = "shell" /\ kind = "echo" /\ pc["shell"] = "process" /\ ~welcome /\ ~welcome'
           \/ t = "shell" /\ kind = "welcome" /\ ~welcome'
           \/ t = "parser" /\ kind = "answer" /\ welcome' = welcome
  BY DEF Echo, Welcome, Answer, Goto, Texts, Transmitting, stream
<1>2. /\ text' \in [Threads -> [kind : Texts, left : 0 .. Chunks]]
      /\ text'[t].kind = kind /\ text'[t].left = left
      /\ \A u \in Threads \ {t} : text'[u] = text[u]
  BY <1>1, NewText
<1>3. /\ pc' \in [Threads -> {"idle", "check", "wait", "call", "read", "process", "clear"}
                               \cup Transmitting]
      /\ pc'[t] = "test" /\ \A u \in Threads \ {t} : pc'[u] = pc[u]
  BY <1>1 DEF TerminalTypeOK, Transmitting
<1>4. welcome' \in BOOLEAN BY <1>1 DEF TerminalTypeOK
<1>5. TerminalTypeOK'
  BY <1>1, <1>2, <1>3, <1>4 DEF TerminalTypeOK, Threads, Transmitting, port, history
<1>6. WritesHavePort' BY <1>1, <1>3 DEF WritesHavePort, history
<1>7. PortFits' BY <1>1, <1>3 DEF PortFits, port, history
<1>8. WelcomeDue'
  BY <1>1, <1>2, <1>3 DEF WelcomeDue, Threads, Transmitting, history
<1> QED BY <1>5, <1>6, <1>7, <1>8

\* What the end of a text leaves.
LEMMA TextEnds ==
  ASSUME TerminalTypeOK, NEW t \in Threads, EndText(t)
  PROVE  /\ text' \in [Threads -> [kind : Texts, left : 0 .. Chunks]]
         /\ pc' \in [Threads -> {"idle", "check", "wait", "call", "read", "process", "clear"}
                                  \cup Transmitting]
         /\ \A u \in Threads \ {t} : text'[u] = text[u] /\ pc'[u] = pc[u]
         /\ \/ /\ t = "shell" /\ text[t].kind = "welcome" /\ pc'[t] = "test"
               /\ text'[t].kind = "echo" /\ text'[t].left = 1
            \/ /\ pc'[t] = (IF t = "shell" THEN "check" ELSE "idle")
               /\ text'[t].kind = "none" /\ text'[t].left = 0
<1> USE Values
<1>1. CASE t = "shell" /\ text[t].kind = "welcome"
  <2>1. /\ text' = [text EXCEPT ![t].kind = "echo", ![t].left = 1]
        /\ pc' = [pc EXCEPT ![t] = "test"]
    BY <1>1 DEF EndText, Goto
  <2>2. "echo" \in Texts /\ 1 \in 0 .. Chunks BY DEF Texts
  <2>3. /\ text' \in [Threads -> [kind : Texts, left : 0 .. Chunks]]
        /\ text'[t].kind = "echo" /\ text'[t].left = 1
        /\ \A u \in Threads \ {t} : text'[u] = text[u]
    BY <2>1, <2>2, NewText
  <2> QED BY <1>1, <2>1, <2>3 DEF TerminalTypeOK, Transmitting
<1>2. CASE ~ (t = "shell" /\ text[t].kind = "welcome")
  <2>1. /\ text' = [text EXCEPT ![t] = NoText]
        /\ pc' = [pc EXCEPT ![t] = IF t = "shell" THEN "check" ELSE "idle"]
    BY <1>2 DEF EndText, Goto
  <2>2. NoText \in [kind : Texts, left : 0 .. Chunks] BY DEF NoText, Texts
  <2> QED BY <2>1, <2>2 DEF TerminalTypeOK, NoText
<1> QED BY <1>1, <1>2

\* A text ends on its way, without a packet that leaves.
LEMMA EndTextInv ==
  ASSUME TerminalInv, NEW t \in Threads, EndText(t), pc[t] \in Transmitting \ {"transfer"},
         cdc => pc[t] = "aborted",
         pulled' \in {pulled, pulled \ {t}},
         endpoint' = (IF endpoint = t THEN "none" ELSE endpoint),
         UNCHANGED <<port, stream, fresh, welcomed, kept, fault>>
  PROVE  TerminalInv'
<1> USE DEF TerminalInv
<1>1. /\ text' \in [Threads -> [kind : Texts, left : 0 .. Chunks]]
      /\ pc' \in [Threads -> {"idle", "check", "wait", "call", "read", "process", "clear"}
                               \cup Transmitting]
      /\ \A u \in Threads \ {t} : text'[u] = text[u] /\ pc'[u] = pc[u]
      /\ \/ /\ t = "shell" /\ text[t].kind = "welcome" /\ pc'[t] = "test"
            /\ text'[t].kind = "echo" /\ text'[t].left = 1
         \/ /\ pc'[t] = (IF t = "shell" THEN "check" ELSE "idle")
            /\ text'[t].kind = "none" /\ text'[t].left = 0
  BY TextEnds
<1>2. TerminalTypeOK'
  BY <1>1 DEF TerminalTypeOK, Threads, Transmitting, port, stream
<1>3. WritesHavePort' BY <1>1 DEF WritesHavePort, stream
<1>4. PortFits' BY <1>1 DEF PortFits, port, stream
<1>5. WelcomeDue' BY <1>1 DEF WelcomeDue, Threads, Transmitting, stream
<1> QED BY <1>2, <1>3, <1>4, <1>5

LEMMA TransmitInv ==
  ASSUME TerminalInv, NEW t \in Threads, TestPort(t) \/ WriteNull(t) \/ Failed(t)
  PROVE  TerminalInv'
<1> USE DEF TerminalInv
<1>1. pc[t] = "test" => endpoint # t BY DEF TerminalTypeOK
<1>2. CASE TestPort(t) /\ ~cdc
  <2>1. /\ EndText(t) /\ pulled' \in {pulled, pulled \ {t}} /\ pc[t] = "test"
        /\ endpoint' = endpoint
        /\ UNCHANGED <<port, stream, fresh, welcomed, kept, fault>>
    BY <1>2 DEF TestPort
  <2> QED BY <1>1, <1>2, <2>1, EndTextInv DEF Transmitting
<1>3. CASE TestPort(t) /\ cdc
  <2>1. /\ pc' = [pc EXCEPT ![t] = "loop"] /\ pulled' = pulled \ {t} /\ pc[t] = "test"
        /\ UNCHANGED <<port, stream, text, endpoint, fresh, welcomed, kept, fault>>
    BY <1>3 DEF TestPort, Goto
  <2>2. TerminalTypeOK'
    BY <2>1 DEF TerminalTypeOK, Threads, Transmitting, port, stream
  <2>3. WritesHavePort' BY <1>3, <2>1 DEF TerminalTypeOK, WritesHavePort, stream
  <2>4. PortFits' BY <2>1 DEF TerminalTypeOK, PortFits, port, stream
  <2>5. WelcomeDue' BY <2>1 DEF TerminalTypeOK, WelcomeDue, Threads, Transmitting, stream
  <2> QED BY <2>2, <2>3, <2>4, <2>5
<1>4. CASE WriteNull(t) /\ ~EndText(t)
  <2>1. fault' = TRUE /\ UNCHANGED <<pc, text, port, stream, endpoint, history>>
    BY <1>4 DEF WriteNull
  <2>2. TerminalTypeOK' BY <2>1 DEF TerminalTypeOK, port, stream, history
  <2> QED BY <2>1, <2>2 DEF WritesHavePort, PortFits, WelcomeDue, port, stream, history
<1>5. CASE WriteNull(t) /\ EndText(t)
  <2>1. pc[t] = "loop" /\ ~cdc /\ endpoint # t BY <1>5 DEF WriteNull, TerminalTypeOK
  <2>2. UNCHANGED <<port, stream, endpoint, history>> /\ fault' \in BOOLEAN
    BY <1>5 DEF WriteNull, TerminalTypeOK
  <2>3. CASE fault' = fault
    BY <1>5, <2>1, <2>2, <2>3, EndTextInv DEF history, Transmitting
  <2>4. CASE fault' # fault
    <3>1. UNCHANGED <<pc, text>> BY <1>5, <2>4 DEF WriteNull
    <3>2. TerminalTypeOK' BY <2>2, <3>1 DEF TerminalTypeOK, port, stream, history
    <3> QED BY <2>2, <3>1, <3>2
            DEF WritesHavePort, PortFits, WelcomeDue, port, stream, history
  <2> QED BY <2>3, <2>4
<1>6. CASE Failed(t)
  <2>1. /\ pc[t] = "aborted" /\ endpoint = t /\ endpoint' = "none" /\ EndText(t)
        /\ UNCHANGED <<port, stream, history, fault>>
    BY <1>6 DEF Failed, TerminalTypeOK
  <2> QED BY <2>1, EndTextInv DEF history, Transmitting
<1> QED BY <1>2, <1>3, <1>4, <1>5, <1>6

LEMMA WriteInv ==
  ASSUME TerminalInv, NEW t \in Threads, Write(t)
  PROVE  TerminalInv'
<1> USE DEF TerminalInv
<1>1. /\ endpoint = "none" /\ endpoint' = t /\ pc' = [pc EXCEPT ![t] = "transfer"]
      /\ pc[t] = "loop" /\ cdc /\ UNCHANGED <<port, stream, text, history, fault>>
  BY DEF Write, PortFits, Goto
<1>2. TerminalTypeOK'
  BY <1>1 DEF TerminalTypeOK, Threads, Transmitting, port, stream, history
<1>3. WritesHavePort' BY <1>1 DEF TerminalTypeOK, WritesHavePort, stream, history
<1>4. PortFits' BY <1>1 DEF TerminalTypeOK, PortFits, port, stream, history
<1>5. WelcomeDue'
  BY <1>1 DEF TerminalTypeOK, WelcomeDue, Threads, Transmitting, stream, history
<1> QED BY <1>2, <1>3, <1>4, <1>5

LEMMA SentInv ==
  ASSUME TerminalInv, NEW t \in Threads, Sent(t)
  PROVE  TerminalInv'
<1> USE Values DEF TerminalInv
<1>1. /\ pc[t] = "transfer" /\ endpoint = t /\ endpoint' = "none" /\ cdc
      /\ welcomed' = (welcomed \/ (text[t].kind = "welcome" /\ text[t].left = 1))
      /\ text[t].left \in Nat /\ text[t].left > 0
      /\ UNCHANGED <<port, stream, fresh, pulled, kept, fault>>
  BY DEF Sent, TerminalTypeOK, PortFits, Transmitting
<1>2. CASE text[t].left > 1
  <2>1. /\ text' = [text EXCEPT ![t].left = text[t].left - 1]
        /\ pc' = [pc EXCEPT ![t] = "loop"] /\ welcomed' = welcomed
    BY <1>1, <1>2 DEF Sent, Goto, TerminalTypeOK
  <2>2. text[t].left - 1 \in 0 .. Chunks BY <1>1, <1>2 DEF TerminalTypeOK
  <2>3. /\ text' \in [Threads -> [kind : Texts, left : 0 .. Chunks]]
        /\ text'[t].kind = text[t].kind /\ text'[t].left = text[t].left - 1
        /\ \A u \in Threads \ {t} : text'[u] = text[u]
    <3>1. text' = [text EXCEPT ![t] = [text[t] EXCEPT !.left = text[t].left - 1]]
      BY <2>1 DEF TerminalTypeOK
    <3>2. [text[t] EXCEPT !.left = text[t].left - 1] \in [kind : Texts, left : 0 .. Chunks]
      BY <2>2
    <3> QED BY <3>1, <3>2 DEF TerminalTypeOK
  <2>4. TerminalTypeOK'
    BY <1>1, <1>2, <2>1, <2>3 DEF TerminalTypeOK, Threads, Transmitting, port, stream
  <2>5. WritesHavePort' BY <1>1, <2>1 DEF TerminalTypeOK, WritesHavePort, stream
  <2>6. PortFits' BY <1>1, <2>1 DEF TerminalTypeOK, PortFits, port, stream
  <2>7. WelcomeDue'
    BY <1>1, <2>1, <2>3 DEF TerminalTypeOK, WelcomeDue, Threads, Transmitting, stream
  <2> QED BY <2>4, <2>5, <2>6, <2>7
<1>3. CASE ~ (text[t].left > 1)
  <2>1. EndText(t) /\ text[t].left = 1 BY <1>1, <1>3 DEF Sent
  <2>2. /\ text' \in [Threads -> [kind : Texts, left : 0 .. Chunks]]
        /\ pc' \in [Threads -> {"idle", "check", "wait", "call", "read", "process", "clear"}
                                 \cup Transmitting]
        /\ \A u \in Threads \ {t} : text'[u] = text[u] /\ pc'[u] = pc[u]
        /\ \/ /\ t = "shell" /\ text[t].kind = "welcome" /\ pc'[t] = "test"
              /\ text'[t].kind = "echo" /\ text'[t].left = 1
           \/ /\ pc'[t] = (IF t = "shell" THEN "check" ELSE "idle")
              /\ text'[t].kind = "none" /\ text'[t].left = 0
    BY <2>1, TextEnds
  <2>3. welcomed' \in BOOLEAN BY <1>1 DEF TerminalTypeOK
  <2>4. TerminalTypeOK'
    BY <1>1, <2>2, <2>3 DEF TerminalTypeOK, Threads, Transmitting, port, stream
  <2>5. WritesHavePort' BY <1>1, <2>2 DEF WritesHavePort, stream
  <2>6. PortFits' BY <1>1, <2>2 DEF PortFits, port, stream
  <2>7. WelcomeDue'
    BY <1>1, <2>1, <2>2 DEF WelcomeDue, Threads, Transmitting, stream
  <2> QED BY <2>4, <2>5, <2>6, <2>7
<1> QED BY <1>2, <1>3

LEMMA TerminalInitInv ==
  ASSUME TerminalInit
  PROVE  TerminalInv
<1> USE UsbTerminalAssumption DEF TerminalInit
<1>1. TerminalTypeOK
  <2>1. NoText \in [kind : Texts, left : 0 .. Chunks] /\ NoText.left = 0
    BY DEF NoText, Texts
  <2>2. text \in [Threads -> [kind : Texts, left : 0 .. Chunks]]
    BY <2>1
  <2>3. /\ pc["shell"] = "check" /\ pc["parser"] = "idle"
        /\ pc \in [Threads -> {"idle", "check", "wait", "call", "read", "process", "clear"}
                                \cup Transmitting]
    BY DEF Threads
  <2>4. {plugged, enabled, terminal, cdc, welcome, fresh, welcomed, kept, fault}
          \subseteq BOOLEAN
    OBVIOUS
  <2>5. \A t \in Threads : text[t].left = 0 /\ pc[t] \notin Transmitting
    BY <2>1, <2>3 DEF Threads, Transmitting
  <2> QED BY <2>2, <2>3, <2>4, <2>5 DEF TerminalTypeOK, Transmitting, Threads
<1>2. WelcomeDue BY DEF WelcomeDue, NoText, Threads
<1> QED BY <1>1, <1>2 DEF TerminalInv, WritesHavePort, PortFits, Threads

LEMMA TerminalNextInv ==
  ASSUME TerminalInv, [TerminalNext]_terminalVars
  PROVE  TerminalInv'
<1>1. CASE USBX_TerminalEnable \/ USBX_TerminalDisable
  BY <1>1, PlugInv, UnplugInv
<1>2. ASSUME NEW line \in {0, 1}, USBX_TerminalChange(line) PROVE TerminalInv'
  BY <1>2, ChangeInv
<1>3. CASE Reader \/ Key \/ Answer
  BY <1>3, ReaderInv, BeginTextInv DEF Reader
<1>4. ASSUME NEW t \in Threads, Transmit(t) \/ Write(t) \/ Sent(t) PROVE TerminalInv'
  BY <1>4, TransmitInv, WriteInv, SentInv DEF Transmit
<1>5. CASE UNCHANGED terminalVars
  <2>1. TerminalTypeOK'
    BY <1>5 DEF TerminalInv, TerminalTypeOK, terminalVars, port, stream, history
  <2> QED BY <1>5, <2>1 DEF TerminalInv, WritesHavePort, PortFits, WelcomeDue,
                            terminalVars, port, stream, history
<1> QED BY <1>1, <1>2, <1>3, <1>4, <1>5 DEF TerminalNext

\* However the cable and the terminal come and go between the steps of the two
\* threads, no packet is written through a port that was not tested, but for one
\* that was unplugged since, and the port, the stream and the threads agree.
THEOREM TerminalInvariant == TerminalSpec => []TerminalInv
<1>1. TerminalInit => TerminalInv
  BY TerminalInitInv
<1>2. TerminalInv /\ [TerminalNext]_terminalVars => TerminalInv'
  BY TerminalNextInv
<1> QED BY <1>1, <1>2, PTL DEF TerminalSpec

\* An open terminal is connected to the stream exactly if the session before it
\* did not end open, or DTR was low since: last_dtr_state outlives a session.
THEOREM TerminalConnected == TerminalSpec => []OpenIsConnected
<1>1. TerminalInv => OpenIsConnected
  BY DEF TerminalInv, PortFits, OpenIsConnected
<1> QED BY <1>1, TerminalInvariant, PTL

\* What is typed after a connect is echoed after the welcome of this connect.
THEOREM WelcomeFirst == TerminalSpec => WelcomeBeforeEcho
<1>1. TerminalInv /\ [TerminalNext]_terminalVars =>
        [ \A t \in Threads : Sent(t) /\ text[t].kind = "echo" /\ fresh => welcomed ]_terminalVars
  <2> SUFFICES ASSUME TerminalInv, NEW t \in Threads,
                      Sent(t), text[t].kind = "echo", fresh
               PROVE  welcomed
    OBVIOUS
  <2>1. t = "shell" BY DEF TerminalInv, WelcomeDue, Threads
  <2>2. pc[t] = "transfer" /\ cdc BY DEF Sent, TerminalInv, PortFits
  <2> QED BY <2>1, <2>2 DEF TerminalInv, WelcomeDue, Transmitting
<1> QED BY <1>1, TerminalInvariant, PTL DEF TerminalSpec, WelcomeBeforeEcho

-----------------------------------------------------------------------------
\* The streams and the parser (ShellParser).

\* The first occurrence of a character of a line is in the line, and none is
\* before it.
LEMMA FirstIsFirst ==
  ASSUME NEW S, NEW line \in Seq(S), NEW ch, Has(line, ch)
  PROVE  /\ First(line, ch) \in 1 .. Len(line)
         /\ line[First(line, ch)] = ch
         /\ \A j \in 1 .. First(line, ch) - 1 : line[j] # ch
<1> DEFINE at_ch == {i \in 1 .. Len(line) : line[i] = ch}
<1>1. DOMAIN line = 1 .. Len(line) /\ Len(line) \in Nat BY LenProperties
<1>2. at_ch \subseteq Nat /\ at_ch # {} BY <1>1 DEF Has
<1>3. PICK i \in at_ch : \A j \in at_ch : ~ (j < i)
  <2> DEFINE less == {p \in Nat \X Nat : p[1] < p[2]}
  <2>1. IsWellFoundedOn(less, Nat)
    BY NatLessThanWellFounded DEF OpToRel
  <2>2. \A i, j \in Nat : j < i => <<j, i>> \in less
    OBVIOUS
  <2> HIDE DEF less, at_ch
  <2>3. PICK i \in at_ch : \A j \in at_ch : ~ (<<j, i>> \in less)
    BY <1>2, <2>1, WFMin
  <2> QED BY <1>2, <2>2, <2>3
<1>5. i \in DOMAIN line /\ line[i] = ch /\ \A j \in 1 .. i - 1 : line[j] # ch
  BY <1>1, <1>3
<1> HIDE DEF at_ch
<1> QED BY <1>1, <1>5 DEF First

\* So a line splits there.
LEMMA SplitType ==
  ASSUME NEW S, NEW line \in Seq(S), NEW ch, Has(line, ch)
  PROVE  /\ SubSeq(line, 1, First(line, ch) - 1) \in Seq(S)
         /\ SubSeq(line, First(line, ch) + 1, Len(line)) \in Seq(S)
<1>1. PICK i \in 1 .. Len(line) : i = First(line, ch) BY FirstIsFirst
<1>2. Len(line) \in Nat /\ \A j \in 1 .. Len(line) : line[j] \in S
  BY LenProperties, ElementOfSeq
<1>3. SubSeq(line, 1, i - 1) \in Seq(S) BY <1>2, SubSeqProperties
<1>4. SubSeq(line, i + 1, Len(line)) \in Seq(S) BY <1>2, SubSeqProperties
<1> QED BY <1>1, <1>3, <1>4

\* What parser_task reads in a line of characters is made of characters.
LEMMA ParsedType ==
  ASSUME NEW line \in Seq(Characters)
  PROVE  Parsed(line) \in [isShell : BOOLEAN, name : Seq(Characters),
                           args : Seq(Characters)]
<1> DEFINE lower == ToLower(line)
<1>1. DOMAIN line = 1 .. Len(line) /\ Len(line) \in Nat
      /\ \A i \in 1 .. Len(line) : line[i] \in Characters
  BY LenProperties, ElementOfSeq
<1>2. \A i \in 1 .. Len(line) : lower[i] \in Characters
  <2> TAKE i \in 1 .. Len(line)
  <2>1. lower[i] = IF line[i] \in DOMAIN Lower THEN Lower[line[i]] ELSE line[i]
    BY <1>1 DEF ToLower
  <2>2. line[i] \in DOMAIN Lower => Lower[line[i]] \in Characters
    <3> DEFINE lowered == {Lower[ch] : ch \in DOMAIN Lower}
    <3>1. line[i] \in DOMAIN Lower => Lower[line[i]] \in lowered OBVIOUS
    <3>2. lowered \subseteq Characters BY DEF Characters
    <3> HIDE DEF lowered
    <3> QED BY <3>1, <3>2
  <2> QED BY <1>1, <2>1, <2>2
<1>3. lower \in [1 .. Len(line) -> Characters]
  BY <1>1, <1>2 DEF ToLower
<1>4. lower \in Seq(Characters) /\ Len(lower) = Len(line)
  BY <1>1, <1>3, SeqDef
<1> HIDE DEF lower
<1>5. Len(lower) \in Nat /\ \A i \in 1 .. Len(lower) : lower[i] \in Characters
  BY <1>4, LenProperties, ElementOfSeq
<1>6. Has(lower, " ") =>
        /\ SubSeq(lower, 1, First(lower, " ") - 1) \in Seq(Characters)
        /\ SubSeq(lower, First(lower, " ") + 1, Len(lower)) \in Seq(Characters)
  BY <1>4, SplitType, Zenon
<1>7. Name(lower) \in Seq(Characters) BY <1>4, <1>6, Zenon DEF Name
<1>8. Args(lower) \in Seq(Characters) BY <1>6, EmptySeq, Zenon DEF Args
<1>9. Parsed(line) = [isShell |-> ~ IsScpi(lower), name |-> Name(lower), args |-> Args(lower)]
  BY DEF Parsed, lower
<1>10. (~ IsScpi(lower)) \in BOOLEAN BY DEF IsScpi
<1> QED BY <1>7, <1>8, <1>9, <1>10


LEMMA KeepInv ==
  ASSUME ShellInv, NEW s \in Streams, NEW ch \in Alphabet[s], Keep(s, ch)
  PROVE  ShellInv'
<1> USE DEF ShellInv, Keep, parserVars
<1>1. line_buffer[s] \in Seq(Characters) /\ ch \in Characters
  BY DEF TypeOK, Characters, Printable
<1>2. Append(line_buffer[s], ch) \in Seq(Characters)
      /\ Len(Append(line_buffer[s], ch)) = Len(line_buffer[s]) + 1
  BY <1>1, AppendProperties
<1>3. Len(line_buffer[s]) \in Nat BY <1>1, LenProperties
<1>4. TypeOK' BY <1>2, <1>3, ShellParserAssumption DEF TypeOK
<1>5. OnePlace' BY DEF OnePlace, In, Filling, Queued
<1>6. Filled' BY DEF Filled, TypeOK
<1>7. Addressed' BY DEF Addressed, Queued
<1> QED BY <1>4, <1>5, <1>6, <1>7

LEMMA BackspaceInv ==
  ASSUME ShellInv, NEW s \in Streams, Backspace(s)
  PROVE  ShellInv'
<1> USE DEF ShellInv, Backspace, parserVars
<1>1. line_buffer[s] \in Seq(Characters) /\ line_buffer[s] # <<>>
  BY DEF TypeOK
<1>2. Len(line_buffer[s]) \in Nat \ {0} BY <1>1, EmptySeq
<1>3. \A i \in 1 .. Len(line_buffer[s]) : line_buffer[s][i] \in Characters
  BY <1>1, ElementOfSeq
<1> DEFINE front == SubSeq(line_buffer[s], 1, Len(line_buffer[s]) - 1)
<1>4. front \in Seq(Characters) /\ Len(front) <= Len(line_buffer[s])
  BY <1>2, <1>3, SubSeqProperties
<1>5. line_buffer' = [line_buffer EXCEPT ![s] = front] OBVIOUS
<1> HIDE DEF front
<1>6. TypeOK' BY <1>2, <1>4, <1>5, ShellParserAssumption DEF TypeOK
<1>7. OnePlace' BY DEF OnePlace, In, Filling, Queued
<1>8. Filled' BY <1>5 DEF Filled, TypeOK
<1>9. Addressed' BY DEF Addressed, Queued
<1> QED BY <1>6, <1>7, <1>8, <1>9

LEMMA EnterInv ==
  ASSUME ShellInv, NEW s \in Streams, Enter(s)
  PROVE  ShellInv'
<1> USE DEF ShellInv, parserVars
<1>1. CASE parser_pool = {} /\ line_buffer' = [line_buffer EXCEPT ![s] = <<>>]
           /\ UNCHANGED <<at, response, parser_pool, block>>
  <2> USE <1>1 DEF Enter
  <2>1. TypeOK' BY EmptySeq, ShellParserAssumption DEF TypeOK
  <2>2. OnePlace' BY DEF OnePlace, In, Filling, Queued
  <2>3. Filled' BY DEF Filled, TypeOK
  <2>4. Addressed' BY DEF Addressed, Queued
  <2> QED BY <2>1, <2>2, <2>3, <2>4
<1>2. CASE \E b \in parser_pool :
             /\ parser_pool' = parser_pool \ {b}
             /\ block' = [block EXCEPT ![b] = [reply_stream |-> s,
                                               command |-> line_buffer[s]]]
             /\ response' = [response EXCEPT ![s] = b]
             /\ at' = [at EXCEPT ![s] = "send"]
             /\ UNCHANGED line_buffer
  <2>1. PICK b \in parser_pool :
             /\ parser_pool' = parser_pool \ {b}
             /\ block' = [block EXCEPT ![b] = [reply_stream |-> s,
                                               command |-> line_buffer[s]]]
             /\ response' = [response EXCEPT ![s] = b]
             /\ at' = [at EXCEPT ![s] = "send"]
             /\ UNCHANGED line_buffer
    BY <1>2
  <2>2. at[s] = "process" /\ line_buffer[s] # <<>>
        /\ UNCHANGED <<parser_input, parser, cmd, call, ignored>>
    BY DEF Enter
  <2>3. b \in Blocks /\ b # NULL BY ShellParserAssumption DEF TypeOK
  <2>4. response[s] = NULL BY <2>2 DEF Filled
  <2>5. ~ Filling(b) /\ ~ Queued(b) /\ b # cmd /\ b \notin ignored
    BY <2>3 DEF OnePlace, In, Places
  <2>6. TypeOK'
    BY <2>1, <2>2, <2>3 DEF TypeOK
  <2>7. OnePlace'
    <3>1. \A c \in Blocks : Queued(c)' <=> Queued(c) BY <2>2 DEF Queued
    <3>2. \A c \in Blocks : Filling(c)' <=> Filling(c) \/ c = b
      BY <2>1, <2>4, <2>3, ShellParserAssumption DEF Filling, TypeOK
    <3>3. \A c \in Blocks : c \in parser_pool' <=> c \in parser_pool /\ c # b
      BY <2>1
    <3>4. \A t, u \in Streams : response'[t] = response'[u] /\ response'[t] # NULL => t = u
      BY <2>1, <2>4, <2>5 DEF OnePlace, Filling, TypeOK
    <3>5. \A c \in Blocks : \E place \in Places : In(c, place)'
      BY <2>2, <3>1, <3>2, <3>3 DEF OnePlace, In, Places
    <3>6. \A c \in Blocks : \A place, other \in Places :
            In(c, place)' /\ In(c, other)' => place = other
      BY <2>2, <2>5, <3>1, <3>2, <3>3 DEF OnePlace, In, Places
    <3> QED BY <2>2, <3>4, <3>5, <3>6 DEF OnePlace
  <2>8. Filled'
    BY <2>1, <2>2, <2>3, <2>5 DEF Filled, TypeOK, Filling
  <2>9. Addressed'
    BY <2>1, <2>2, <2>3, <2>5 DEF Addressed, Queued, TypeOK
  <2> QED BY <2>6, <2>7, <2>8, <2>9
<1> QED BY <1>1, <1>2 DEF Enter


\* A block more in the queue.
LEMMA QueuedOneMore ==
  ASSUME TypeOK, NEW b \in Blocks, parser_input' = Append(parser_input, b)
  PROVE  /\ parser_input' \in Seq(Blocks)
         /\ Len(parser_input') = Len(parser_input) + 1
         /\ \A c : Queued(c)' <=> Queued(c) \/ c = b
         /\ OnePlace /\ ~ Queued(b) =>
              \A i, j \in DOMAIN parser_input' :
                parser_input'[i] = parser_input'[j] => i = j
<1>1. parser_input \in Seq(Blocks) BY DEF TypeOK
<1>2. /\ parser_input' \in Seq(Blocks)
      /\ Len(parser_input') = Len(parser_input) + 1
      /\ Len(parser_input) \in Nat
      /\ DOMAIN parser_input = 1 .. Len(parser_input)
      /\ DOMAIN parser_input' = 1 .. Len(parser_input')
  BY <1>1, AppendProperties, LenProperties
<1>3. /\ \A i \in 1 .. Len(parser_input) : parser_input'[i] = parser_input[i]
      /\ parser_input'[Len(parser_input')] = b
  BY <1>1, <1>2, AppendProperties
<1>4. \A c : Queued(c)' <=> Queued(c) \/ c = b
  BY <1>2, <1>3 DEF Queued
<1>5. OnePlace /\ ~ Queued(b) =>
        \A i, j \in DOMAIN parser_input' :
          parser_input'[i] = parser_input'[j] => i = j
  BY <1>2, <1>3 DEF OnePlace, Queued
<1> QED BY <1>2, <1>4, <1>5

\* The first block leaves the queue.
LEMMA QueuedOneLess ==
  ASSUME TypeOK, OnePlace, parser_input # <<>>, parser_input' = Tail(parser_input)
  PROVE  /\ Head(parser_input) \in Blocks /\ Queued(Head(parser_input))
         /\ parser_input' \in Seq(Blocks)
         /\ Len(parser_input') = Len(parser_input) - 1
         /\ \A c : Queued(c)' <=> Queued(c) /\ c # Head(parser_input)
         /\ \A i, j \in DOMAIN parser_input' :
              parser_input'[i] = parser_input'[j] => i = j
<1>1. parser_input \in Seq(Blocks) BY DEF TypeOK
<1>2. /\ parser_input' \in Seq(Blocks)
      /\ Head(parser_input) \in Blocks
      /\ Len(parser_input') = Len(parser_input) - 1
      /\ \A i \in 1 .. Len(parser_input') : parser_input'[i] = parser_input[i + 1]
  BY <1>1, HeadTailProperties
<1>3. /\ Len(parser_input) \in Nat \ {0}
      /\ DOMAIN parser_input = 1 .. Len(parser_input)
      /\ DOMAIN parser_input' = 1 .. Len(parser_input')
  BY <1>1, <1>2, LenProperties, EmptySeq
<1>4. Head(parser_input) = parser_input[1] OBVIOUS
<1>5. \A i, j \in DOMAIN parser_input : parser_input[i] = parser_input[j] => i = j
  BY DEF OnePlace
<1>6. Queued(Head(parser_input)) BY <1>3, <1>4 DEF Queued
<1>7. \A c : Queued(c)' <=> Queued(c) /\ c # Head(parser_input)
  <2> TAKE c
  <2>1. ASSUME Queued(c)' PROVE Queued(c) /\ c # Head(parser_input)
    <3>1. PICK i \in 1 .. Len(parser_input') : parser_input'[i] = c
      BY <2>1, <1>3 DEF Queued
    <3>2. i + 1 \in DOMAIN parser_input /\ parser_input[i + 1] = c /\ i + 1 # 1 /\ 1 \in DOMAIN parser_input
      BY <3>1, <1>2, <1>3
    <3> QED BY <3>2, <1>4, <1>5 DEF Queued
  <2>2. ASSUME Queued(c), c # Head(parser_input) PROVE Queued(c)'
    <3>1. PICK i \in 1 .. Len(parser_input) : parser_input[i] = c
      BY <2>2, <1>3 DEF Queued
    <3>2. i - 1 \in 1 .. Len(parser_input') /\ (i - 1) + 1 = i
      BY <3>1, <2>2, <1>2, <1>3, <1>4
    <3> QED BY <3>1, <3>2, <1>2, <1>3 DEF Queued
  <2> QED BY <2>1, <2>2
<1>8. \A i, j \in DOMAIN parser_input' :
        parser_input'[i] = parser_input'[j] => i = j
  <2> TAKE i, j \in DOMAIN parser_input'
  <2>1. i + 1 \in DOMAIN parser_input /\ j + 1 \in DOMAIN parser_input /\ i \in Int /\ j \in Int
    BY <1>2, <1>3
  <2>2. parser_input'[i] = parser_input[i + 1] /\ parser_input'[j] = parser_input[j + 1]
    BY <1>2, <1>3
  <2> QED BY <2>1, <2>2, <1>5
<1> QED BY <1>2, <1>6, <1>7, <1>8

\* A stream that sends or releases has a block, which is nowhere else.
LEMMA StreamHolds ==
  ASSUME ShellInv, NEW s \in Streams, at[s] # "process"
  PROVE  /\ response[s] \in Blocks /\ response[s] # NULL
         /\ Filling(response[s])
         /\ ~ Queued(response[s]) /\ response[s] # cmd
         /\ response[s] \notin parser_pool /\ response[s] \notin ignored
         /\ \A t \in Streams : response[t] = response[s] => t = s
<1>1. response[s] \in Blocks /\ response[s] # NULL
  BY ShellParserAssumption DEF ShellInv, Filled, TypeOK
<1>2. Filling(response[s]) BY DEF Filling
<1> QED BY <1>1, <1>2 DEF ShellInv, OnePlace, In, Places

\* build_request returns.
LEMMA DoneHolds ==
  ASSUME ShellInv, NEW s \in Streams, at[s] # "process", Done(s)
  PROVE  /\ line_buffer' \in [Streams -> Seq(Characters)]
         /\ \A t \in Streams : Len(line_buffer'[t]) <= LineMax
         /\ at' \in [Streams -> {"process", "send", "release"}]
         /\ response' \in [Streams -> Blocks \cup {NULL}]
         /\ \A c \in Blocks : Filling(c)' <=> Filling(c) /\ c # response[s]
         /\ \A t, u \in Streams : response'[t] = response'[u] /\ response'[t] # NULL => t = u
         /\ \A t \in Streams \ {s} : line_buffer'[t] = line_buffer[t] /\ response'[t] = response[t]
                                     /\ at'[t] = at[t]
         /\ response'[s] = NULL /\ at'[s] = "process"
<1>1. line_buffer' \in [Streams -> Seq(Characters)]
      /\ \A t \in Streams : Len(line_buffer'[t]) <= LineMax
  BY EmptySeq, ShellParserAssumption DEF Done, ShellInv, TypeOK
<1>2. at' \in [Streams -> {"process", "send", "release"}]
      /\ response' \in [Streams -> Blocks \cup {NULL}]
  BY DEF Done, ShellInv, TypeOK
<1>3. /\ \A t \in Streams \ {s} : line_buffer'[t] = line_buffer[t] /\ response'[t] = response[t]
                                  /\ at'[t] = at[t]
      /\ response'[s] = NULL /\ at'[s] = "process"
  BY DEF Done, ShellInv, TypeOK
<1>4. \A c \in Blocks : Filling(c)' <=> Filling(c) /\ c # response[s]
  BY <1>3, StreamHolds, ShellParserAssumption DEF Filling
<1>5. \A t, u \in Streams : response'[t] = response'[u] /\ response'[t] # NULL => t = u
  BY <1>3 DEF ShellInv, OnePlace
<1> QED BY <1>1, <1>2, <1>3, <1>4, <1>5

LEMMA SendInv ==
  ASSUME ShellInv, NEW s \in Streams, Send(s)
  PROVE  ShellInv'
<1>0. at[s] # "process" /\ Done(s) /\ response[s] \in Blocks
      /\ UNCHANGED <<parser_pool, block, parser, cmd, call, ignored>>
      /\ parser_input' = Append(parser_input, response[s])
      /\ Len(parser_input) < QueueDepth
  BY StreamHolds DEF Send, parserVars
<1>1. /\ parser_input' \in Seq(Blocks)
      /\ Len(parser_input') = Len(parser_input) + 1
      /\ \A c : Queued(c)' <=> Queued(c) \/ c = response[s]
      /\ \A i, j \in DOMAIN parser_input' :
           parser_input'[i] = parser_input'[j] => i = j
  BY <1>0, StreamHolds, QueuedOneMore DEF ShellInv
<1>2. TypeOK'
  <2>1. Len(parser_input) \in Nat BY LenProperties DEF ShellInv, TypeOK
  <2> QED BY <1>0, <1>1, <2>1, DoneHolds, ShellParserAssumption DEF ShellInv, TypeOK
<1>3. OnePlace'
  <2>1. \A c \in Blocks : \E place \in Places : In(c, place)'
    BY <1>0, <1>1, DoneHolds DEF ShellInv, OnePlace, In, Places
  <2>2. \A c \in Blocks : \A place, other \in Places :
          In(c, place)' /\ In(c, other)' => place = other
    BY <1>0, <1>1, DoneHolds, StreamHolds DEF ShellInv, OnePlace, In, Places
  <2> QED BY <1>0, <1>1, <2>1, <2>2, DoneHolds DEF OnePlace
<1>4. Filled' BY <1>0, DoneHolds DEF Filled, ShellInv
<1>5. Addressed'
  <2>1. block[response[s]].reply_stream = s
    <3>1. block[response[s]] = [reply_stream |-> s, command |-> line_buffer[s]]
      BY <1>0, StreamHolds DEF ShellInv, Filled
    <3> QED BY <3>1
  <2> QED BY <1>0, <1>1, <2>1 DEF Addressed, ShellInv
<1> QED BY <1>2, <1>3, <1>4, <1>5 DEF ShellInv

LEMMA SendFailsInv ==
  ASSUME ShellInv, NEW s \in Streams, SendFails(s)
  PROVE  ShellInv'
<1> USE DEF ShellInv, SendFails, parserVars
<1>1. TypeOK' BY DEF TypeOK
<1>2. OnePlace' BY DEF OnePlace, In, Filling, Queued
<1>3. Filled' BY DEF Filled, TypeOK
<1>4. Addressed' BY DEF Addressed, Queued
<1> QED BY <1>1, <1>2, <1>3, <1>4

LEMMA GiveBackInv ==
  ASSUME ShellInv, NEW s \in Streams, GiveBack(s)
  PROVE  ShellInv'
<1>0. at[s] # "process" /\ Done(s) /\ response[s] \in Blocks
      /\ UNCHANGED <<parser_input, parser, cmd, call, ignored>>
      /\ parser_pool' = parser_pool \cup {response[s]}
      /\ block' = [block EXCEPT ![response[s]] = Blank]
  BY StreamHolds DEF GiveBack, parserVars
<1>1. /\ block' \in [Blocks -> [reply_stream : Streams \cup {NULL},
                                command : Seq(Characters)]]
      /\ \A c \in Blocks \ {response[s]} : block'[c] = block[c]
  BY <1>0, EmptySeq DEF Blank, ShellInv, TypeOK
<1>2. TypeOK'
  BY <1>0, <1>1, DoneHolds DEF ShellInv, TypeOK
<1>3. \A c : Queued(c)' <=> Queued(c) BY <1>0 DEF Queued
<1>4. OnePlace'
  <2>1. \A c \in Blocks : \E place \in Places : In(c, place)'
    BY <1>0, <1>3, DoneHolds DEF ShellInv, OnePlace, In, Places
  <2>2. \A c \in Blocks : \A place, other \in Places :
          In(c, place)' /\ In(c, other)' => place = other
    BY <1>0, <1>3, DoneHolds, StreamHolds DEF ShellInv, OnePlace, In, Places
  <2> QED BY <1>0, <2>1, <2>2, DoneHolds DEF OnePlace, ShellInv
<1>5. Filled'
  <2>1. response'[s] = NULL /\ at'[s] = "process" BY <1>0, DoneHolds
  <2>2. ASSUME NEW t \in Streams \ {s}
        PROVE  /\ response'[t] = NULL <=> at'[t] = "process"
               /\ response'[t] # NULL =>
                    /\ line_buffer'[t] # <<>>
                    /\ block'[response'[t]] = [reply_stream |-> t,
                                              command |-> line_buffer'[t]]
    <3>1. line_buffer'[t] = line_buffer[t] /\ response'[t] = response[t] /\ at'[t] = at[t]
      BY <1>0, DoneHolds
    <3>2. response[t] # NULL => response[t] \in Blocks \ {response[s]}
      BY <1>0, StreamHolds DEF ShellInv, TypeOK
    <3>3. response[t] # NULL => block'[response[t]] = block[response[t]]
      BY <1>1, <3>2
    <3> QED BY <3>1, <3>3 DEF Filled, ShellInv
  <2> QED BY <2>1, <2>2 DEF Filled
<1>6. Addressed'
  BY <1>0, <1>1, <1>3, StreamHolds DEF Addressed, ShellInv
<1> QED BY <1>2, <1>4, <1>5, <1>6 DEF ShellInv


\* What parser_task holds is nowhere else.
LEMMA ParserHolds ==
  ASSUME ShellInv, parser # "receive"
  PROVE  /\ cmd \in Blocks /\ cmd # NULL
         /\ ~ Queued(cmd) /\ ~ Filling(cmd)
         /\ cmd \notin parser_pool /\ cmd \notin ignored
         /\ block[cmd].reply_stream \in Streams
<1>1. cmd \in Blocks /\ cmd # NULL
  BY ShellParserAssumption DEF ShellInv, Addressed, TypeOK
<1> QED BY <1>1 DEF ShellInv, OnePlace, In, Places, Addressed

LEMMA ReceiveInv ==
  ASSUME ShellInv, Receive
  PROVE  ShellInv'
<1> DEFINE b == Head(parser_input)
<1>0. /\ parser = "receive" /\ cmd' = b /\ parser' = "parsed"
      /\ parser_input # <<>> /\ parser_input' = Tail(parser_input)
      /\ call' = Parsed(block[b].command)
      /\ block' = [block EXCEPT ![b].command = call'.name]
      /\ UNCHANGED <<line_buffer, at, response, parser_pool, ignored>>
  BY DEF Receive, streamVars
<1>1. /\ b \in Blocks /\ Queued(b)
      /\ parser_input' \in Seq(Blocks)
      /\ Len(parser_input') = Len(parser_input) - 1
      /\ \A c : Queued(c)' <=> Queued(c) /\ c # b
      /\ \A i, j \in DOMAIN parser_input' :
           parser_input'[i] = parser_input'[j] => i = j
  BY <1>0, QueuedOneLess DEF ShellInv
<1> HIDE DEF b
<1>2. cmd = NULL /\ b # NULL
  BY <1>0, <1>1, ShellParserAssumption DEF ShellInv, Addressed
<1>3. ~ Filling(b) /\ b \notin parser_pool /\ b \notin ignored
  BY <1>1 DEF ShellInv, OnePlace, In, Places
<1>4. block[b] \in [reply_stream : Streams \cup {NULL}, command : Seq(Characters)]
  BY <1>1 DEF ShellInv, TypeOK
<1>5. call' \in [isShell : BOOLEAN, name : Seq(Characters), args : Seq(Characters)]
  BY <1>0, <1>4, ParsedType
<1>6. /\ block' \in [Blocks -> [reply_stream : Streams \cup {NULL},
                                command : Seq(Characters)]]
      /\ block'[b].reply_stream = block[b].reply_stream
      /\ \A c \in Blocks \ {b} : block'[c] = block[c]
  <2>1. block' = [block EXCEPT ![b] = [block[b] EXCEPT !.command = call'.name]]
    BY <1>0, <1>1 DEF ShellInv, TypeOK
  <2>2. [block[b] EXCEPT !.command = call'.name]
          \in [reply_stream : Streams \cup {NULL}, command : Seq(Characters)]
    BY <1>4, <1>5
  <2>3. [block[b] EXCEPT !.command = call'.name].reply_stream = block[b].reply_stream
    BY <1>4
  <2> QED BY <1>1, <2>1, <2>2, <2>3 DEF ShellInv, TypeOK
<1>7. TypeOK'
  <2>1. Len(parser_input) \in Nat BY LenProperties DEF ShellInv, TypeOK
  <2> QED BY <1>0, <1>1, <1>5, <1>6, <2>1, ShellParserAssumption DEF ShellInv, TypeOK
<1>8. OnePlace'
  <2>0. \A c \in Blocks : Filling(c)' <=> Filling(c) BY <1>0 DEF Filling
  <2>1. \A c \in Blocks : \E place \in Places : In(c, place)'
    BY <1>0, <1>1, <1>2, <2>0, ShellParserAssumption DEF ShellInv, OnePlace, In, Places
  <2>2. \A c \in Blocks : \A place, other \in Places :
          In(c, place)' /\ In(c, other)' => place = other
    BY <1>0, <1>1, <1>2, <1>3, <2>0 DEF ShellInv, OnePlace, In, Places
  <2> QED BY <1>0, <1>1, <2>1, <2>2 DEF OnePlace, ShellInv
<1>9. Filled'
  <2> SUFFICES ASSUME NEW t \in Streams
               PROVE  /\ response[t] = NULL <=> at[t] = "process"
                      /\ response[t] # NULL =>
                           /\ line_buffer[t] # <<>>
                           /\ block'[response[t]] = [reply_stream |-> t,
                                                     command |-> line_buffer[t]]
    BY <1>0 DEF Filled
  <2>1. response[t] # NULL => response[t] \in Blocks \ {b}
    BY <1>3 DEF ShellInv, TypeOK, Filling
  <2>2. response[t] # NULL => block'[response[t]] = block[response[t]]
    BY <1>6, <2>1
  <2> QED BY <2>2 DEF ShellInv, Filled
<1>10. Addressed'
  BY <1>0, <1>1, <1>2, <1>6 DEF Addressed, ShellInv
<1> QED BY <1>7, <1>8, <1>9, <1>10 DEF ShellInv

LEMMA NoCallType ==
  NoCall \in [isShell : BOOLEAN, name : Seq(Characters), args : Seq(Characters)]
BY EmptySeq DEF NoCall

LEMMA IgnoreInv ==
  ASSUME ShellInv, Ignore
  PROVE  ShellInv'
<1>0. /\ parser = "parsed" /\ parser' = "receive" /\ cmd' = NULL /\ call' = NoCall
      /\ ignored' = ignored \cup {cmd}
      /\ UNCHANGED <<line_buffer, at, response, parser_pool, parser_input, block>>
  BY DEF Ignore, streamVars
<1>1. TypeOK' BY <1>0, ParserHolds, NoCallType DEF ShellInv, TypeOK
<1>2. \A c \in Blocks : (Filling(c)' <=> Filling(c)) /\ (Queued(c)' <=> Queued(c))
  BY <1>0 DEF Filling, Queued
<1>3. OnePlace'
  <2>1. \A c \in Blocks : \E place \in Places : In(c, place)'
    BY <1>0, <1>2 DEF ShellInv, OnePlace, In, Places
  <2>2. \A c \in Blocks : \A place, other \in Places :
          In(c, place)' /\ In(c, other)' => place = other
    BY <1>0, <1>2, ParserHolds, ShellParserAssumption DEF ShellInv, OnePlace, In, Places
  <2> QED BY <1>0, <2>1, <2>2 DEF OnePlace, ShellInv
<1>4. Filled' BY <1>0 DEF Filled, ShellInv
<1>5. Addressed' BY <1>0, <1>2, ShellParserAssumption DEF Addressed, ShellInv
<1> QED BY <1>1, <1>3, <1>4, <1>5 DEF ShellInv

LEMMA ExecuteInv ==
  ASSUME ShellInv, Execute
  PROVE  ShellInv'
<1> USE DEF ShellInv, Execute, streamVars
<1>1. TypeOK' BY DEF TypeOK
<1>2. OnePlace' BY DEF OnePlace, In, Filling, Queued
<1>3. Filled' BY DEF Filled
<1>4. Addressed' BY DEF Addressed, Queued
<1> QED BY <1>1, <1>2, <1>3, <1>4

LEMMA ReleaseInv ==
  ASSUME ShellInv, Release
  PROVE  ShellInv'
<1>0. /\ parser = "executed" /\ parser' = "receive" /\ cmd' = NULL /\ call' = NoCall
      /\ parser_pool' = parser_pool \cup {cmd}
      /\ block' = [block EXCEPT ![cmd] = Blank]
      /\ UNCHANGED <<line_buffer, at, response, parser_input, ignored>>
  BY DEF Release, streamVars
<1>1. /\ block' \in [Blocks -> [reply_stream : Streams \cup {NULL},
                                command : Seq(Characters)]]
      /\ \A c \in Blocks \ {cmd} : block'[c] = block[c]
  BY <1>0, ParserHolds, EmptySeq DEF Blank, ShellInv, TypeOK
<1>2. TypeOK' BY <1>0, <1>1, ParserHolds, NoCallType DEF ShellInv, TypeOK
<1>3. \A c \in Blocks : (Filling(c)' <=> Filling(c)) /\ (Queued(c)' <=> Queued(c))
  BY <1>0 DEF Filling, Queued
<1>4. OnePlace'
  <2>1. \A c \in Blocks : \E place \in Places : In(c, place)'
    BY <1>0, <1>3 DEF ShellInv, OnePlace, In, Places
  <2>2. \A c \in Blocks : \A place, other \in Places :
          In(c, place)' /\ In(c, other)' => place = other
    BY <1>0, <1>3, ParserHolds, ShellParserAssumption DEF ShellInv, OnePlace, In, Places
  <2> QED BY <1>0, <2>1, <2>2 DEF OnePlace, ShellInv
<1>5. Filled'
  <2> SUFFICES ASSUME NEW t \in Streams
               PROVE  /\ response[t] = NULL <=> at[t] = "process"
                      /\ response[t] # NULL =>
                           /\ line_buffer[t] # <<>>
                           /\ block'[response[t]] = [reply_stream |-> t,
                                                     command |-> line_buffer[t]]
    BY <1>0 DEF Filled
  <2>1. response[t] # NULL => response[t] \in Blocks \ {cmd}
    BY <1>0, ParserHolds DEF ShellInv, TypeOK, Filling
  <2>2. response[t] # NULL => block'[response[t]] = block[response[t]]
    BY <1>1, <2>1
  <2> QED BY <2>2 DEF ShellInv, Filled
<1>6. Addressed'
  BY <1>0, <1>1, <1>3, ParserHolds, ShellParserAssumption DEF Addressed, ShellInv
<1> QED BY <1>2, <1>4, <1>5, <1>6 DEF ShellInv

LEMMA ShellInitInv == Init => ShellInv
<1> SUFFICES ASSUME Init PROVE ShellInv OBVIOUS
<1> USE ShellParserAssumption DEF Init
<1>1. <<>> \in Seq(Characters) /\ Len(<<>>) = 0
      /\ parser_input \in Seq(Blocks) /\ Len(parser_input) = 0
      /\ DOMAIN parser_input = {}
  BY EmptySeq
<1>2. Blank \in [reply_stream : Streams \cup {NULL}, command : Seq(Characters)]
  BY <1>1 DEF Blank
<1>3. TypeOK BY <1>1, <1>2, NoCallType DEF TypeOK
<1>4. OnePlace BY <1>1 DEF OnePlace, In, Places, Filling, Queued
<1>5. Filled BY DEF Filled
<1>6. Addressed BY <1>1 DEF Addressed, Queued
<1> QED BY <1>3, <1>4, <1>5, <1>6 DEF ShellInv

LEMMA ShellNextInv == ShellInv /\ [Next]_vars => ShellInv'
<1> SUFFICES ASSUME ShellInv, [Next]_vars PROVE ShellInv' OBVIOUS
<1>1. CASE UNCHANGED vars
  <2> USE <1>1 DEF ShellInv, vars, streamVars, parserVars
  <2>1. TypeOK' BY DEF TypeOK
  <2>2. OnePlace' BY DEF OnePlace, In, Filling, Queued
  <2>3. Filled' BY DEF Filled
  <2>4. Addressed' BY DEF Addressed, Queued
  <2> QED BY <2>1, <2>2, <2>3, <2>4
<1>2. ASSUME NEW s \in Streams,
             \/ \E ch \in Alphabet[s] : Keep(s, ch)
             \/ Backspace(s) \/ Enter(s)
             \/ Send(s) \/ SendFails(s) \/ GiveBack(s)
      PROVE  ShellInv'
  BY <1>2, KeepInv, BackspaceInv, EnterInv, SendInv, SendFailsInv, GiveBackInv
<1>3. CASE parser_task
  BY <1>3, ReceiveInv, IgnoreInv, ExecuteInv, ReleaseInv DEF parser_task
<1> QED BY <1>1, <1>2, <1>3 DEF Next

\* A block of parser_pool is in one place at a time, whatever the streams type:
\* a line is neither overwritten before its command ran nor run twice, only an
\* unknown command loses a block (build_request, parser_task), and a block that
\* is queued names the stream to answer to.
THEOREM BlocksInPlace == Spec => []ShellInv
<1>1. Init => ShellInv BY ShellInitInv
<1>2. ShellInv /\ [Next]_vars => ShellInv' BY ShellNextInv
<1> QED BY <1>1, <1>2, PTL DEF Spec


-----------------------------------------------------------------------------
Calls == [isShell : BOOLEAN, name : Seq(Characters), args : Seq(Characters)]
RequestType == [stream : Streams \cup {NULL}, call : Calls]

\* A function on 1 .. n is a sequence of length n.
LEMMA IsSequence ==
  ASSUME NEW S, NEW n \in Nat, NEW f \in [1 .. n -> S]
  PROVE  f \in Seq(S) /\ Len(f) = n
BY SeqDef

LEMMA RequestTypes ==
  ASSUME TypeOK
  PROVE  /\ \A b \in Blocks : Request(b) \in RequestType
         /\ Waiting \in Seq(RequestType)
         /\ Len(Waiting) = Len(parser_input)
         /\ DOMAIN Waiting = 1 .. Len(parser_input)
         /\ DOMAIN parser_input = 1 .. Len(parser_input)
         /\ \A i \in 1 .. Len(parser_input) : Waiting[i] = Request(parser_input[i])
<1>1. ASSUME NEW b \in Blocks PROVE Request(b) \in RequestType
  <2>1. block[b].reply_stream \in Streams \cup {NULL} /\ block[b].command \in Seq(Characters)
    BY DEF TypeOK
  <2>2. Parsed(block[b].command) \in Calls BY <2>1, ParsedType DEF Calls
  <2> QED BY <2>1, <2>2 DEF Request, RequestType
<1>2. /\ Len(parser_input) \in Nat /\ DOMAIN parser_input = 1 .. Len(parser_input)
      /\ \A i \in 1 .. Len(parser_input) : parser_input[i] \in Blocks
  BY LenProperties, ElementOfSeq DEF TypeOK
<1>3. Waiting \in [1 .. Len(parser_input) -> RequestType]
  BY <1>1, <1>2 DEF Waiting
<1>4. Waiting \in Seq(RequestType) /\ Len(Waiting) = Len(parser_input)
  BY <1>2, <1>3, IsSequence
<1> QED BY <1>1, <1>2, <1>3, <1>4 DEF Waiting

LEMMA SameWaiting ==
  ASSUME TypeOK, UNCHANGED parser_input,
         \A c \in Blocks : Queued(c) => block'[c] = block[c]
  PROVE  Waiting' = Waiting
<1>1. \A i \in DOMAIN parser_input : parser_input[i] \in Blocks
  BY LenProperties, ElementOfSeq DEF TypeOK
<1>2. \A i \in DOMAIN parser_input : Request(parser_input[i])' = Request(parser_input[i])
  BY <1>1 DEF Queued, Request
<1> QED BY <1>2 DEF Waiting

LEMMA SameRunning ==
  ASSUME UNCHANGED <<cmd, call>>, cmd # NULL => block'[cmd] = block[cmd]
  PROVE  Running' = Running
BY DEF Running

LEMMA EditStep ==
  ASSUME ShellInv, NEW s \in Streams,
         \/ \E ch \in Alphabet[s] : Keep(s, ch)
         \/ Backspace(s) \/ Enter(s) \/ SendFails(s) \/ GiveBack(s)
  PROVE  Service!Edit(s)
<1>1. line_buffer' = [line_buffer EXCEPT ![s] = line_buffer'[s]]
  BY DEF ShellInv, TypeOK, Keep, Backspace, Enter, SendFails, GiveBack, Done
<1>2. UNCHANGED <<parser_input, cmd, call>>
  BY DEF Keep, Backspace, Enter, SendFails, GiveBack, parserVars
<1>3. \A c \in Blocks : Queued(c) \/ c = cmd => block'[c] = block[c]
  <2>1. CASE \/ \E ch \in Alphabet[s] : Keep(s, ch)
             \/ Backspace(s) \/ SendFails(s)
    BY <2>1 DEF Keep, Backspace, SendFails
  <2>2. CASE GiveBack(s)
    <3>1. at[s] # "process" /\ block' = [block EXCEPT ![response[s]] = Blank]
      BY <2>2 DEF GiveBack
    <3> QED BY <3>1, StreamHolds DEF ShellInv, TypeOK
  <2>3. CASE Enter(s)
    <3>1. UNCHANGED block \/ \E b \in parser_pool : \A c \in Blocks \ {b} : block'[c] = block[c]
      BY <2>3 DEF Enter, ShellInv, TypeOK
    <3>2. \A b \in parser_pool : b \in Blocks /\ ~ Queued(b) /\ b # cmd
      BY DEF ShellInv, TypeOK, OnePlace, In, Places
    <3> QED BY <3>1, <3>2
  <2> QED BY <2>1, <2>2, <2>3
<1>4. UNCHANGED <<Waiting, Running>>
  BY <1>2, <1>3, SameWaiting, SameRunning DEF ShellInv, TypeOK
<1> QED BY <1>1, <1>4 DEF Service!Edit

LEMMA SubmitStep ==
  ASSUME ShellInv, NEW s \in Streams, Send(s)
  PROVE  Service!Submit(s)
<1>1. /\ at[s] = "send"
      /\ Len(parser_input) < QueueDepth
      /\ parser_input' = Append(parser_input, response[s])
      /\ UNCHANGED <<block, cmd, call>>
      /\ line_buffer' = [line_buffer EXCEPT ![s] = <<>>]
  BY DEF Send, Done, parserVars
<1>2. /\ response[s] \in Blocks /\ line_buffer[s] # <<>>
      /\ block[response[s]] = [reply_stream |-> s, command |-> line_buffer[s]]
  BY <1>1, StreamHolds DEF ShellInv, Filled
<1>3. Request(response[s]) = [stream |-> s, call |-> Parsed(line_buffer[s])]
  BY <1>2 DEF Request
<1> DEFINE r == Request(response[s])
<1>4. r \in RequestType /\ Waiting \in Seq(RequestType)
      /\ Len(Waiting) = Len(parser_input) /\ Len(parser_input) \in Nat
      /\ \A i \in 1 .. Len(parser_input) : Waiting[i] = Request(parser_input[i])
  BY <1>2, RequestTypes, LenProperties DEF ShellInv, TypeOK
<1>5. /\ parser_input' \in Seq(Blocks) /\ Len(parser_input') = Len(parser_input) + 1
      /\ DOMAIN parser_input' = 1 .. Len(parser_input')
      /\ \A i \in 1 .. Len(parser_input) : parser_input'[i] = parser_input[i]
      /\ parser_input'[Len(parser_input) + 1] = response[s]
  BY <1>1, <1>2, AppendProperties, LenProperties DEF ShellInv, TypeOK
<1>6. Waiting' = [i \in DOMAIN parser_input' |-> Request(parser_input'[i])]
  BY <1>1 DEF Waiting, Request
<1>7. /\ Append(Waiting, r) \in Seq(RequestType)
      /\ Len(Append(Waiting, r)) = Len(parser_input) + 1
      /\ \A i \in 1 .. Len(parser_input) : Append(Waiting, r)[i] = Request(parser_input[i])
      /\ Append(Waiting, r)[Len(parser_input) + 1] = r
  <2> HIDE DEF r
  <2> QED BY <1>4, AppendProperties
<1>8. /\ Append(Waiting, r) = [i \in 1 .. Len(parser_input) + 1 |-> Append(Waiting, r)[i]]
  <2> HIDE DEF r
  <2> QED BY <1>7, LenProperties
<1>9. \A i \in 1 .. Len(parser_input) + 1 :
        Append(Waiting, r)[i] = Request(parser_input'[i])
  BY <1>4, <1>5, <1>7
<1>10. Waiting' = Append(Waiting, r) BY <1>5, <1>6, <1>8, <1>9
<1>11. UNCHANGED Running BY <1>1, SameRunning
<1> QED BY <1>1, <1>2, <1>3, <1>4, <1>10, <1>11 DEF Service!Submit

LEMMA ServeStep ==
  ASSUME ShellInv, Receive
  PROVE  Service!Serve
<1> DEFINE b == Head(parser_input)
<1>0. /\ parser = "receive" /\ cmd' = b /\ UNCHANGED line_buffer
      /\ parser_input # <<>> /\ parser_input' = Tail(parser_input)
      /\ call' = Parsed(block[b].command)
      /\ block' = [block EXCEPT ![b].command = call'.name]
  BY DEF Receive, streamVars
<1>1. /\ b \in Blocks /\ b # NULL /\ cmd = NULL
      /\ \A c : Queued(c)' <=> Queued(c) /\ c # b
  BY <1>0, QueuedOneLess, ShellParserAssumption DEF ShellInv, Addressed
<1>2. /\ Waiting \in Seq(RequestType)
      /\ Len(Waiting) = Len(parser_input) /\ Len(parser_input) \in Nat
      /\ DOMAIN parser_input = 1 .. Len(parser_input)
      /\ \A i \in 1 .. Len(parser_input) : Waiting[i] = Request(parser_input[i])
  BY RequestTypes, LenProperties DEF ShellInv, TypeOK
<1>3. /\ parser_input' \in Seq(Blocks)
      /\ Len(parser_input') = Len(parser_input) - 1
      /\ DOMAIN parser_input' = 1 .. Len(parser_input')
      /\ \A i \in 1 .. Len(parser_input') : parser_input'[i] = parser_input[i + 1]
      /\ Len(parser_input) \in Nat \ {0}
      /\ parser_input[1] = b
  BY <1>0, HeadTailProperties, LenProperties, EmptySeq DEF ShellInv, TypeOK
<1>4. Waiting # <<>> /\ Head(Waiting) = Request(b)
  BY <1>2, <1>3, EmptySeq
<1>5. /\ Tail(Waiting) \in Seq(RequestType)
      /\ Len(Tail(Waiting)) = Len(parser_input) - 1
      /\ \A i \in 1 .. Len(parser_input) - 1 : Tail(Waiting)[i] = Request(parser_input[i + 1])
  BY <1>2, <1>4, HeadTailProperties
<1> HIDE DEF b
<1>6. \A i \in DOMAIN parser_input' : Request(parser_input[i])' = Request(parser_input[i + 1])
  <2> TAKE i \in DOMAIN parser_input'
  <2>1. parser_input'[i] = parser_input[i + 1] BY <1>3
  <2>2. parser_input'[i] \in Blocks BY <1>3, ElementOfSeq
  <2>3. parser_input'[i] # b BY <1>1 DEF Queued
  <2>4. block'[parser_input'[i]] = block[parser_input'[i]]
    BY <1>0, <2>2, <2>3 DEF ShellInv, TypeOK
  <2> QED BY <2>1, <2>4 DEF Request
<1>7. Waiting' = Tail(Waiting)
  <2>1. Waiting' = [i \in 1 .. Len(parser_input) - 1 |-> Request(parser_input[i + 1])]
    BY <1>3, <1>6 DEF Waiting
  <2>2. Tail(Waiting) = [i \in 1 .. Len(parser_input) - 1 |-> Tail(Waiting)[i]]
    BY <1>5, LenProperties
  <2> QED BY <1>5, <2>1, <2>2
<1>8. block'[b].reply_stream = block[b].reply_stream
  BY <1>0, <1>1 DEF ShellInv, TypeOK
<1>9. Running = {} /\ Running' = {Request(b)}
  BY <1>0, <1>1, <1>8 DEF Running, Request
<1> QED BY <1>0, <1>4, <1>7, <1>9 DEF Service!Serve

LEMMA FinishStep ==
  ASSUME ShellInv, Ignore \/ Release
  PROVE  Service!Finish
<1>1. /\ parser # "receive" /\ cmd' = NULL /\ UNCHANGED <<line_buffer, parser_input>>
      /\ block' = block \/ block' = [block EXCEPT ![cmd] = Blank]
  BY DEF Ignore, Release, streamVars
<1>2. Waiting' = Waiting
  BY <1>1, ParserHolds, SameWaiting DEF ShellInv, TypeOK
<1>3. Running # {} /\ Running' = {} BY <1>1, ParserHolds DEF Running
<1> QED BY <1>1, <1>2, <1>3 DEF Service!Finish

LEMMA ServiceStep ==
  ASSUME ShellInv, [Next]_vars
  PROVE  [Service!Next]_(Service!vars)
<1>1. CASE UNCHANGED vars \/ Execute
  BY <1>1 DEF vars, streamVars, parserVars, Execute, Service!vars, Waiting, Request, Running
<1>2. ASSUME NEW s \in Streams,
             \/ \E ch \in Alphabet[s] : Keep(s, ch)
             \/ Backspace(s) \/ Enter(s)
             \/ Send(s) \/ SendFails(s) \/ GiveBack(s)
      PROVE  Service!Next
  BY <1>2, EditStep, SubmitStep DEF Service!Next
<1>3. CASE Receive \/ Ignore \/ Release
  BY <1>3, ServeStep, FinishStep DEF Service!Next
<1> QED BY <1>1, <1>2, <1>3 DEF Next, parser_task

\* However many streams type at the same time, the commands run in the order
\* they were sent, each once, as it was typed and with the stream that typed it:
\* every step of ShellParser is a step of Requests or leaves it alone.
THEOREM ShellServesRequests == Spec => ImplementsRequests
<1>1. Init => Service!Init
  BY DEF Init, Service!Init, Waiting, Running
<1>2. ShellInv /\ [Next]_vars => [Service!Next]_(Service!vars)
  BY ServiceStep
<1> QED BY <1>1, <1>2, BlocksInPlace, PTL DEF Spec, ImplementsRequests, Service!Spec
=============================================================================
