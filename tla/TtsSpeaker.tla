----------------------------- MODULE TtsSpeaker -----------------------------
(***************************************************************************)
(* The speaker node (tts_speaker_node.py): one thread handles the commands *)
(* of /speaker and a 0.1 s timer that repeats the alarm.  test_voice waits *)
(* inside the callback until the mixer is silent; meanwhile commands queue *)
(* up, the oldest lost when there are more than five.                      *)
(***************************************************************************)
EXTENDS Naturals, Sequences

CONSTANT SpeakerDepth  \* depth of the subscription, 5 in the code

ASSUME SpeakerAssumption == SpeakerDepth \in Nat \ {0}

VARIABLES
    voiceFile,       \* the voice file is there and can be loaded
    speakerQueue,    \* commands not yet handled
    newest,          \* the command that was published last
    alarmRequested,
    sound,           \* "silent", "once" (the alarm or the voice) or "loop"
    speaking         \* the callback of test_voice waits for silence

speakerVars == <<voiceFile, speakerQueue, newest, alarmRequested, sound, speaking>>

SpeakerCommands == {"test_effect", "test_voice", "alarm_on", "alarm_off"}

\* Mutant: a subscription that keeps every message.
CommandKept(cmd) ==
    /\ speakerQueue' = Append(speakerQueue, cmd)
    /\ newest' = cmd
    /\ UNCHANGED <<voiceFile, alarmRequested, sound, speaking>>

Command(cmd) ==
    /\ speakerQueue' = IF Len(speakerQueue) < SpeakerDepth
                       THEN Append(speakerQueue, cmd)
                       ELSE Append(Tail(speakerQueue), cmd)
    /\ newest' = cmd
    /\ UNCHANGED <<voiceFile, alarmRequested, sound, speaking>>

\* The next command of the queue is cmd, and the thread is free to handle it.
Handle(cmd) ==
    /\ ~speaking
    /\ speakerQueue # <<>>
    /\ Head(speakerQueue) = cmd
    /\ speakerQueue' = Tail(speakerQueue)
    /\ UNCHANGED <<voiceFile, newest>>

TestEffect ==
    /\ Handle("test_effect")
    /\ sound' = "loop"
    /\ UNCHANGED <<alarmRequested, speaking>>

\* A voice that cannot be played leaves on what is playing, and the wait begins.
TestVoice ==
    /\ Handle("test_voice")
    /\ sound' = IF voiceFile THEN "once" ELSE sound
    /\ speaking' = (sound' # "silent")
    /\ UNCHANGED alarmRequested

VoiceOver ==
    /\ speaking
    /\ sound = "silent"
    /\ speaking' = FALSE
    /\ UNCHANGED <<voiceFile, speakerQueue, newest, alarmRequested, sound>>

AlarmOn ==
    /\ Handle("alarm_on")
    /\ alarmRequested' = TRUE
    /\ sound' = IF sound = "silent" THEN "once" ELSE sound
    /\ UNCHANGED speaking

\* Mutant: alarm_off ends the repetition and leaves on what is playing.
AlarmFades ==
    /\ Handle("alarm_off")
    /\ alarmRequested' = FALSE
    /\ UNCHANGED <<sound, speaking>>

AlarmOff ==
    /\ Handle("alarm_off")
    /\ alarmRequested' = FALSE
    /\ sound' = "silent"
    /\ UNCHANGED speaking

\* _monitor_alarm_loop, unless the thread is inside test_voice.
MonitorAlarm ==
    /\ ~speaking
    /\ alarmRequested
    /\ sound = "silent"
    /\ sound' = "once"
    /\ UNCHANGED <<voiceFile, speakerQueue, newest, alarmRequested, speaking>>

SoundEnds ==
    /\ sound = "once"
    /\ sound' = "silent"
    /\ UNCHANGED <<voiceFile, speakerQueue, newest, alarmRequested, speaking>>

-----------------------------------------------------------------------------
SpeakerInit ==
    /\ voiceFile \in BOOLEAN
    /\ speakerQueue = <<>> /\ newest = "none"
    /\ alarmRequested = FALSE /\ sound = "silent" /\ speaking = FALSE

Executor == TestEffect \/ TestVoice \/ VoiceOver \/ AlarmOn \/ AlarmOff

SpeakerNext ==
    \/ \E cmd \in SpeakerCommands : Command(cmd)
    \/ Executor \/ MonitorAlarm \/ SoundEnds

-----------------------------------------------------------------------------
(* Properties *)

SpeakerTypeOK ==
    /\ {voiceFile, alarmRequested, speaking} \subseteq BOOLEAN
    /\ speakerQueue \in Seq(SpeakerCommands) /\ Len(speakerQueue) <= SpeakerDepth
    /\ newest \in SpeakerCommands \cup {"none"}
    /\ sound \in {"silent", "once", "loop"}

\* The alarm obeys the last word, over an endless test effect, a queue that
\* overflows and a voice that blocks the thread, if the voice can be played
\* (otherwise the wait of test_voice over an endless effect never ends,
\* tts_speaker_node.py:93): alarm_off ends in silence for good, and after alarm_on
\* the alarm sounds again and again.
AlarmObeysLastWord ==
    /\ <>[](newest = "alarm_off" /\ voiceFile) => <>[](sound = "silent" /\ ~alarmRequested)
    /\ <>[](newest = "alarm_on" /\ voiceFile) => []<>(sound # "silent")
=============================================================================
