-------------------------------- MODULE MCLabs --------------------------------
(* The image programs, or the dictionary and the library, run once: the    *)
(* programs of the other ones are not started then.                        *)
EXTENDS MCImageTools, MCDictionary

DictionaryOver ==
  /\ text = <<>> /\ at = 0
  /\ buffer = [k \in Memory |-> IF k < BUFFER_SIZE THEN NUL ELSE FOREIGN]
  /\ length = 0 /\ words = 0 /\ number = 0 /\ printed = <<>> /\ r9 = 0
  /\ lib_pc = "ended" /\ entry = 0 /\ answer = <<>>

LabsInit == \/ ToolsInit /\ DictionaryOver
            \/ ProgramInit /\ RotationIdle /\ FilterIdle

LabsNext == \/ ToolsNext /\ UNCHANGED dictionary
            \/ ProgramNext /\ UNCHANGED <<vars, filter_vars>>

(* The image programs need no fairness for what is asked of them.          *)
LabsSpec == /\ LabsInit /\ [][LabsNext]_<<vars, filter_vars, dictionary>>
            /\ WF_dictionary(ProgramNext)

=============================================================================
