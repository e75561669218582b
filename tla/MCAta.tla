------------------------------- MODULE MCAta -------------------------------
(***************************************************************************)
(* The shell and a program, and two sectors, one of the root and one in    *)
(* the place of the running kernel.                                        *)
(***************************************************************************)
EXTENDS AtaProps, TLC

CONSTANTS near, far, a, b, c, d

TwoSectors == {near, far}
FourValues == {a, b, c, d}
AnImage == near :> a @@ far :> b
SomeWrites == {<<near, c>>, <<far, d>>}

(* What is not read any more is left out: the words of a call that has     *)
(* returned, unless they are those of the last read, and the registers     *)
(* behind the command.  Once calls have met, nothing is asked of the words *)
(* on their way, and they do not tell runs apart.                          *)
OfCall(t) ==
  IF pc[t] # "idle"
  THEN <<pc[t], lba[t], IF t \in reading THEN <<>> ELSE buffer[t]>>
  ELSE IF HasRead(t) THEN <<lba[t], buffer[t]>> ELSE <<>>

AtaView ==
  IF disturbed \/ wrecked
  THEN <<disk, present, wrecked, device, flags, pc, lba, target>>
  ELSE << disk, present, device, ram, flags, [t \in Callers |-> OfCall(t)],
          IF device = "idle" THEN <<>> ELSE target,
          IF device \in {"ready", "storing"} THEN data ELSE <<>>,
          IF \E t \in Callers : pc[t] \in {"read command", "write command"}
          THEN selected ELSE <<>>,
          gave_up, first, latest, reading >>
=============================================================================
