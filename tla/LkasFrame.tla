----------------------------- MODULE LkasFrame -----------------------------
(***************************************************************************)
(* The LKAS11 frame as hyundai_can.cc builds it: the car's own last frame  *)
(* (the seed) is decoded, the fields of a steering command replaced, and   *)
(* everything packed again bit by bit with a checksum (hyundai_can.cc,     *)
(* get_signal_le() and set_signal_le() of can_frame.h).  What the steering *)
(* rack reads is what decode_lkas11() reads: fusion, lane warnings and the *)
(* other fields of the camera must pass through untouched.                 *)
(*                                                                         *)
(* A frame is the set of its bits that are 1.                              *)
(***************************************************************************)
EXTENDS Integers, SequencesExt, Functions

CONSTANT Torques   \* torques a command is tried with, shifted up by TorqueZero

TorqueZero == 1024

ASSUME FrameAssumption == Torques \subseteq 0 .. 2 * TorqueZero - 1

VARIABLES
  lkas_seed,    \* the values of the seed frame
  lkas_command, \* HyundaiLkasCommand
  lkas_bits     \* the data of the frame sent
frameVars == <<lkas_seed, lkas_command, lkas_bits>>

(* set_common_lkas_fields(): the first bit and the length of every field,  *)
(* in the order they are written.                                          *)
Written ==
  << <<"ldws_active_mode", 0, 2>>, <<"ldws_sys_state", 2, 4>>, <<"sys_warning", 6, 4>>,
     <<"left_lane_depart", 10, 2>>, <<"right_lane_depart", 12, 2>>, <<"hba_lamp", 14, 1>>,
     <<"fcw_bas_req", 15, 1>>, <<"steer_torque", 16, 11>>, <<"steer_req", 27, 1>>,
     <<"toi_fault", 28, 1>>, <<"hba_sys_state", 29, 3>>, <<"fcw_opt", 32, 2>>,
     <<"hba_opt", 34, 2>>, <<"msg_count", 36, 4>>, <<"fcw_sys_state", 40, 3>>,
     <<"fcw_collision_warning", 43, 2>>, <<"fusion_state", 45, 2>>, <<"unknown1", 47, 1>>,
     <<"fcw_opt_usm", 56, 3>>, <<"ldws_opt_usm", 59, 3>>, <<"unknown2", 62, 2>> >>

(* decode_lkas11(): the same of every field as it is read. *)
ReadAt ==
  [ldws_active_mode |-> <<0, 2>>, ldws_sys_state |-> <<2, 4>>, sys_warning |-> <<6, 4>>,
   left_lane_depart |-> <<10, 2>>, right_lane_depart |-> <<12, 2>>, hba_lamp |-> <<14, 1>>,
   fcw_bas_req |-> <<15, 1>>, steer_torque |-> <<16, 11>>, steer_req |-> <<27, 1>>,
   toi_fault |-> <<28, 1>>, hba_sys_state |-> <<29, 3>>, fcw_opt |-> <<32, 2>>,
   hba_opt |-> <<34, 2>>, msg_count |-> <<36, 4>>, fcw_sys_state |-> <<40, 3>>,
   fcw_collision_warning |-> <<43, 2>>, fusion_state |-> <<45, 2>>, unknown1 |-> <<47, 1>>,
   fcw_opt_usm |-> <<56, 3>>, ldws_opt_usm |-> <<59, 3>>, unknown2 |-> <<62, 2>>]

Fields == DOMAIN ReadAt
ChecksumByte == 6

-----------------------------------------------------------------------------
(* Bits *)

(* get_signal_le() *)
Signal(bits, start, length) ==
  FoldFunction(+, 0, [i \in 0 .. length - 1 |-> IF start + i \in bits THEN 2 ^ i ELSE 0])

(* set_signal_le() of a value clamp_u32() has brought into range *)
SetSignal(bits, start, length, value) ==
  LET clamped == IF value < 0 THEN 0 ELSE IF value >= 2 ^ length THEN 2 ^ length - 1 ELSE value
  IN  (bits \ (start .. start + length - 1))
        \cup {start + i : i \in {j \in 0 .. length - 1 : (clamped \div 2 ^ j) % 2 = 1}}

(* hyundai_lkas11_checksum(): the bytes but the checksum's own. *)
Checksum(bits) ==
  FoldFunctionOnSet(+, 0, [b \in 0 .. 7 |-> Signal(bits, 8 * b, 8)], 0 .. 7 \ {ChecksumByte}) % 256

-----------------------------------------------------------------------------
(* The frame *)

(* decode_lkas11(); the torque keeps its shift here. *)
Decoded(bits) == [f \in Fields |-> Signal(bits, ReadAt[f][1], ReadAt[f][2])]

(* apply_lkas_command(): the request is off in a cut, which is told by     *)
(* toi_fault; ldws_fix is never set.                                       *)
Commanded(values, command) ==
  [values EXCEPT !.ldws_sys_state = command.sys_state, !.sys_warning = 0,
                 !.left_lane_depart = 0, !.right_lane_depart = 0,
                 !.steer_torque = command.torque,
                 !.steer_req = IF command.request /\ ~command.cut THEN 1 ELSE 0,
                 !.toi_fault = IF command.cut THEN 1 ELSE 0,
                 !.msg_count = command.count % 16]

(* create_lkas11_frame() *)
Packed(values) ==
  LET fields == FoldLeft(LAMBDA bits, f : SetSignal(bits, f[2], f[3], values[f[1]]), {}, Written)
  IN  SetSignal(fields, 8 * ChecksumByte, 8, Checksum(fields))

Commands == [sys_state : {1, 3, 4}, torque : Torques, request : BOOLEAN, cut : BOOLEAN,
             count : {5, 15}]

(* A seed with one field at any value and the others all at their least    *)
(* or all at their greatest.                                               *)
Greatest(f) == 2 ^ ReadAt[f][2] - 1

Seeds ==
  UNION {{[f \in Fields |-> IF f = g THEN v ELSE IF high THEN Greatest(f) ELSE 0] :
            v \in 0 .. Greatest(g), high \in BOOLEAN} : g \in Fields \ {"steer_torque"}}

FrameInit == lkas_seed \in Seeds /\ lkas_command = <<>> /\ lkas_bits = {}

(* build_lateral_can_frames(): the frame of one tick. *)
SendLkas ==
  /\ lkas_command = <<>>
  /\ \E command \in Commands :
       /\ lkas_command' = command
       /\ lkas_bits' = Packed(Commanded(lkas_seed, command))
  /\ UNCHANGED lkas_seed

FrameSpec == FrameInit /\ [][SendLkas]_frameVars

-----------------------------------------------------------------------------
(* Properties *)

(* Of the fields a steering command sets the rack reads the command, of    *)
(* all others what the car's own frame said, and the checksum is right.    *)
FrameCarriesCommand ==
  lkas_command # <<>> =>
    /\ Decoded(lkas_bits) = Commanded(lkas_seed, lkas_command)
    /\ Signal(lkas_bits, 8 * ChecksumByte, 8) = Checksum(lkas_bits)

=============================================================================
