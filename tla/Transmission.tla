---------------------------- MODULE Transmission ----------------------------
(***************************************************************************)
(* The transmission texts of transmission.c: the decoders written by hand  *)
(* for eleven frames, the texts that put decoded frames into words with    *)
(* names they look up in the catalogues of Egs51, Egs52 and Egs53, and the *)
(* local identifiers each controller family is asked for.  Wording is left *)
(* out; what is kept is which bits a text is made of, under which names it *)
(* asks for them, when it refuses, and the scale it applies.               *)
(***************************************************************************)
EXTENDS FrameTable

Table51 == INSTANCE Egs51
Table52 == INSTANCE Egs52
Table53 == INSTANCE Egs53

\* The families with a CAN catalogue.
CanFamilies == {"EGS51", "EGS52", "EGS53"}

Frames(family) ==
  CASE family = "EGS51" -> Table51!Frames
    [] family = "EGS52" -> Table52!Frames
    [] family = "EGS53" -> Table53!Frames

DecodeSignal(family, s, payload) ==
  CASE family = "EGS51" -> Table51!DecodeSignal(s, payload)
    [] family = "EGS52" -> Table52!DecodeSignal(s, payload)
    [] family = "EGS53" -> Table53!DecodeSignal(s, payload)

\* The names the rules of a catalogue are keyed by.
RuleNames(family) ==
  CASE family = "EGS51" -> Table51!RuleNames
    [] family = "EGS52" -> Table52!RuleNames
    [] family = "EGS53" -> Table53!RuleNames

-----------------------------------------------------------------------------
(* The decoders written by hand: the fields in the order of the source.  A *)
(* field is a flag, a code or a number without scale (F), or a physical    *)
(* value (V).  Three flags of GS_218 make up the state of the converter.   *)

F(name, at, len)        == [name |-> name, at |-> at, len |-> len, scale |-> ""]
V(name, at, len, scale) == [name |-> name, at |-> at, len |-> len, scale |-> scale]

\* Slip: the bits of a field are collected from the last to the first.
ExtractReversed(payload, n, at, len) ==
  IF at + len > 8 * n THEN {} ELSE {i \in 0 .. len - 1 : at + i \in payload}

\* The weights of the 1 bits of a field; a field outside the payload reads as 0.
ExtractCanBits(payload, n, at, len) ==
  IF at + len > 8 * n THEN {} ELSE {len - 1 - i : i \in {j \in 0 .. len - 1 : at + j \in payload}}

\* The code calls the transmission automatic where bit 8 is 0; the catalogue has
\* no word for that bit, so only its place is compared.
Egs51Gs218 == <<
   V("torque_request", 0, 8, "x0.5"), F("automatic_transmission", 8, 1), F("gearbox_program_ok", 10, 1),
   F("off_road", 11, 1), F("park_or_neutral", 12, 1), F("garage_shift", 13, 1), F("start_enabled", 14, 1),
   F("torque_request_enabled", 15, 1), F("target_gear_code", 16, 4), F("actual_gear_code", 20, 4),
   F("slipping", 24, 1), F("open", 25, 1), F("closed", 26, 1), F("large_gearbox", 27, 1),
   F("limp_home", 28, 1), F("shifting", 29, 1), F("kickdown", 30, 1), F("front_wheel_drive", 31, 1),
   F("tcc_torque_multiplier_raw", 32, 8), F("error_counter", 44, 4) >>

Gs218 == <<
   F("engine_torque_toggle", 0, 1), F("engine_torque_request_min", 1, 1),
   F("engine_torque_request_max", 2, 1), V("requested_engine_torque_raw", 3, 13, "x0.25-500"),
   F("target_gear_code", 16, 4), F("actual_gear_code", 20, 4), F("slipping", 24, 1), F("open", 25, 1),
   F("closed", 26, 1), F("off_road_gear", 27, 1), F("basic_shift_program_ok", 28, 1),
   F("driving_resistance_high", 29, 1), F("shifting", 30, 1), F("manual_shift_mode", 31, 1),
   F("gearbox_ok", 32, 1), F("start_bang", 33, 1), F("start_enabled", 34, 1), F("limp_home", 35, 1),
   F("overtemperature", 36, 1), F("kickdown", 37, 1), F("drive_program_code", 38, 2),
   F("engine_torque_parity", 40, 1), F("drivetrain_control_1", 41, 1), F("drivetrain_control_0", 42, 1),
   F("converter_unloaded", 45, 1), F("emergency_engine_off_confirm", 46, 1),
   F("emergency_engine_off", 47, 1), F("creep_or_calid_raw", 48, 8), F("error_check_state", 56, 2),
   F("calid_cvn_active", 58, 1), F("error_counter", 59, 5) >>

Gs338 == <<
   F("output_speed_rpm", 0, 16), F("mil_request", 16, 1), F("nak_parity", 17, 1), F("nak_toggle", 18, 1),
   F("power_free_in_drive", 19, 1), F("race_start_state", 20, 2), F("pilot_torque_raw", 22, 10),
   F("starting_area_torque_raw", 32, 16), F("turbine_speed_rpm", 48, 16) >>

Gs418 == <<
   F("display_position_code", 0, 8), F("drive_program_code", 8, 8),
   V("transmission_temperature_raw", 16, 8, "-50"), F("all_wheel_drive", 24, 1), F("front_wheel_drive", 25, 1),
   F("shifting", 26, 1), F("cvt", 27, 1), F("mechanism_variant", 28, 2), F("brake_required", 30, 1),
   F("kickdown", 31, 1), F("target_gear_code", 32, 4), F("actual_gear_code", 36, 4),
   V("torque_loss_raw", 40, 8, "x0.25"), F("wheel_torque_parity", 48, 1), F("wheel_torque_toggle", 49, 1),
   F("selector_position_code", 50, 3), F("wheel_torque_factor_raw", 53, 11) >>

Egs53TcmA1 == <<
   V("oil_temperature_c", 0, 8, "-50"), F("tcc_no_load", 8, 1), F("clutch_state", 9, 3),
   F("limp_home", 12, 1), F("basic_shift_program_ok", 13, 1), F("driving_resistance_high", 14, 1),
   F("overtemperature", 15, 1), F("off_road_active", 16, 1), F("selector_position_code", 17, 3),
   F("manual_program_active", 20, 1), F("drive_program_code", 21, 3), F("start_brake_request", 24, 1),
   F("drive_shaft_torque_nm", 32, 16) >>

Egs53TcmA2 == <<
   V("requested_current_duty_percent", 0, 8, "x0.5"), F("turbine_rpm", 18, 14), F("mil_request", 32, 1),
   F("desired_slip_rpm", 34, 14), F("calid_cvn_data", 48, 8), F("error_check_state", 56, 2),
   F("calid_cvn_active", 58, 1), F("calid_cvn_error_counter", 59, 5) >>

Egs53EngRq1 == <<
   F("torque_request_min", 0, 1), F("torque_request_max", 1, 1),
   V("requested_engine_torque_nm", 3, 13, "x0.25-500"), F("intervention_mode", 16, 2),
   F("downshift_mode", 18, 3), V("engine_sync_time_s", 24, 8, "x0.02"),
   F("stop_start_enable_request", 32, 1), F("requested_engine_rpm", 34, 14), F("message_counter", 48, 4),
   F("engine_start_enable_request", 52, 1), F("emergency_engine_off_request", 53, 1),
   F("jump_start_active", 54, 1), F("crc", 56, 8) >>

Egs53EngRq2 == <<
   F("target_gear_code", 0, 4), F("actual_gear_code", 4, 4), V("transmission_ratio", 8, 8, "x0.02"),
   V("engine_to_wheel_torque_ratio", 18, 14, "x0.01"), V("transmission_torque_loss_nm", 32, 8, "x0.25"),
   F("vehicle_drive_style", 40, 2), F("transmission_style", 42, 2),
   F("transmission_mechanics_style", 44, 2), F("transmission_shift_style", 46, 2),
   F("message_counter", 48, 4), F("crc", 56, 8) >>

Egs53EngRq3 == <<
   F("maximum_acceleration_state", 1, 2), V("wet_driveaway_clutch_torque_nm", 3, 13, "x0.25-500"),
   F("message_counter", 48, 4), F("crc", 56, 8) >>

Egs53SbwRsTcm == <<
   F("message_transmitter_id", 0, 2), F("starter_lockout", 7, 1), F("selector_valve_position", 8, 4),
   F("selector_position_request", 12, 4), V("selector_sensor_percent", 16, 8, "x0.4"),
   F("message_counter", 48, 4), F("crc", 56, 8) >>

Egs53TcmDisplayRequest == <<
   F("display_position_code", 0, 8), F("display_program_code", 8, 8),
   F("shift_by_wire_beep_request", 16, 1), F("shift_recommendation", 17, 2),
   F("shift_by_wire_message", 21, 3), F("selector_lock_2_display", 24, 4),
   F("selector_lock_1_display", 28, 4), F("selector_lock_4_display", 32, 4),
   F("selector_lock_3_display", 36, 4), F("target_gear_display_code", 40, 8),
   F("race_start_display_state", 48, 3) >>

-----------------------------------------------------------------------------
(* The layouts of the KWP local identifiers 30 to 33: bit 0 is the most    *)
(* significant bit of the first byte behind the identifier.                *)

KwpRli30Fields == <<
   F("tcc_delta_speed_raw", 0, 16), F("tcc_speed_raw", 16, 16), F("tcc_pressure_raw", 32, 16),
   F("tcc_status", 48, 8), F("selector_position", 56, 8), F("drive_program", 64, 8),
   F("recognised_gear", 72, 8), F("actual_gear_code", 84, 4), F("target_gear_code", 80, 4),
   V("atf_temperature_c", 88, 8, "-50"), F("engine_torque_raw", 96, 16), F("converter_torque_raw", 112, 16),
   F("output_speed_raw", 128, 16), F("kickdown", 151, 1), F("start_enable", 150, 1),
   F("start_lockout_reason", 149, 1), F("reverse_park_lock", 148, 1), F("starter_relay", 147, 1),
   F("solenoid_1245", 146, 1), F("solenoid_23", 145, 1), F("solenoid_34", 144, 1),
   F("program_button", 159, 1), F("selector_plus", 158, 1), F("selector_minus", 157, 1),
   F("not_switching", 156, 1), F("gear_protection", 155, 1), F("tcc_open_request", 154, 1),
   F("downshift", 167, 1), F("upshift", 166, 1), F("drivetrain_control_0", 165, 1),
   F("drivetrain_control_1", 164, 1), F("release_circuit", 163, 1), F("steering_wheel_plus", 162, 1),
   F("steering_wheel_minus", 161, 1), F("converter_clutch_enabled", 160, 1), F("current_error", 175, 1),
   F("emergency_mode", 174, 1), F("asr_active", 173, 1), F("transmission_protection_ack", 172, 1),
   F("bang_start", 171, 1), F("minimum_torque_request", 170, 1), F("circuit_break", 169, 1),
   F("double_circuit", 168, 1), F("converter_ok", 190, 1) >>

KwpRli31 == <<
   F("n2_pulse_count", 0, 16), F("n3_pulse_count", 16, 16), F("input_rpm", 32, 16), F("engine_rpm", 48, 16),
   F("front_left_wheel_speed_raw", 64, 16), F("front_right_wheel_speed_raw", 80, 16),
   F("rear_left_wheel_speed_raw", 96, 16), F("rear_right_wheel_speed_raw", 112, 16),
   F("rear_vehicle_speed_raw", 128, 16), F("front_vehicle_speed_raw", 144, 16) >>

KwpRli32 == <<
   F("pedal_percent", 0, 8), F("upshift_delta_rpm_raw", 8, 16), F("downshift_delta_rpm_raw", 24, 16),
   F("pedal_delta_percent", 40, 8), F("pitch_raw", 48, 16), F("driving_status", 64, 8),
   F("engine_warmup_shift_state", 72, 8), F("requested_low_gear_limit", 80, 8),
   F("requested_high_gear_limit", 88, 8) >>

KwpRli33 == <<
   F("valve_flag", 0, 8), F("shift_valve_state", 8, 8), F("spc_pressure_raw", 16, 16),
   F("mpc_pressure_raw", 32, 16), F("spc_target_current_raw", 48, 16), F("spc_actual_current_raw", 64, 16),
   F("mpc_target_current_raw", 80, 16), F("mpc_actual_current_raw", 96, 16), F("tcc_pwm_raw", 112, 8) >>

\* The layouts and the number of bytes each demands.
KwpLayouts ==
  {[need |-> 24, fields |-> KwpRli30Fields], [need |-> 20, fields |-> KwpRli31],
   [need |-> 12, fields |-> KwpRli32], [need |-> 15, fields |-> KwpRli33]}

-----------------------------------------------------------------------------
(* The texts.  format_can_frame words the frames above by hand and every   *)
(* other frame from the catalogue; by hand it still asks the catalogue for *)
(* the names of the codes.                                                 *)

\* A text by hand: its frame, the payload lengths it accepts, its fields and the codes it looks up.
Text(family, id, lengths, fields, codes) ==
  [family |-> family, id |-> id, lengths |-> lengths, fields |-> fields, codes |-> codes]

TextsOfEgs51 == {Text("EGS51", \h218, 6..8, Egs51Gs218, {})}

\* Slip: one of the codes is looked up under the name of another signal.
TextsOfEgs52Misnamed ==
  {Text("EGS52", \h218, {8}, Gs218, {"FPC", "FEHLPRF_ST"}),
   Text("EGS52", \h338, {8}, Gs338, {"RACE_START"}),
   Text("EGS52", \h418, {8}, Gs418, {"MECH"})}

TextsOfEgs52 ==
  {Text("EGS52", \h218, {8}, Gs218, {"FPC_AAD", "FEHLPRF_ST"}),
   Text("EGS52", \h338, {8}, Gs338, {"RACE_START"}),
   Text("EGS52", \h418, {8}, Gs418, {"MECH"})}

TextsOfEgs53 ==
  {Text("EGS53", \h2f1, {8}, Egs53TcmA1, {"Clutch_Stat", "TSL_Posn_TCM", "VehDrvProg_TCM_V2"}),
   Text("EGS53", \h2e2, {8}, Egs53TcmA2, {"TCM_ErrChk_Stat"}),
   Text("EGS53", \hf1, {8}, Egs53EngRq1, {"IntrvntnMd_TCM", "TxDnShiftMd"}),
   Text("EGS53", \hf3, {8}, Egs53EngRq2, {"VehDrvStyle", "TxStyle", "TxMechStyle", "TxShiftStyle"}),
   Text("EGS53", \hf4, {8}, Egs53EngRq3, {"DrvAccelMax_Stat"}),
   Text("EGS53", \h1bd, {8}, Egs53SbwRsTcm, {"SBW_MsgTxmtId", "TxSelVlvPosn", "TSL_Posn_Rq"}),
   Text("EGS53", \h2f3, {8}, Egs53TcmDisplayRequest,
        {"TxDrvPosn_Disp_Rq_TCM", "TxDrvProg_Disp_Rq_TCM", "TxShiftRcmmnd_Disp_Rq_TCM",
         "SBW_Msg_Disp_Rq_TCM", "Gr_Target_Disp_Rq", "RaceStMd_Disp_Rq_AMG"})}

HandTexts == TextsOfEgs51 \cup TextsOfEgs52 \cup TextsOfEgs53

\* The code of a hand-written text: the first matching frame that knows the name and the value.
EnumName(family, id, name, payload) ==
  {i \in Matching(Frames(family), id) :
     LET j == Find(Frames(family)[i], name)
     IN j # 0 /\ DecodeSignal(family, Frames(family)[i].signals[j], payload).how = "enum"}

\* The two display codes of GS_418 may be characters instead of enumerators.
DisplayNames == {"FSC", "FPC"}

\* The requests the catalogue texts spell out ahead of the signals: <<frame, signal, kind>>.
DerivedOfEgs52 ==
  {<<"MS_210h", "KUEB_S_A", "bool">>, <<"MS_308h", "KUEB_O_A", "bool">>} \cup
  ({"BS_300h"} \X {"MMIN_ESP", "MMAX_ESP", "DMMIN_ART", "DMMAX_ART"} \X {"bool"}) \cup
  ({"BS_300h"} \X {"M_ESP", "DM_ART"} \X {"number"})

DerivedOfEgs53 == {<<"TX_RQ_ECM", "TCC_Rq", "enum">>}

-----------------------------------------------------------------------------
(* The words a text by hand has for a code, by position from code 0, and   *)
(* the words of the tables for the same codes; "-" is a code without one.  *)

ActualGearWords ==
  <<"N", "1", "2", "3", "4", "5", "6", "7", "D-CVT", "R-CVT", "R3", "R", "R2", "P", "no force", "absent">>

TargetGearWords ==
  <<"N", "1", "2", "3", "4", "5", "6", "7", "D-CVT", "R-CVT", "R3", "R", "R2", "P", "cancel", "absent">>

SelectorWords == <<"P", "R", "N", "-", "D", "-", "-", "absent">>

\* The gears as the three catalogues word them: the two later ones alike.
GearWordsOfEgs51 == <<"N", "1", "2", "3", "4", "5", "R", "R2", "P", "-", "-", "-", "-", "-", "-", "absent">>

GearWordsOfEgs52(last) ==
  <<"N", "1", "2", "3", "4", "5", "6", "7", "D-CVT", "R-CVT", "R3", "R", "R2", "P", last, "absent">>

SelectorWordsOfEgs52 == <<"P", "R", "N", "-", "D", "-", "-", "absent">>

\* Per family and field: the words of the text, and the words of the catalogue.
Wordings ==
  {[family |-> fam, field |-> "actual_gear_code", said |-> ActualGearWords,
    meant |-> GearWordsOfEgs52("no force")] :
     fam \in {"EGS52", "EGS53"}} \cup
  {[family |-> fam, field |-> "target_gear_code", said |-> TargetGearWords,
    meant |-> GearWordsOfEgs52("cancel")] :
     fam \in {"EGS52", "EGS53"}} \cup
  {[family |-> "EGS51", field |-> "actual_gear_code", said |-> ActualGearWords, meant |-> GearWordsOfEgs51],
   [family |-> "EGS51", field |-> "target_gear_code", said |-> TargetGearWords, meant |-> GearWordsOfEgs51],
   [family |-> "EGS52", field |-> "selector_position_code", said |-> SelectorWords,
    meant |-> SelectorWordsOfEgs52]}

\* The direction of a wheel tells whether its speed is available.
Direction ==
  [WhlRPM_FL |-> "WhlDir_FL_Stat", WhlRPM_FR |-> "WhlDir_FR_Stat",
   WhlRPM_RL |-> "WhlDir_RL_Stat", WhlRPM_RR |-> "WhlDir_RR_Stat"]

\* The enumerator "SNA" of the four directions.
DirectionAbsent == 3

WheelUnavailable(frame, s, payload) ==
  /\ frame.name = "WHL_STAT2"
  /\ s.name \in DOMAIN Direction
  /\ LET j == Find(frame, Direction[s.name])
     IN j # 0 /\ DecodeSignal("EGS53", frame.signals[j], payload) = Shows("enum", DirectionAbsent, "")

\* What the catalogue text says of one signal of a frame; <<>> when it says nothing.
Line(family, frame, s, payload, n) ==
  IF s.kind = "iso_tp" \/ ~Readable(s, n) THEN <<>>
  ELSE IF family = "EGS53" /\ WheelUnavailable(frame, s, payload) THEN <<Absent>>
  ELSE <<DecodeSignal(family, s, payload)>>

-----------------------------------------------------------------------------
(* The local identifiers of a family, the ones it has a name for, and the  *)
(* ones worth reading again and again.                                     *)

Metadata == \he0 .. \heb

ReadIds(family) ==
  CASE family = "EGS52"            -> (\h30 .. \h33) \cup Metadata
    [] family = "EGS53"            -> {\h30} \cup Metadata
    [] family = "VGS_NAG2"         -> {\h30} \cup Metadata
    [] family = "ULTIMATE_NAG52"   -> (\h20 .. \h25) \cup {\h27} \cup (\h30 .. \h32)
    [] family \in {"UNKNOWN", "EGS51"} -> Metadata
    [] family = "OTHER"            -> {}

NamedIds(family) ==
  (IF family # "ULTIMATE_NAG52" THEN Metadata ELSE {}) \cup
  CASE family = "EGS52"          -> \h30 .. \h33
    [] family = "EGS53"          -> {\h30, \hb1}
    [] family = "VGS_NAG2"       -> {\h30}
    [] family = "ULTIMATE_NAG52" -> (\h20 .. \h25) \cup {\h27} \cup (\h30 .. \h32)
    [] family \in {"UNKNOWN", "EGS51", "OTHER"} -> {}

LiveIds(family) ==
  CASE family = "EGS52"          -> \h30 .. \h33
    [] family = "EGS53"          -> {\h30}
    [] family = "VGS_NAG2"       -> {\h30}
    [] family = "ULTIMATE_NAG52" -> (\h20 .. \h25) \cup {\h27} \cup (\h30 .. \h32)
    [] family \in {"UNKNOWN", "EGS51", "OTHER"} -> {}
=============================================================================
