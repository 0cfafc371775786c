-------------------------------- MODULE Egs51 --------------------------------
(***************************************************************************)
(* The CAN matrix of the EGS51 controllers, egs51_lookup.c: the frames in  *)
(* the order of the source, each with its signals in the order of the      *)
(* source, and the reading rules that belong to this family alone.         *)
(***************************************************************************)
EXTENDS FrameTable

BS_200h == Frame("ESP51", "BS_200h", \h200, <<
   B("BRE_KL", 0), B("BAS_KL", 1), B("ESP_INFO_BL", 2), B("ESP_INFO_DL", 3), B("ESP_KL", 4), B("ABS_KL", 5),
   B("BBV_KL", 7), B("BLS_UNT", 8), B("BLS_PA", 9), N("BZ200h", 10, 4), E("BLS", 14, 2, 0..3),
   E("DRTGVL", 16, 2, 0..3), N("DVL", 18, 14), E("DRTGVR", 32, 2, 0..3), N("DVR", 34, 14),
   E("DRTGTM", 48, 2, 0..3), N("TM_DL", 50, 14) >>)
BS_208h == Frame("ESP51", "BS_208h", \h208, <<
   B("AKT_R_ESP", 0), B("MINMAX_ART", 1), E("GMAX_ESP", 2, 3, 0..7), E("GMIN_ESP", 5, 3, 0..7),
   B("DDYN_UNT", 8), E("SZS", 9, 2, 0..3), B("TM_AUS", 11), E("SLV_ESP", 12, 4, 0..10), B("BRE_AKT_ESP", 16),
   E("ANFN", 17, 2, 0..3), B("BRE_AKT_ART", 19), N("MBRE_ESP", 20, 12), E("DRTGHR", 32, 2, 0..3),
   N("DHR", 34, 14), E("DRTGHL", 48, 2, 0..3), N("DHL", 50, 14) >>)
MS_308h == Frame("MS51", "MS_308h", \h308, <<
   B("KPL", 0), B("KUEB_O_A", 1), B("N_MAX_BG", 2), B("SAST", 3), B("SASV", 4), B("KSF_KL", 5),
   B("WKS_KL", 6), B("ZASBED", 7), N("NMOT", 8, 16), B("ELHP_WARN", 25), B("EOH", 26), B("LUFI_KL", 27),
   B("VGL_KL", 28), B("OEL_KL", 29), B("DIAG_KL", 30), B("TANK_KL", 31), B("UEHITZ", 32), B("ZAS", 33),
   B("ADR_KL", 34), B("ADR_DEF_KL", 35), B("ANL_LFT", 36), B("LUEFT_MOT_KL", 37), B("DBAA", 38),
   B("TEMP_KL", 39), N("T_OEL", 40, 8), N("OEL_FS", 48, 8), N("OEL_QUAL", 56, 8) >>)
MS_210h == Frame("MS51", "MS_210h", \h210, <<
   S("IGN_ANG", 16, 8, "x0.35"), S("PW", 16, 8, "x0.4"), S("M_ESP", 48, 8, "x3") >>)
MS_310h == Frame("MS51", "MS_310h", \h310, <<
   S("MAX_TRQ_FACTOR", 24, 8, "x0.0078"), S("IND_TORQUE", 32, 8, "x3"), S("DRG_TORQUE", 40, 8, "x3"),
   S("MAX_TORQUE", 48, 8, "x3"), S("MIN_TORQUE", 56, 8, "x3") >>)
MS_608h == Frame("MS51", "MS_608h", \h608, <<
   N("T_MOT", 0, 8), N("T_LUFT", 8, 8), N("FCOD_KAR", 16, 3), N("FCOD_BR", 19, 5), B("FCOD_MOT6", 24),
   B("GS_NVH", 25), N("FCOD_MOT", 26, 6), N("V_MAX_FIX", 32, 8), S("VB", 40, 16, "x0.5") >>)
GS_218h == Frame("GS51", "GS_218h", \h218, <<
   S("TORQUE_REQ", 0, 8, "x0.5"), B("GB_TYPE", 8), B("GB_OK", 10), B("OFF_ROAD", 11), B("PN", 12),
   B("GARAGE_SHIFT", 13), B("CAN_START", 14), B("TORQUE_REQ_EN", 15), E("GZC", 16, 4, (0..8) \cup {15}),
   E("GIC", 20, 4, (0..8) \cup {15}), B("TCC_SLIPPING", 24), B("TCC_OPEN", 25), B("TCC_CLOSED", 26),
   B("GEARBOX_BIG", 27), B("LIMP_MODE", 28), B("SE", 29), B("KICKDOWN", 30), B("FWD", 31),
   Wide("TCC_MULTI", 32, 8), N("FEHLER", 44, 4) >>)
\* Slip: the lever position is read a bit early.
EWM_230hEarly == Frame("EWM51", "EWM_230h", \h230, <<
   B("W_S", 0), B("FPT", 1), B("KD", 2), B("SPERR", 3), E("WHC", 3, 4, (5..13) \cup {15}) >>)

EWM_230h == Frame("EWM51", "EWM_230h", \h230, <<
   B("W_S", 0), B("FPT", 1), B("KD", 2), B("SPERR", 3), E("WHC", 4, 4, (5..13) \cup {15}) >>)
EZS_240h == Frame("EZS51", "EZS_240h", \h240, <<
   B("WH_UP", 2), B("VMAX_AKT", 3), B("S_MINUS_B", 4), B("S_PLUS_B", 5), B("WA", 6), B("AUS", 7),
   B("KG_KL_AKT", 8), B("KG_ALB_OK", 9), E("LL_RLC", 10, 2, 0..3), B("RG_SCHALT", 12), B("BS_SL", 13),
   B("KL_15", 14), B("KL_50", 15), B("WH_PA", 19), N("BZ240h", 20, 4) >>)
KLA_410h == Frame("EZS51", "KLA_410h", \h410, <<
   B("ZH_EIN_OK", 0), B("SENDE_NEU", 3), B("M_KOMPPAR", 5), B("M_KOMPTGL", 6), N("M_KOMP_NEU", 16, 8),
   B("LL_DZA", 1), B("KOMP_EIN", 7), N("P_KAELTE8", 8, 8), N("M_KOMP", 16, 8), N("NLFTS", 24, 8) >>)
KOMBI_408h == Frame("KOMBI51", "KOMBI_408h", \h408, <<
   N("TANK_FS", 0, 8), B("TF_AUF", 8), B("V_DSPL_AUS", 9), B("TACHO_SYM", 10), B("V_MPH", 11),
   B("KLA_VH", 12), B("VGL_KL_DEF", 13), B("TFSM", 14), B("KL_61E", 15), N("T_AUSSEN", 16, 8),
   N("KL_58D", 24, 8), N("MAZ", 32, 8), N("KM16", 40, 16), B("WRC3", 56), B("V_DSPL_AKT", 57),
   B("SGT_VH", 58), B("ZH_FREIG", 59), B("RT_EIN", 60), E("WRC", 61, 3, (0..7) \cup (128..135)) >>)

\* The frames in the order of the table.
Frames == <<
   BS_200h, BS_208h, MS_308h, MS_210h, MS_310h, MS_608h, GS_218h, EWM_230h, EZS_240h, KLA_410h, KOMBI_408h >>

-----------------------------------------------------------------------------
(* Reading rules. *)

Unavailable(s, v) ==
  \/ s.name \in {"T_MOT", "T_OEL", "T_LUFT", "IND_TORQUE", "MIN_TORQUE", "MAX_TORQUE", "M_ESP"} /\ v = 255
  \/ s.name \in {"DHR", "DHL"} /\ v = 16383
  \/ s.name = "PW" /\ v > 250

\* The signals whose scale is not the one of their row.
Rescaled == [T_MOT |-> "-40", T_OEL |-> "-40", T_LUFT |-> "-40", VB |-> "x0.868"]

DecodeSignal(s, payload) ==
  IF s.kind = "iso_tp" THEN ByKind(s, {})
  ELSE LET raw == Raw(s, payload)
       IN CASE Unavailable(s, Number(raw)) -> Absent
            [] s.name \in DOMAIN Rescaled /\ ~Unavailable(s, Number(raw)) ->
                 Shows("number", Number(raw), Rescaled[s.name])
            [] OTHER -> ByKind(s, raw)

\* The names the rules are keyed by.
RuleNames == DOMAIN Rescaled \cup
  {"IND_TORQUE", "MIN_TORQUE", "MAX_TORQUE", "M_ESP", "DHR", "DHL", "PW"}
=============================================================================
