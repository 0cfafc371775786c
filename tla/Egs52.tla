-------------------------------- MODULE Egs52 --------------------------------
(***************************************************************************)
(* The CAN matrix of the EGS52 controllers, egs52_lookup.c.  Identifier    *)
(* 218h is described twice, and two fields are composites of bits that lie *)
(* apart (FCOD_MOT, WRC).                                                  *)
(***************************************************************************)
EXTENDS FrameTable

BS_200h == Frame("ESP_SBC", "BS_200h", \h200, <<
   B("BRE_KL", 0), B("BAS_KL", 1), B("ESP_INFO_BL", 2), B("ESP_INFO_DL", 3), B("ESP_KL", 4), B("ABS_KL", 5),
   B("BBV_KL", 7), B("BLS_UNT", 8), B("BLS_PA", 9), N("BZ200h", 10, 4), E("BLS", 14, 2, 0..3),
   E("DRTGVL", 16, 2, 0..3), N("DVL", 18, 14), E("DRTGVR", 32, 2, 0..3), N("DVR", 34, 14),
   E("DRTGTM", 48, 2, 0..3), N("TM_DL", 50, 14) >>)
BS_208h == Frame("ESP_SBC", "BS_208h", \h208, <<
   B("AKT_R_ESP", 0), B("MINMAX_ART", 1), E("GMAX_ESP", 2, 3, 0..7), E("GMIN_ESP", 5, 3, 0..7),
   B("DDYN_UNT", 8), E("SZS", 9, 2, 0..3), B("TM_AUS", 11), E("SLV_ESP", 12, 4, 0..10), B("BRE_AKT_ESP", 16),
   E("ANFN", 17, 2, 0..3), B("BRE_AKT_ART", 19), N("MBRE_ESP", 20, 12), E("DRTGHR", 32, 2, 0..3),
   N("DHR", 34, 14), E("DRTGHL", 48, 2, 0..3), N("DHL", 50, 14) >>)
BS_270h == Frame("ESP_SBC", "BS_270h", \h270, <<
   N("RIZ_HL", 0, 8), N("RIZ_HR", 8, 8), E("PRW_WARN", 16, 4, (0..8) \cup {14, 15}),
   E("PRW_ST", 21, 3, 0..7) >>)
BS_300h == Frame("ESP_SBC", "BS_300h", \h300, <<
   B("DMPAR_ART", 0), B("DMDYN_ART", 1), B("BAS_AKT", 2), B("VOLLBRE", 3), B("ART_E", 4),
   B("ESP_GIER_AKT", 5), B("LWS_INI_OK", 6), B("LWS_INI_EIN", 7), B("MPAR_ESP", 8), B("MDYN_ESP", 9),
   B("AMR_AKT_ESP", 10), E("T_Z", 11, 2, 0..3), B("SFB_PA", 13), E("SFB", 14, 2, 0..3), B("DMTGL_ART", 16),
   B("DMMIN_ART", 17), B("DMMAX_ART", 18), N("DM_ART", 19, 13), B("MTGL_ESP", 32), B("MMIN_ESP", 33),
   B("MMAX_ESP", 34), N("M_ESP", 35, 13), N("GIER_ROH", 48, 16) >>)
BS_328h == Frame("ESP_SBC", "BS_328h", \h328, <<
   B("WMS_PA", 0), N("WMS", 1, 15), N("AY_S", 16, 8),
   E("ESP_DSPL", 35, 5, (0..11) \cup (13..17) \cup (22..31) \cup {19, 20}), B("NOTBRE", 41),
   B("KPL_OEF", 44), N("BZ328h", 45, 3), N("RIZ_VL", 48, 8), N("RIZ_VR", 56, 8) >>)
D_RS_BS == Frame("ESP_SBC", "D_RS_BS", \h785, <<
   T("D_RS", 0, 64) >>)
SD_RS_BS == Frame("ESP_SBC", "SD_RS_BS", \h722, <<
   T("SD_RS", 0, 64) >>)
BS_APPL2 == Frame("ESP_SBC", "BS_APPL2", \h635, <<
   T("APPL2", 0, 64) >>)
MS_100h == Frame("MS", "MS_100h", \h100, <<
   T("FBS", 0, 64) >>)
MS_101h == Frame("MS", "MS_101h", \h101, <<
   T("MS_FBS", 0, 64) >>)
MS_210h == Frame("MS", "MS_210h", \h210, <<
   B("KOMP_NOTAUS", 0), E("SLV_MS", 1, 4, 0..10), B("KRIECH_AUS", 6), B("ANF1", 7), B("AKT_R_MS", 8),
   B("ZH_AUS_MS", 9), E("GMAX_MS", 10, 3, 0..7), E("GMIN_MS", 13, 3, 0..7), S("PW", 16, 8, "x0.4"),
   B("V_DSPL_NEU", 24), B("LL_STBL", 25), B("VGL_ST", 26), B("MSS_DEF", 27), B("MSS_KL", 28),
   B("MSS_AKT", 29), B("KOMP_BAUS", 30), B("CRASH_MS", 31), B("PWG_ERR", 32), B("LL", 33), B("KUEB_S_A", 34),
   B("TM_REG", 35), B("V_MAX_EIN", 36), B("KD_MS", 37), B("NOTL", 38), B("V_MAX_SUM", 39), B("FBS_SE", 40),
   B("V_DSPL_PGB", 41), B("TM_EIN", 42), B("V_MAX_REG", 43), B("V_DSPL_LIM", 44), B("V_DSPL_ERR", 45),
   B("V_DSPL_BL", 46), B("V_DSPL_EIN", 47), N("FMMOTMAX", 48, 8), N("V_MAX_TM", 56, 8) >>)
MS_212h == Frame("MS", "MS_212h", \h212, <<
   N("NMOTS", 0, 16), B("TM_MS", 17), B("M_ART_E", 18), N("M_FV", 19, 13), B("SME_E", 33), B("M_ESP_E", 34),
   N("M_FEV", 35, 13), B("CALID_CVN_E", 48), B("M_EGS_Q", 49), B("M_EGS_E", 50), N("M_ESPV", 51, 13) >>)
MS_268h == Frame("MS", "MS_268h", \h268, <<
   N("IMIN_MS", 0, 8), N("IMAX_MS", 8, 8), B("KL_61_EIN", 16), B("OEL_INFO_169", 17), B("ASV_KKL_169", 18),
   E("HZL_ST", 22, 2, 0..3), B("KID_MS", 24), B("LRS_MODE", 25), N("LAST_GEN", 26, 6),
   N("M_KOMP_MAX", 32, 8), N("PW_F", 40, 8) >>)
MS_2F3h == Frame("MS", "MS_2F3h", \h2f3, <<
   E("FSC_IST", 0, 8, (49..55) \cup {32, 65, 68, 70, 78, 80, 82, 255}),
   E("FSC_SOLL", 40, 8, (49..55) \cup {1, 2, 32, 65, 68, 70, 78, 80, 82, 255}) >>)
MS_308h == Frame("MS", "MS_308h", \h308, <<
   B("KPL", 0), B("KUEB_O_A", 1), B("N_MAX_BG", 2), B("SAST", 3), B("SASV", 4), B("KSF_KL", 5),
   B("WKS_KL", 6), B("ZASBED", 7), N("NMOT", 8, 16), B("ELHP_WARN", 25), B("EOH", 26), B("LUFI_KL", 27),
   B("VGL_KL", 28), B("OEL_KL", 29), B("DIAG_KL", 30), B("TANK_KL", 31), B("UEHITZ", 32), B("ZAS", 33),
   B("ADR_KL", 34), B("ADR_DEF_KL", 35), B("ANL_LFT", 36), B("LUEFT_MOT_KL", 37), B("DBAA", 38),
   B("TEMP_KL", 39), N("T_OEL", 40, 8), N("OEL_FS", 48, 8), N("OEL_QUAL", 56, 8) >>)
MS_312h == Frame("MS", "MS_312h", \h312, <<
   N("M_STA", 3, 13), N("M_MAX_ATL", 19, 13), N("M_MAX", 35, 13), N("M_MIN", 51, 13) >>)
AAD_580h == Frame("MS", "AAD_580h", \h580, <<
   N("FTK_BMI", 0, 8), N("FTK_LMI", 8, 8), N("FTK_VMI", 16, 8), N("FTK_DPW", 32, 8), N("AADKB", 40, 8),
   B("AADKBDYN", 48), N("AADNT", 56, 8) >>)
MS_608h == Frame("MS", "MS_608h", \h608, <<
   N("T_MOT", 0, 8), N("T_LUFT", 8, 8), E("FCOD_KAR", 16, 3, 0..7), E("FCOD_BR", 19, 5, 0..31),
   B("FCOD_MOT6", 24), B("GS_NVH", 25),
   M("FCOD_MOT", 26, 6, {0, 1, 2, 3, 4, 5, 7},
     (0..5) \cup (10..14) \cup (18..20) \cup (22..32) \cup (34..37) \cup (43..46) \cup (64..72) \cup
     {7, 8, 39, 40, 79, 80, 96, 99}),
   N("V_MAX_FIX", 32, 8), N("VB", 40, 16), B("ZWP_EIN_MS", 56), E("PFW", 57, 2, 0..3), B("ZVB_EIN_MS", 59),
   N("PFKO", 60, 4) >>)
D_RS_FSCM == Frame("MS", "D_RS_FSCM", \h779, <<
   T("D_RS_FSCM", 0, 64) >>)
D_RS_MS == Frame("MS", "D_RS_MS", \h7e8, <<
   T("D_RS", 0, 64) >>)
SD_RS_MS == Frame("MS", "SD_RS_MS", \h720, <<
   T("SD_RS", 0, 64) >>)
SG_APPL_MS == Frame("MS", "SG_APPL_MS", \h529, <<
   T("SG_APPL_MS", 0, 64) >>)
MS_APPL2 == Frame("MS", "MS_APPL2", \h4a9, <<
   T("APPL2", 0, 64) >>)
MS_APPL4 == Frame("MS", "MS_APPL4", \h633, <<
   T("APPL4", 0, 64) >>)
MS_APPL5 == Frame("MS", "MS_APPL5", \h6a8, <<
   T("APPL5", 0, 64) >>)
MS_APPL6 == Frame("MS", "MS_APPL6", \h610, <<
   T("APPL6", 0, 64) >>)
MS_APPL7 == Frame("MS", "MS_APPL7", \h618, <<
   T("APPL7", 0, 64) >>)
EDC_MESS1 == Frame("MS", "EDC_MESS1", \h670, <<
   T("MESS1", 0, 64) >>)
EDC_MESS2 == Frame("MS", "EDC_MESS2", \h671, <<
   T("MESS2", 0, 64) >>)
GS_218h == Frame("GS", "GS_218h", \h218, <<
   B("MTGL_EGS", 0), B("MMIN_EGS", 1), B("MMAX_EGS", 2), N("M_EGS", 3, 13), E("GZC", 16, 4, 0..15),
   E("GIC", 20, 4, 0..15), B("K_S_B", 24), B("K_O_B", 25), B("K_G_B", 26), B("G_G", 27), B("GSP_OK", 28),
   B("FW_HOCH", 29), B("SCHALT", 30), B("HSM", 31), B("GET_OK", 32), B("KS", 33), B("ALF", 34),
   B("GS_NOTL", 35), B("UEHITZ_GET", 36), B("KD", 37), E("FPC_AAD", 38, 2, 0..3), B("MPAR_EGS", 40),
   B("DYN1_EGS", 41), B("DYN0_AMR_EGS", 42), B("K_LSTFR", 45), B("MOT_NAUS_CNF", 46), B("MOT_NAUS", 47),
   N("MKRIECH", 48, 8), E("FEHLPRF_ST", 56, 2, 0..3), B("CALID_CVN_AKT", 58), N("FEHLER", 59, 5) >>)
GS_338h == Frame("GS", "GS_338h", \h338, <<
   E("NAB", 0, 16, {255}), B("MIL_ANF_GS", 16), B("NAK_PA", 17), B("NAK_TGL", 18), B("KID", 19),
   E("RACE_START", 20, 2, 0..3), E("M_VORSTR", 22, 10, {255}), E("MABS_SW_ANFB", 32, 16, {255}),
   E("NTURBINE", 48, 16, {255}) >>)
GS_418h == Frame("GS", "GS_418h", \h418, <<
   C("FSC", 0, 8), C("FPC", 8, 8), N("T_GET", 16, 8), B("ALLRAD", 24), B("FRONT", 25), B("SCHALT", 26),
   B("CVT", 27), E("MECH", 28, 2, 0..3), B("ESV_BRE", 30), B("KD", 31), E("GZC", 32, 4, 0..15),
   E("GIC", 36, 4, 0..15), N("M_VERL", 40, 8), B("FMRADPAR", 48), B("FMRADTGL", 49),
   E("WHST", 50, 3, (0..2) \cup {4, 7}), N("FMRAD", 53, 11) >>)
D_RS_GS == Frame("GS", "D_RS_GS", \h7e9, <<
   T("D_RS", 0, 64) >>)
SD_RS_GS == Frame("GS", "SD_RS_GS", \h723, <<
   T("SD_RS_GS", 0, 64) >>)
GS_APPL1 == Frame("GS", "GS_APPL1", \h51c, <<
   T("APPL1", 0, 64) >>)
GS_HSA == Frame("GS", "GS_HSA", \h50a, <<
   T("HSA", 0, 64) >>)
GS_HSB == Frame("GS", "GS_HSB", \h50b, <<
   T("HSB", 0, 64) >>)
GS_HSC == Frame("GS", "GS_HSC", \h50c, <<
   T("HSC", 0, 64) >>)
GS_HSD == Frame("GS", "GS_HSD", \h50d, <<
   T("HSD", 0, 64) >>)
GS_HSE == Frame("GS", "GS_HSE", \h50e, <<
   T("HSE", 0, 64) >>)
EWM_230h == Frame("EWM", "EWM_230h", \h230, <<
   B("W_S", 0), B("FPT", 1), B("KD", 2), B("SPERR", 3), E("WHC", 4, 4, (5..13) \cup {15}) >>)
D_RS_EWM == Frame("EWM", "D_RS_EWM", \h789, <<
   T("D_RS", 0, 64) >>)
SD_RS_EWM == Frame("EWM", "SD_RS_EWM", \h724, <<
   T("SD_RS", 0, 64) >>)
EWM_MESS1 == Frame("EWM", "EWM_MESS1", \h6f0, <<
   T("MESS1", 0, 64) >>)
EWM_MESS2 == Frame("EWM", "EWM_MESS2", \h6f1, <<
   T("MESS2", 0, 64) >>)
FBS_110h == Frame("EZS", "FBS_110h", \h110, <<
   T("IFZ_ST", 0, 64) >>)
FBS_111h == Frame("EZS", "FBS_111h", \h111, <<
   T("FBS_MS", 0, 64) >>)
FBS_112h == Frame("EZS", "FBS_112h", \h112, <<
   T("FBS_GS", 0, 64) >>)
FBS_114h == Frame("EZS", "FBS_114h", \h114, <<
   T("FBS_EWM", 0, 64) >>)
EZS_240h == Frame("EZS", "EZS_240h", \h240, <<
   B("WH_UP", 2), B("VMAX_AKT", 3), B("S_MINUS_B", 4), B("S_PLUS_B", 5), B("WA", 6), B("AUS", 7),
   B("KG_KL_AKT", 8), B("KG_ALB_OK", 9), E("LL_RLC", 10, 2, 0..3), B("RG_SCHALT", 12), B("BS_SL", 13),
   B("KL_15", 14), B("KL_50", 15), B("WH_PA", 19), N("BZ240h", 20, 4), B("ASG_SPORT_BET", 27),
   B("CRASH_CNF", 30), B("CRASH", 31), B("BN_NTLF", 32), E("ESP_BET", 33, 2, 0..3), B("HAS_KL", 35),
   B("KL_31B", 36), B("BLI_RE", 38), B("BLI_LI", 39), E("ST2_BET", 40, 2, 0..3), E("ST3_BET", 42, 2, 0..3),
   E("ART_ABW_BET", 44, 2, 0..3), B("ABL_EIN", 46), B("KL54_RM", 47), N("ART_ABSTAND", 48, 8),
   B("ART_VH", 56), B("GBL_AUS", 57), E("FZGVERSN", 59, 3, 0..7), E("LDC", 62, 2, 0..3) >>)
ZGW_248h == Frame("EZS", "ZGW_248h", \h248, <<
   B("DIAG_X4_B", 0), B("DIAG_X4_F", 1), B("ABL_EIN", 3), B("AFL_ABL_EIN", 12), B("ZWP_LFT", 13),
   E("ANH_ERK2", 14, 2, 0..3) >>)
ZGW_24Ch == Frame("EZS", "ZGW_24Ch", \h24c, <<
   B("ABL_DEF_BF_R", 38), B("ABL_DEF_F_L", 39) >>)
KLA_40Eh == Frame("EZS", "KLA_40Eh", \h40e, <<
   N("HZL_ANF", 0, 8) >>)
KLA_410h == Frame("EZS", "KLA_410h", \h410, <<
   B("ZH_EIN_OK", 0), B("SENDE_NEU", 3), B("M_KOMPPAR", 5), B("M_KOMPTGL", 6), N("M_KOMP_NEU", 16, 8),
   B("LL_DZA", 1), B("KOMP_EIN", 7), N("P_KAELTE8", 8, 8), N("M_KOMP", 16, 8), N("NLFTS", 24, 8),
   N("T_AUSSEN_WM", 40, 8) >>)
APPL_SG_MS == Frame("EZS", "APPL_SG_MS", \h74c, <<
   T("APPL_SG_MS", 0, 64) >>)
D_RQ_ART == Frame("EZS", "D_RQ_ART", \h78e, <<
   T("D_RQ", 0, 64) >>)
D_RQ_BS == Frame("EZS", "D_RQ_BS", \h784, <<
   T("D_RQ", 0, 64) >>)
D_RQ_CAS == Frame("EZS", "D_RQ_CAS", \h77a, <<
   T("D_RQ_CAS", 0, 64) >>)
D_RQ_DTR == Frame("EZS", "D_RQ_DTR", \h702, <<
   T("D_RQ_DTR", 0, 64) >>)
D_RQ_EHB == Frame("EZS", "D_RQ_EHB", \h79a, <<
   T("D_RQ", 0, 64) >>)
D_RQ_EHB2 == Frame("EZS", "D_RQ_EHB2", \h7b0, <<
   T("D_RQ", 0, 64) >>)
D_RQ_EWM == Frame("EZS", "D_RQ_EWM", \h788, <<
   T("D_RQ", 0, 64) >>)
D_RQ_FS == Frame("EZS", "D_RQ_FS", \h78c, <<
   T("D_RQ", 0, 64) >>)
D_RQ_FSCM == Frame("EZS", "D_RQ_FSCM", \h778, <<
   T("D_RQ_FSCM", 0, 64) >>)
D_RQ_GS == Frame("EZS", "D_RQ_GS", \h7e1, <<
   T("D_RQ", 0, 64) >>)
D_RQ_ISM == Frame("EZS", "D_RQ_ISM", \h6ea, <<
   T("D_RQ", 0, 64) >>)
D_RQ_KOMBI_C == Frame("EZS", "D_RQ_KOMBI_C", \h796, <<
   T("D_RQ", 0, 64) >>)
D_RQ_LWR == Frame("EZS", "D_RQ_LWR", \h794, <<
   T("D_RQ", 0, 64) >>)
D_RQ_MS == Frame("EZS", "D_RQ_MS", \h7e0, <<
   T("D_RQ", 0, 64) >>)
D_RQ_RGS_L == Frame("EZS", "D_RQ_RGS_L", \h7b2, <<
   T("D_RQ", 0, 64) >>)
D_RQ_RGS_R == Frame("EZS", "D_RQ_RGS_R", \h7b4, <<
   T("D_RQ", 0, 64) >>)
D_RQ_UP28 == Frame("EZS", "D_RQ_UP28", \h7a2, <<
   T("D_RQ", 0, 64) >>)
GS_APPL2 == Frame("EZS", "GS_APPL2", \h6e4, <<
   T("APPL2", 0, 64) >>)
MS_APPL1 == Frame("EZS", "MS_APPL1", \h74a, <<
   T("APPL1", 0, 64) >>)
MS_APPL3 == Frame("EZS", "MS_APPL3", \h6e0, <<
   T("APPL3", 0, 64) >>)
EZS_MESS1 == Frame("EZS", "EZS_MESS1", \h60e, <<
   T("MESS1", 0, 64) >>)
DG_RQ_OBD == Frame("EZS", "DG_RQ_OBD", \h7df, <<
   T("D_RQ", 0, 64) >>)
VIN == Frame("EZS", "VIN", \h6fa, <<
   E("VIN_MSG", 6, 2, 0..3), T("VIN_DATA", 8, 56) >>)
KOMBI_408h == Frame("KOMBI", "KOMBI_408h", \h408, <<
   N("TANK_FS", 0, 8), B("TF_AUF", 8), B("V_DSPL_AUS", 9), B("TACHO_SYM", 10), B("V_MPH", 11),
   B("KLA_VH", 12), B("VGL_KL_DEF", 13), B("TFSM", 14), B("KL_61E", 15), N("T_AUSSEN", 16, 8),
   N("KL_58D", 24, 8), N("MAZ", 32, 8), N("KM16", 40, 16), B("WRC3", 56), B("V_DSPL_AKT", 57),
   B("SGT_VH", 58), B("ZH_FREIG", 59), B("RT_EIN", 60),
   M("WRC", 61, 3, {0, 1, 2, 7}, (0..7) \cup (128..135)) >>)
KOMBI_412h == Frame("KOMBI", "KOMBI_412h", \h412, <<
   B("AKU_WARN_AUS", 0), B("OPT_WARN_AUS", 1), B("ECO_WARN_ST", 4), B("ABST_S", 8),
   E("IST_ABST", 9, 3, 0..7), N("V_ANZ", 12, 12), E("DRTGANZ", 24, 2, 0..3), N("DANZ", 26, 14),
   B("ECO_AKT", 44), E("PRW_ANF", 46, 2, 0..3), N("MAZ_NEU", 52, 12) >>)
D_RS_KOMBI_C == Frame("KOMBI", "D_RS_KOMBI_C", \h797, <<
   T("D_RS", 0, 64) >>)
KOMBI_MESS1 == Frame("KOMBI", "KOMBI_MESS1", \h680, <<
   T("MESS1", 0, 64) >>)
KOMBI_MESS2 == Frame("KOMBI", "KOMBI_MESS2", \h681, <<
   T("MESS2", 0, 64) >>)
LRW_236h == Frame("MRM", "LRW_236h", \h236, <<
   N("LRW", 2, 14), N("VLRW", 18, 14), N("BZ236h", 32, 4), E("LRWS_ID", 36, 2, 0..3),
   E("LRWS_ST", 38, 2, 0..3), N("CRC236h", 56, 8) >>)
MRM_238h == Frame("MRM", "MRM_238h", \h238, <<
   B("WH_UP", 2), B("VMAX_AKT", 3), B("S_MINUS_B", 4), B("S_PLUS_B", 5), B("WA", 6), B("AUS", 7),
   B("BLI_RE", 8), B("BLI_LI", 9), B("WH_PA", 11), N("BZ238h", 12, 4), B("LW_PA", 16), B("LW_OV", 17),
   B("LW_CF", 18), B("LW_INI", 19), B("LW_VZ", 20), N("LW", 21, 11) >>)
ARCADE_A2 == Frame("ANY_ECU", "ARCADE_A2", \h35, <<
   B("CONF_CRASH", 0), B("CRASH_F", 2), B("CRASH_C", 5) >>)
MS_ANZ == Frame("ANY_ECU", "MS_ANZ", \h33d, <<
   E("ASS_WARN", 16, 4, 0..15), E("ASS_DSPL", 20, 4, 0..15), B("ASS_LTEST_AUS", 24) >>)
GS_102h == Frame("ANY_ECU", "GS_102h", \h102, <<
   T("GS_FBS", 0, 64) >>)
EWM_104h == Frame("ANY_ECU", "EWM_104h", \h104, <<
   T("EWM_FBS", 0, 64) >>)
GS_218h_ANY_ECU == Frame("ANY_ECU", "GS_218h", \h218, <<
   N("I_IST_GET", 16, 8) >>)
SBW_232h == Frame("ANY_ECU", "SBW_232h", \h232, <<
   E("SID_SBW", 0, 2, 0..3), E("LRT_PM3", 5, 3, 0..7), E("SBWB_ID", 8, 2, {0, 2, 3}),
   E("SBWB_ST_P", 10, 2, 0..3), E("SBWB_ST_RND", 12, 4, (0..2) \cup {4, 6, 8, 15}), N("BZ232h", 16, 4) >>)
ART_250h == Frame("ANY_ECU", "ART_250h", \h250, <<
   E("SLV_ART", 0, 4, 0..10), B("ART_OK", 4), B("ART_BRE", 5), B("BL_UNT", 6), B("DYN_UNT", 7),
   B("MPAR_ART", 8), B("MDYN_ART", 9), B("CAS_REG", 10), B("LIM_REG", 17), B("ART_REG", 18),
   N("M_ART", 19, 13), N("BZ250h", 32, 4), N("MBRE_ART", 36, 12), B("AKT_R_ART", 48),
   E("GMAX_ART", 50, 3, 0..7), E("GMIN_ART", 53, 3, 0..7) >>)
ART_258h == Frame("ANY_ECU", "ART_258h", \h258, <<
   B("ART_DSPL_EIN", 0), B("S_OBJ", 1), B("ART_WT", 2), B("ART_INFO", 3),
   E("ART_ERR", 4, 4, (0..9) \cup {15}), N("V_ART", 8, 8), N("ABST_R_OBJ", 16, 8), N("SOLL_ABST", 24, 8),
   B("ART_DSPL_PGB", 32), B("ART_VFBR", 33), B("ART_DSPL_LIM", 34), B("ART_EIN", 35), B("OBJ_ERK", 36),
   B("ART_SEG_EIN", 37), B("ART_DSPL_BL", 38), B("TM_EIN_ART", 39), N("V_ZIEL", 40, 8),
   B("ART_DSPL_NEU", 48), B("ART_UEBERSP", 49), B("ART_REAKT", 50), B("ART_ABW_AKT", 51), B("OBJ_AGB", 52),
   B("AAS_LED_BL", 53), E("ASSIST_FKT_AKT", 54, 2, 0..3), E("CAS_ERR_ANZ_V2", 56, 3, 0..3),
   E("ASSIST_ANZ_V2", 59, 5, 0..17) >>)
FS_340h == Frame("ANY_ECU", "FS_340h", \h340, <<
   N("M_LAST", 60, 4) >>)
PSM_3B4h == Frame("ANY_ECU", "PSM_3B4h", \h3b4, <<
   B("PSM_ADR_PAR", 0), B("PSM_ADR_TGL", 1), B("PSM_ADR_AKT", 2), N("PSM_N_SOLL", 8, 16),
   B("PSM_MOM_PAR", 24), B("PSM_MOM_TGL", 25), B("PSM_MOM_AKT", 26), N("PSM_MOM_SOLL", 27, 13),
   B("PSM_DZ_PAR", 40), B("PSM_DZ_TGL", 41), B("PSM_DZ_AKT", 42), N("PSM_DZ_MAX", 48, 16) >>)
PSM_3B8h == Frame("ANY_ECU", "PSM_3B8h", \h3b8, <<
   B("PSM_V_PAR", 0), B("PSM_V_TGL", 1), B("PSM_V_AKT", 2), N("PSM_V_SOLL", 8, 8), B("PSM_DZ_PAR", 16),
   B("PSM_DZ_TGL", 17), B("PSM_FERN_START", 18), B("PSM_FERN_STOP", 19), B("PSM_FPM_SP", 20) >>)
KOMBI_414h == Frame("ANY_ECU", "KOMBI_414h", \h414, <<
   N("T_AUSSEN_K", 0, 8) >>)
VG_428h == Frame("ANY_ECU", "VG_428h", \h428, <<
   B("VG_ERR", 2), E("VG_GANG", 5, 3, (0..2) \cup {4, 7}), B("ANFNPAR_VG", 12), B("ANFNTGL_VG", 13),
   E("ANFN_VG", 14, 2, 0..3) >>)
LWR_530h == Frame("ANY_ECU", "LWR_530h", \h530, <<
   B("LWR_M7", 1), B("LWR_M6", 2), B("LWR_M5", 3), B("LWR_M4", 4), B("LWR_M3", 5), B("LWR_M2", 6),
   B("LWR_M1", 7), B("SUB_ABL_L", 8), B("SUB_ABL_R", 9) >>)
CONFIG_6FFh == Frame("ANY_ECU", "CONFIG_6FFh", \h6ff, <<
   B("GBL_AUS", 0), B("KLA_VH", 50), B("DSH_VH", 60), B("DSM_VH", 61), B("DSV_VH", 62), B("VG_VH", 63) >>)
D_RS_ART == Frame("ANY_ECU", "D_RS_ART", \h78f, <<
   T("D_RS", 0, 64) >>)
D_RS_CAS == Frame("ANY_ECU", "D_RS_CAS", \h77b, <<
   T("D_RS_CAS", 0, 64) >>)
D_RS_DTR == Frame("ANY_ECU", "D_RS_DTR", \h4a0, <<
   T("D_RS_DTR", 0, 64) >>)
D_RS_EHB == Frame("ANY_ECU", "D_RS_EHB", \h79b, <<
   T("D_RS", 0, 64) >>)
D_RS_EHB2 == Frame("ANY_ECU", "D_RS_EHB2", \h7b1, <<
   T("D_RS", 0, 64) >>)
D_RS_FS == Frame("ANY_ECU", "D_RS_FS", \h78d, <<
   T("D_RS", 0, 64) >>)
D_RS_ISM == Frame("ANY_ECU", "D_RS_ISM", \h49d, <<
   T("D_RS", 0, 64) >>)
D_RS_LWR == Frame("ANY_ECU", "D_RS_LWR", \h795, <<
   T("D_RS", 0, 64) >>)
D_RS_RGS_L == Frame("ANY_ECU", "D_RS_RGS_L", \h7b3, <<
   T("D_RS", 0, 64) >>)
D_RS_RGS_R == Frame("ANY_ECU", "D_RS_RGS_R", \h7b5, <<
   T("D_RS", 0, 64) >>)
D_RS_UP28 == Frame("ANY_ECU", "D_RS_UP28", \h7a3, <<
   T("D_RS", 0, 64) >>)
BS_APPL1 == Frame("ANY_ECU", "BS_APPL1", \h634, <<
   T("APPL1", 0, 64) >>)
MS_APPL1_ANY_ECU == Frame("ANY_ECU", "MS_APPL1", \h630, <<
   T("APPL1", 0, 64) >>)
MS_APPL3_ANY_ECU == Frame("ANY_ECU", "MS_APPL3", \h632, <<
   T("APPL3", 0, 64) >>)
EZS_MESS2 == Frame("ANY_ECU", "EZS_MESS2", \h60f, <<
   T("MESS2", 0, 64) >>)
GS_HS1 == Frame("ANY_ECU", "GS_HS1", \h501, <<
   T("HS1", 0, 64) >>)
GS_HS2 == Frame("ANY_ECU", "GS_HS2", \h502, <<
   T("HS2", 0, 64) >>)
GS_HS3 == Frame("ANY_ECU", "GS_HS3", \h503, <<
   T("HS3", 0, 64) >>)
GS_HS4 == Frame("ANY_ECU", "GS_HS4", \h504, <<
   T("HS4", 0, 64) >>)
GS_HS5 == Frame("ANY_ECU", "GS_HS5", \h505, <<
   T("HS5", 0, 64) >>)
GS_HS6 == Frame("ANY_ECU", "GS_HS6", \h506, <<
   T("HS6", 0, 64) >>)

\* The frames in the order of the table.
Frames == <<
   BS_200h, BS_208h, BS_270h, BS_300h, BS_328h, D_RS_BS, SD_RS_BS, BS_APPL2, MS_100h, MS_101h, MS_210h,
   MS_212h, MS_268h, MS_2F3h, MS_308h, MS_312h, AAD_580h, MS_608h, D_RS_FSCM, D_RS_MS, SD_RS_MS, SG_APPL_MS,
   MS_APPL2, MS_APPL4, MS_APPL5, MS_APPL6, MS_APPL7, EDC_MESS1, EDC_MESS2, GS_218h, GS_338h, GS_418h,
   D_RS_GS, SD_RS_GS, GS_APPL1, GS_HSA, GS_HSB, GS_HSC, GS_HSD, GS_HSE, EWM_230h, D_RS_EWM, SD_RS_EWM,
   EWM_MESS1, EWM_MESS2, FBS_110h, FBS_111h, FBS_112h, FBS_114h, EZS_240h, ZGW_248h, ZGW_24Ch, KLA_40Eh,
   KLA_410h, APPL_SG_MS, D_RQ_ART, D_RQ_BS, D_RQ_CAS, D_RQ_DTR, D_RQ_EHB, D_RQ_EHB2, D_RQ_EWM, D_RQ_FS,
   D_RQ_FSCM, D_RQ_GS, D_RQ_ISM, D_RQ_KOMBI_C, D_RQ_LWR, D_RQ_MS, D_RQ_RGS_L, D_RQ_RGS_R, D_RQ_UP28,
   GS_APPL2, MS_APPL1, MS_APPL3, EZS_MESS1, DG_RQ_OBD, VIN, KOMBI_408h, KOMBI_412h, D_RS_KOMBI_C,
   KOMBI_MESS1, KOMBI_MESS2, LRW_236h, MRM_238h, ARCADE_A2, MS_ANZ, GS_102h, EWM_104h, GS_218h_ANY_ECU,
   SBW_232h, ART_250h, ART_258h, FS_340h, PSM_3B4h, PSM_3B8h, KOMBI_414h, VG_428h, LWR_530h, CONFIG_6FFh,
   D_RS_ART, D_RS_CAS, D_RS_DTR, D_RS_EHB, D_RS_EHB2, D_RS_FS, D_RS_ISM, D_RS_LWR, D_RS_RGS_L, D_RS_RGS_R,
   D_RS_UP28, BS_APPL1, MS_APPL1_ANY_ECU, MS_APPL3_ANY_ECU, EZS_MESS2, GS_HS1, GS_HS2, GS_HS3, GS_HS4,
   GS_HS5, GS_HS6 >>

-----------------------------------------------------------------------------
(* Reading rules. *)

\* The characters and messages the instrument cluster shows for the two display codes.
DisplayCodes ==
  [FSC |-> (49..55) \cup {32, 65, 68, 70, 78, 80, 82, 255},
   FPC |-> (2..4) \cup (10..12) \cup (18..20) \cup (22..25) \cup
           {6, 7, 14, 15, 32, 64, 65, 67, 70, 77, 83, 87, 95, 96, 97, 99, 109, 115, 119, 127,
            129, 131, 134, 141, 147, 151, 159, 255}]

Unavailable(s, v) ==
  \/ s.name \in {"T_MOT", "T_OEL", "T_LUFT", "FMMOTMAX", "M_KOMP"} /\ v = 255
  \/ s.name \in {"DHR", "DHL"} /\ v = 16383
  \/ s.name = "PW" /\ v > 250

\* The signals whose scale is not the one of their row.
Rescaled ==
  [T_MOT |-> "-40", T_OEL |-> "-40", T_LUFT |-> "-40", T_GET |-> "-50", VB |-> "x0.868",
   M_EGS |-> "x0.25-500", M_STA |-> "x0.25-500", M_MIN |-> "x0.25-500", M_MAX |-> "x0.25-500",
   M_ESPV |-> "x0.25-500", DM_ART |-> "x0.25-500", M_ESP |-> "x0.25-500",
   M_VERL |-> "x0.25", M_KOMP |-> "x0.25", FMMOTMAX |-> "x0.0078"]

DecodeSignal(s, payload) ==
  IF s.kind = "iso_tp" THEN ByKind(s, {})
  ELSE LET raw == Raw(s, payload)
           v   == Number(raw)
       IN IF s.name \in DOMAIN DisplayCodes /\ v \in DisplayCodes[s.name] THEN Shows("enum", v, "")
          ELSE IF Unavailable(s, v) THEN Absent
          ELSE IF s.name \in DOMAIN Rescaled THEN Shows("number", v, Rescaled[s.name])
          ELSE ByKind(s, raw)

\* The names the rules are keyed by.
RuleNames == DOMAIN Rescaled \cup DOMAIN DisplayCodes \cup {"DHR", "DHL", "PW"}
=============================================================================
