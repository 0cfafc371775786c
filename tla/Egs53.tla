-------------------------------- MODULE Egs53 --------------------------------
(***************************************************************************)
(* The CAN matrix of the EGS53 controllers, egs53_lookup.c.                *)
(***************************************************************************)
EXTENDS FrameTable

CTRL_U_A2 == Frame("ECM", "CTRL_U_A2", \h15, <<
   N("SwIllLvl", 0, 8), N("DispBrt_IC", 8, 8), S("DispBrt_HU_V2", 16, 8, "x0.5"), N("DispBrt_NV", 24, 8) >>)
ECM_A1 == Frame("ECM", "ECM_A1", \h30d, <<
   S("EngCoolTemp", 0, 8, "-40"), S("IntkAirTemp", 8, 8, "-40"), S("EngOilTemp", 16, 8, "-40"),
   S("EngOilLvl", 24, 8, "x0.315"), S("EngOilQual", 32, 8, "x0.01969+1"), S("FuelCons", 40, 16, "x0.2167"),
   S("AirPress_Outsd", 56, 8, "x7.795") >>)
ECM_A2 == Frame("ECM", "ECM_A2", \h349, <<
   B("AddWtrPmp_On_Rq_ECM", 0), E("HtPwr_Stat", 6, 2, 0..3), S("HVAC_CompTrq_Max", 8, 8, "x0.25"),
   B("Clutch_Disengg", 24), B("FuelPmp_On_Rq", 25), N("EngIdleRPM_Dsr", 26, 14), S("EngEff", 40, 8, "x0.5"),
   B("FSCM_Alive", 48), B("EngTrqInc_Enbl_TCM", 50), B("EngTrqIncChk_Avl", 51),
   S("ParticleFltrCorrOffset", 52, 4, "x0.03"), S("FuelPress_Rq", 56, 8, "x0.05") >>)
EIS_A1 == Frame("ECM", "EIS_A1", \h1, <<
   B("TxPkPosn_Rq_SBC_Enbl", 0), B("TxPkPosnAuto_Enbl", 1), B("TxPkPosn_Emg_Rq", 2), B("TxPkPosn_Rq", 3),
   B("Ign_On_StProc_Inact", 4), E("ISw_Stat", 5, 3, (0..2) \cup {4, 5, 7}), E("AutoDrLk_Rq_Src", 8, 2, 0..3),
   B("KG_SevKeysDet", 12), B("KG_StSw_Psd", 13), B("EngSt_Enbl_Rq_KG", 14), B("KG_IgnCtrl_Actv", 15),
   E("ProfMd_Stat", 16, 2, 0..3), E("AutoDrLk_Stat", 18, 2, 0..3), E("Prof_Stat", 20, 4, 0..15),
   E("CLkS_Gas_Dr_Stat", 24, 2, 0..3), E("CLkS_DL_Stat", 26, 2, 0..3), E("CLkS_Lk_Stat", 28, 2, 0..3),
   E("CLkS_Dr_RR_Stat", 32, 2, 0..3), E("CLkS_Dr_RL_Stat", 34, 2, 0..3), E("CLkS_Dr_FR_Stat", 36, 2, 0..3),
   E("CLkS_Dr_FL_Stat", 38, 2, 0..3), B("KeyLine8_Appr", 40), B("KeyLine7_Appr", 41), B("KeyLine6_Appr", 42),
   B("KeyLine5_Appr", 43), B("KeyLine4_Appr", 44), B("KeyLine3_Appr", 45), B("KeyLine2_Appr", 46),
   B("KeyLine1_Appr", 47), N("MC_EIS_A1", 48, 4), E("CLkS_Lk_Stat3", 53, 3, (0..3) \cup {7}),
   N("CRC_EIS_A1", 56, 8) >>)
IC_A1 == Frame("ECM", "IC_A1", \h19f, <<
   S("VehSpd_Disp", 4, 12, "x0.1"), S("AirTemp_Outsd_Disp", 16, 8, "x0.5-40"),
   E("PTS_Disp_Stat_IC", 24, 2, 0..3), E("HiBm_Enbl", 26, 2, 0..3), N("EngShutOffTm", 28, 12),
   S("Odo", 40, 24, "x0.1") >>)
IC_A3_values1 ==
  [ RadarSensMd_Rq |-> 0..3, DRLt_On_Rq |-> 0..3, TPM_Actv_Rq_V2 |-> {0, 1, 3}, FTW_On_Rq |-> 0..3,
    TaxiToneMd_Rq |-> 0..3, TaxiRoofLmpMd_Rq |-> 0..3, TaxiMd_Rq |-> 0..3, DataRadioMenu_Stat |-> 0..3,
    UnitTemp_Rq |-> 0..3, DRVM_AudioMd_Rq |-> 0..3, DRVM_SysMd_Rq |-> 0..3, TAX_Rq |-> 0..3,
    IHC_Md_Rq |-> 0..3, ECO_Md_Rq |-> 0..3, AFS_Md_Rq |-> 0..3, UnitPress_Rq |-> 0..3,
    SLA_WarnLvl_Rq |-> 0..7, SLA_Md_Rq |-> 0..3, ALDW_Md_Rq |-> (0..3) \cup {7}, BSM_Md_Rq |-> 0..3,
    BSM_AcustWarn_Enbl |-> 0..3, PTS_Md_Rq |-> 0..3, PTS_AcustWarn_Enbl |-> 0..3,
    VehDrvProgSys4_Md_Rq |-> 0..3 ]

IC_A3_values2 ==
  [ VehDrvProgSys3_Md_Rq |-> 0..3, VehDrvProgSys2_Md_Rq |-> 0..3, VehDrvProgSys1_Md_Rq |-> 0..3,
    VehDrvProgSys8_Md_Rq |-> 0..3, VehDrvProgSys7_Md_Rq |-> 0..3, VehDrvProgSys6_Md_Rq |-> 0..3,
    VehDrvProgSys5_Md_Rq |-> 0..3 ]

IC_A3 == Frame("ECM", "IC_A3", \h3e1, <<
   E("RadarSensMd_Rq", 0, 2, IC_A3_values1.RadarSensMd_Rq), E("DRLt_On_Rq", 2, 2, IC_A3_values1.DRLt_On_Rq),
   E("TPM_Actv_Rq_V2", 4, 2, IC_A3_values1.TPM_Actv_Rq_V2), E("FTW_On_Rq", 6, 2, IC_A3_values1.FTW_On_Rq),
   E("TaxiToneMd_Rq", 8, 2, IC_A3_values1.TaxiToneMd_Rq),
   E("TaxiRoofLmpMd_Rq", 10, 2, IC_A3_values1.TaxiRoofLmpMd_Rq),
   E("TaxiMd_Rq", 12, 2, IC_A3_values1.TaxiMd_Rq),
   E("DataRadioMenu_Stat", 14, 2, IC_A3_values1.DataRadioMenu_Stat),
   E("UnitTemp_Rq", 16, 2, IC_A3_values1.UnitTemp_Rq),
   E("DRVM_AudioMd_Rq", 18, 2, IC_A3_values1.DRVM_AudioMd_Rq),
   E("DRVM_SysMd_Rq", 20, 2, IC_A3_values1.DRVM_SysMd_Rq), E("TAX_Rq", 22, 2, IC_A3_values1.TAX_Rq),
   E("IHC_Md_Rq", 24, 2, IC_A3_values1.IHC_Md_Rq), E("ECO_Md_Rq", 26, 2, IC_A3_values1.ECO_Md_Rq),
   E("AFS_Md_Rq", 28, 2, IC_A3_values1.AFS_Md_Rq), E("UnitPress_Rq", 30, 2, IC_A3_values1.UnitPress_Rq),
   E("SLA_WarnLvl_Rq", 32, 3, IC_A3_values1.SLA_WarnLvl_Rq), E("SLA_Md_Rq", 35, 2, IC_A3_values1.SLA_Md_Rq),
   E("ALDW_Md_Rq", 37, 3, IC_A3_values1.ALDW_Md_Rq), E("BSM_Md_Rq", 40, 2, IC_A3_values1.BSM_Md_Rq),
   E("BSM_AcustWarn_Enbl", 42, 2, IC_A3_values1.BSM_AcustWarn_Enbl),
   E("PTS_Md_Rq", 44, 2, IC_A3_values1.PTS_Md_Rq),
   E("PTS_AcustWarn_Enbl", 46, 2, IC_A3_values1.PTS_AcustWarn_Enbl),
   E("VehDrvProgSys4_Md_Rq", 48, 2, IC_A3_values1.VehDrvProgSys4_Md_Rq),
   E("VehDrvProgSys3_Md_Rq", 50, 2, IC_A3_values2.VehDrvProgSys3_Md_Rq),
   E("VehDrvProgSys2_Md_Rq", 52, 2, IC_A3_values2.VehDrvProgSys2_Md_Rq),
   E("VehDrvProgSys1_Md_Rq", 54, 2, IC_A3_values2.VehDrvProgSys1_Md_Rq),
   E("VehDrvProgSys8_Md_Rq", 56, 2, IC_A3_values2.VehDrvProgSys8_Md_Rq),
   E("VehDrvProgSys7_Md_Rq", 58, 2, IC_A3_values2.VehDrvProgSys7_Md_Rq),
   E("VehDrvProgSys6_Md_Rq", 60, 2, IC_A3_values2.VehDrvProgSys6_Md_Rq),
   E("VehDrvProgSys5_Md_Rq", 62, 2, IC_A3_values2.VehDrvProgSys5_Md_Rq) >>)
LM_A1 == Frame("ECM", "LM_A1", \h69, <<
   B("NS_Ill_Actv", 0), B("ADL_Actv", 1), B("FogLmp_R_On_Rq", 2), B("FogLmp_Ft_On_Rq", 3),
   B("LoBm_On_Rq", 4), B("PosnLmp_On_Rq", 5), B("PkLmp_Rt_On_Rq", 6), B("PkLmp_Lt_On_Rq", 7),
   B("PosnLmp_IndLmp_On_Rq", 9), B("FogLmp_R_IndLmp_On_Rq", 10), E("IHC_Stat", 11, 2, 0..3),
   B("LoBm_IndLmp_On_Rq", 13), B("FogLmp_Ft_IndLmp_On_Rq", 14), B("SwIll_Off_Rq", 15) >>)
SPC_A3 == Frame("ECM", "SPC_A3", \h379, <<
   B("SPC_Msg2_Disp_Rq", 2), B("SPC_Msg1_Disp_Rq", 3), B("SPC_ErrMsg4_Disp_Rq", 4),
   B("SPC_ErrMsg3_Disp_Rq", 5), B("SPC_ErrMsg2_Disp_Rq", 6), B("SPC_ErrMsg1_Disp_Rq", 7),
   B("VehLvlCtrl_Stat", 10), B("ADC_Stat", 11), E("ADC_SwLED_Rq", 12, 2, 0..3),
   E("SuspLvlAdjSwLED_Rq", 14, 2, 0..3) >>)
STW_ANGL_STAT == Frame("ECM", "STW_ANGL_STAT", \h3, <<
   S("StW_Angl", 2, 14, "x0.5-2048"), S("StW_AnglSpd", 18, 14, "x0.5-2048"),
   E("StW_AnglSens_Id", 36, 2, 0..2), E("StW_AnglSens_Stat", 38, 2, 0..3), N("MC_STW_ANGL_STAT", 48, 4),
   N("CRC_STW_ANGL_STAT", 56, 8) >>)
BRK_STAT == Frame("ECM", "BRK_STAT", \h5, <<
   E("PkBrk_Rq_SBC", 0, 2, 0..3), E("BrkPdl_Stat", 2, 2, 0..3), E("SPCR_Sp_Stat", 4, 2, 0..3),
   E("Brk_Stat", 6, 2, 0..3), B("FullBrk_Actv", 8), B("EmgBrk_Actv", 9), B("BrkIntrvntn_Enbl", 11),
   B("BrkIntrvntn_Actv_EPKB", 12), B("BrkIntrvntn_Actv_AS", 13), B("BrkIntrvntn_Actv_ESP", 15),
   E("SPCR_Md_V3", 16, 4, (0..2) \cup (8..10) \cup {4, 12, 15}), S("BrkTrq", 20, 12, "x3"),
   B("TxPkPosn_Rq_SBC", 32), B("SPCR_Veh_Immo", 33), E("SPCR_Excpt_Rq", 34, 2, 0..3),
   E("StTrq_Stat", 36, 2, 0..3), E("ESP_Sys_Stat", 38, 2, 0..3), N("MC_BRK_STAT", 48, 4),
   E("SPCR_AS_Off_Rq", 52, 2, 0..3), E("SPCR_AS_Dsabl", 54, 2, 0..3), N("CRC_BRK_STAT", 56, 8) >>)
CGW_STAT == Frame("ECM", "CGW_STAT", \hf, <<
   B("BusFlt_PrmntActv", 5), E("CGW_Rout_Stat", 6, 2, 0..3) >>)
BRK_STAT2 == Frame("ECM", "BRK_STAT2", \h5f, <<
   S("BrkTrq_D", 4, 12, "x3"), S("BrkTrqGrdnt_D", 20, 12, "x97.68-200048"), N("MC_BRK_STAT2", 48, 4),
   N("CRC_BRK_STAT2", 56, 8) >>)
SBW_RQ_SCCM == Frame("ECM", "SBW_RQ_SCCM", \h6d, <<
   E("MsgTxmtId", 0, 2, 0..3), E("StW_Sw_Stat3", 5, 3, 0..7), E("TSL_Sgnl_Id_StW", 8, 2, 0..3),
   E("TSL_P_Psd_StW", 10, 2, 0..3), E("TSL_RND_Posn_StW", 12, 4, (0..2) \cup {4, 6, 8, 15}),
   N("MC_SBW_RQ_SCCM", 16, 4), N("CRC_SBW_RQ_SCCM", 24, 8) >>)
EPKB_STAT == Frame("ECM", "EPKB_STAT", \hdd, <<
   E("PkBrkSw_Stat", 0, 2, 0..3), E("EPkBrk_Stat", 2, 3, 0..7), E("PkBrk_Stat", 5, 3, 0..7),
   B("SBC_Enbl_Rq_EPKB", 8), E("DynBrkMd", 10, 2, 0..3), S("BrkTrq_Rq_EPKB", 12, 12, "x3"),
   E("BatCplSw_Rq_EPKB", 26, 2, 0..3), E("TxPkPosn_Rq_EPKB", 28, 2, 0..3), E("BrkLgt_On_Rq", 30, 2, 0..3),
   N("MC_EPKB_STAT", 48, 4), N("CRC_EPKB_STAT", 56, 8) >>)
HVAC_RS1 == Frame("ECM", "HVAC_RS1", \hf9, <<
   B("HVAC_Comp_Ft_On", 0), B("HVAC_AuxHt_Enbl", 1), B("HVAC_EngIdleRPM_Inc_Rq", 2),
   B("HVAC_Recup_Enbl_Rq", 3), B("SSA_Enbl_Rq_HVAC", 4), B("SSA_EngSt_Rq_HVAC", 5),
   B("HVAC_TxShftPointHt_Inc_Rq", 6), B("HVAC_TxShftPoint_Inc_Rq", 7), S("HVAC_CompTrq_Ft", 8, 8, "x0.25"),
   N("EngFanRPM_Rq_HVAC", 16, 8), S("AirTemp_Outsd_HtMgt", 24, 8, "x0.5-40"), N("HtPwr_Ft_Rq", 32, 8),
   N("MC_HVAC_RS1", 48, 4), N("CRC_HVAC_RS1", 56, 8) >>)
TX_RQ_SBC == Frame("ECM", "TX_RQ_SBC", \h104, <<
   B("GrMinMax_Rq_DTR", 1), E("GrMax_Rq_SBC", 2, 3, 0..7), E("GrMin_Rq_SBC", 5, 3, 0..7),
   B("DynFLDS_Supp_Rq_SBC", 8), B("ActvDnShift_Rq_SBC", 9), E("ShftChrDsp_Rq_SBC", 12, 4, 0..10),
   B("NoGrN_Rq", 21), E("GrN_Rq_SBC", 22, 2, 0..3), S("TxRatioMin_Rq_SBC", 24, 8, "x0.02"),
   S("TxRatioMax_Rq_SBC", 32, 8, "x0.02"), N("MC_TX_RQ_SBC", 48, 4), N("CRC_TX_RQ_SBC", 56, 8) >>)
ENG_RS3_PT == Frame("ECM", "ENG_RS3_PT", \h105, <<
   B("KickDnSw_Psd", 0), B("PreHt_Stat", 1), N("EngRPM", 2, 14), S("EngTrqMaxCorrFctr", 16, 8, "x0.007795"),
   S("AccelPdlPosn", 24, 8, "x0.4"), S("AccelPdlPosn_Raw", 32, 8, "x0.4"), B("Term61_Actv", 40),
   B("AddPwrCnsmr_On_Rq", 41), S("GenLoad", 42, 6, "x3.226"), N("MC_ENG_RS3_PT", 48, 4),
   B("AccelPdlPosnSens_Flt", 52), E("EngRun_Stat", 53, 3, 0..7), N("CRC_ENG_RS3_PT", 56, 8) >>)
ENG_RS2_PT == Frame("ECM", "ENG_RS2_PT", \h14b, <<
   S("EngTrqStatic", 3, 13, "x0.25-500"), S("EngTrqMaxETC", 19, 13, "x0.25-500"), B("FullOFC_Actv", 32),
   B("PartOFC_Actv", 33), S("EngTrqMinTTC", 35, 13, "x0.25-500"), N("MC_ENG_RS2_PT", 48, 4),
   N("CRC_ENG_RS2_PT", 56, 8) >>)
TX_RQ_ECM == Frame("ECM", "TX_RQ_ECM", \h17d, <<
   E("GrMax_Rq_ECM", 2, 3, 0..7), E("GrMin_Rq_ECM", 5, 3, 0..7), B("SSA_EngSp", 8), B("SSA_Sp_Warn", 9),
   B("Creep_Off_Rq", 10), B("Gr1_Rq_ECM", 11), E("ShftChrDsp_Rq", 12, 4, 0..10),
   S("TxRatioMin_Rq_ECM", 16, 8, "x0.02"), S("TxRatioMax_Rq_ECM", 24, 8, "x0.02"), E("TCC_Rq", 32, 2, 0..3),
   N("TxSlpRPM_Rq_ECM", 34, 14), N("MC_TX_RQ_ECM", 48, 4), B("ECM_LHOM", 52),
   B("EngExhstAfterTreat_Actv", 54), B("EngRPM_Sens_LHOM", 55), N("CRC_TX_RQ_ECM", 56, 8) >>)
ENG_RS1_PT == Frame("ECM", "ENG_RS1_PT", \h1cd, <<
   B("CC_Encode_ECM", 1), B("EngTrq_Enbl_Rq_AS", 2), S("EngTrqSel_D_TTC", 3, 13, "x0.25-500"),
   B("EngTrqAdjFast_Enbl", 17), B("EngTrq_Enbl_Rq_SBC", 18), S("EngTrqSel_AS_TTC", 19, 13, "x0.25-500"),
   B("EngTrq_Ack_ECM", 33), B("EngTrq_Enbl_Rq_TCM", 34), S("EngTrqSel_SBC_TTC", 35, 13, "x0.25-500"),
   N("MC_ENG_RS1_PT", 48, 4), N("CRC_ENG_RS1_PT", 56, 8) >>)
DPM_STAT == Frame("ECM", "DPM_STAT", \h200, <<
   E("DPM_ExtMd_Enbl_Rq", 4, 2, 0..3), E("DPM_MdLmt_Rq", 6, 2, 0..3) >>)
WHL_STAT1 == Frame("ECM", "WHL_STAT1", \h201, <<
   N("WhlPlsCnt_FL", 0, 8), N("WhlPlsCnt_FR", 8, 8), N("WhlPlsCnt_RL", 16, 8), N("WhlPlsCnt_RR", 24, 8),
   N("MC_WHL_STAT1", 48, 4), N("CRC_WHL_STAT1", 56, 8) >>)
WHL_STAT2 == Frame("ECM", "WHL_STAT2", \h203, <<
   E("WhlDir_FL_Stat", 0, 2, 0..3), S("WhlRPM_FL", 2, 14, "x0.5"), E("WhlDir_FR_Stat", 16, 2, 0..3),
   S("WhlRPM_FR", 18, 14, "x0.5"), E("WhlDir_RL_Stat", 32, 2, 0..3), S("WhlRPM_RL", 34, 14, "x0.5"),
   E("WhlDir_RR_Stat", 48, 2, 0..3), S("WhlRPM_RR", 50, 14, "x0.5") >>)
PN14_STAT == Frame("ECM", "PN14_STAT", \h205, <<
   B("PN14_SPCR_AfterRun_Avl", 0), B("PN14_SBC_Add_Off_Rq", 1), B("PN14_RevBltTns_Off_Rq", 2),
   B("PN14_RemPerm", 3), B("PN14_BackupBat_Flt", 5), E("PN14_BatCplSw_Stat", 6, 2, 0..3),
   S("PN14_SupBat_Volt", 8, 8, "x0.1"), E("PN14_SupBatCutSw_Stat", 22, 2, 0..3), B("PN14_LHC_Actv", 24),
   B("LHC_IntFan_F_50_Rq", 32), B("LHC_IntFan_R_50_Rq", 33), B("LHC_PTC1_Rq", 34), B("LHC_PTC2_Rq", 35),
   B("LHC_PTC3_Rq", 36), B("LHC_PTC4_Rq", 37), B("LHC_PTC5_Rq", 38), B("LHC_PTC6_Rq", 39),
   B("LHC_TrlrSock_Rq", 40), B("LHC_Tlm_Rq", 41), B("LHC_SeatVn_Rq", 42), B("LHC_SeatHtStg1_Rq", 43),
   B("LHC_SeatHtStg2_Rq", 44), B("LHC_SeatHtStg3_Rq", 45), B("LHC_DSH_Stg1_Rq", 46),
   B("LHC_DSH_Stg2_Rq", 47), B("LHC_FogLmp_Ft_Rq", 48), B("LHC_EngFan_50_Rq", 49), B("LHC_CoolBox_R_Rq", 50),
   B("LHC_MirrHt_Rq", 51), B("LHC_WShHt_Rq", 52), B("LHC_StW_Ht_Rq", 53), B("LHC_EBL_Rq", 54),
   B("LHC_WprPkHt_Rq", 55), B("PN14_LHC_Taxi_Rq", 59), B("LHC_ICH_Rq", 60), B("LHC_RHU_Rq", 61),
   B("LHC_ComfLmp_Rq", 62), B("LHC_TrkSock_Rq", 63) >>)
CVI == Frame("ECM", "CVI", \h207, <<
   E("Country", 0, 4, (0..7) \cup {15}), E("Group", 4, 4, (0..3) \cup {15}), E("Guard", 8, 2, 0..3),
   E("VehLine", 10, 6, (0..3) \cup {9, 17, 19, 22, 63}), E("VehLineYear", 17, 5, {30, 31}),
   E("VehLinePack", 22, 2, 0..3), E("StStyle", 25, 2, 0..3), E("BodyStyle", 27, 5, (0..13) \cup {31}),
   E("EngStyle", 32, 8, (0..5) \cup (7..14) \cup (123..126) \cup (129..138) \cup {255}),
   B("RainSens_Avl", 40), B("LgtSens_Avl", 41), B("ICH_Avl", 42), B("PCD_Avl", 43), B("VTA_Avl", 44),
   B("TrlrHtch_Avl", 45), B("HVAC_Avl", 46), B("TCM_Avl", 47), E("RoofStyle", 48, 3, (0..4) \cup {7}),
   B("Cplt_SL_Enbl", 51), E("VehOPTPack", 52, 2, 0..3), E("HVACStyle", 54, 2, 0..3), N("CRC_CVI", 56, 8) >>)
VEH_DYN_STAT == Frame("ECM", "VEH_DYN_STAT", \h245, <<
   S("VehYawRate_Raw", 0, 16, "x0.01-327.7"), S("VehYawRateOffset", 16, 8, "x0.08-10.24"),
   S("VehAccel_X_Offset", 24, 8, "x0.02-2.56"), S("VehAccel_X", 32, 8, "x0.08-10.24"),
   S("VehAccel_Y", 40, 8, "x0.08-10.24"), N("MC_VEH_DYN_STAT", 48, 4),
   S("VehAccel_Y_Offset", 56, 8, "x0.02-2.56") >>)
BODY_R1 == Frame("ECM", "BODY_R1", \h283, <<
   E("DrRLtch_RR_Stat", 0, 2, 0..3), E("DrRLtch_RL_Stat", 2, 2, 0..3), E("DrRLtch_FR_Stat", 4, 2, 0..3),
   E("DrRLtch_FL_Stat", 6, 2, 0..3), E("EF_On_Rq", 8, 2, 0..3), B("VTA_Alm_Actv", 10),
   B("ICH_HtVn_Actv", 11), E("EngHd_Stat", 12, 2, 0..3), E("DL_RLtch_Stat", 14, 2, 0..3),
   B("ADL_LoBm_On_Rq", 16), B("LgtSens_Night", 17), B("LgtSens_Flt", 18), B("LgtSens_Tunnel", 19),
   B("LgtSens_SNA", 20), N("LgtSens_Twlgt", 21, 3), B("Tire_LHOM", 25), B("WprOutsdPkPosn", 26),
   B("MPkBrk_Stat", 27), B("Term54_Actv", 28), B("Hrn_On", 29), E("Trlr_Stat", 30, 2, 0..3),
   E("RevGr_Engg", 32, 2, 0..3), B("LoBm_P_Rt_Flt", 34), B("LoBm_D_Lt_Flt", 35), B("IrLmp_P_Rt_Flt", 36),
   B("IrLmp_D_Lt_Flt", 37), B("HiBm_On", 38), B("LoBm_On_Rq", 39), S("AirTemp_Insd", 40, 8, "x0.25"),
   E("StW_Cond_Stat", 48, 2, 0..3), E("Bckl_Sw_RM_Stat_SAM_R", 50, 2, 0..3),
   E("Bckl_Sw_RR_Stat_SAM_R", 52, 2, 0..3), E("Bckl_Sw_RL_Stat_SAM_R", 54, 2, 0..3),
   S("AirTemp_Outsd", 56, 8, "x0.5-40") >>)
DAC_TCM == Frame("ECM", "DAC_TCM", \h2eb, <<
   T("DAC_TCM", 0, 64) >>)
DAC_ISM == Frame("ECM", "DAC_ISM", \h2fe, <<
   T("DAC_ISM", 0, 64) >>)
BODY_R2 == Frame("ECM", "BODY_R2", \h3c5, <<
   E("VehDrvProgSw_Psd", 0, 2, 0..3), E("StW_Cond_Actv", 2, 2, 0..3), E("SuspLvlAdjSw_Psd", 6, 2, 0..3),
   E("PTS_Sw_Psd", 8, 2, 0..3), E("NV_Sw_Psd", 12, 2, 0..3), E("ESP_Sw_Psd", 14, 2, 0..3),
   B("CoolIndLmp_On_Rq", 16), B("DL_Sw_Psd", 17), B("TX_Actv", 18), E("PKAS_Sw_Psd", 22, 2, 0..3),
   B("RLS_PosnLmp_Posn", 24), B("RLS_FogLmp_R_Posn", 25), B("RLS_FogLmp_Ft_Posn", 26), B("RLS_Red", 27),
   B("RLS_LoBm_Posn", 28), B("RLS_PkLmp_Posn_Lt", 29), B("RLS_PkLmp_Posn_Rt", 30), B("RLS_AutoPosn", 31),
   E("BSM_WarnUnit_Rt_Stat", 32, 2, 0..3), E("BSM_WarnUnit_Lt_Stat", 34, 2, 0..3), B("RLS_Init_Actv", 39),
   E("DSR_Sw_Psd", 40, 2, 0..3), E("Tlm_Sw_Psd", 42, 2, 0..3), E("Phonecall_SDS_Actv", 44, 2, 0..3),
   E("ADC_Sw_Psd", 46, 2, 0..3), E("SuspLvlAdjSw_Psd_CTRL_L", 50, 2, 0..3),
   E("ADC_Sw_Psd_CTRL_L", 52, 2, 0..3), E("OffRoadSw_Psd", 54, 2, 0..3) >>)
ECM_OBD == Frame("ECM", "ECM_OBD", \h3d0, <<
   S("AccelPdlPosn_OBD", 0, 8, "x0.3922"), S("EngLoad_OBD", 8, 8, "x0.3922"),
   B("AirTemp_Outsd_Sens_Flt", 23), E("OBD_IgnCycCntCond_Stat", 27, 2, 0..3),
   E("OBD_GnrlDenCond_Stat", 29, 2, 0..3), B("OBD_WarmupCond_Actv", 31) >>)
APPL_SG_FSCM == Frame("ECM", "APPL_SG_FSCM", \h6fc, <<
   T("APPL_SG_FSCM", 0, 64) >>)
APPL_SG_ISM == Frame("ECM", "APPL_SG_ISM", \h6ec, <<
   T("APPL_SG_ISM", 0, 64) >>)
APPL_SG_TCM == Frame("ECM", "APPL_SG_TCM", \h6e4, <<
   T("APPL_SG_TCM", 0, 64) >>)
D_RQ_FSCM == Frame("ECM", "D_RQ_FSCM", \h6fa, <<
   T("D_RQ_FSCM", 0, 64) >>)
D_RQ_ISM == Frame("ECM", "D_RQ_ISM", \h6ea, <<
   T("D_RQ_ISM", 0, 64) >>)
D_RQ_SSP == Frame("ECM", "D_RQ_SSP", \h6f2, <<
   T("D_RQ_SSP", 0, 64) >>)
D_RQ_TCM == Frame("ECM", "D_RQ_TCM", \h7e1, <<
   T("D_RQ_TCM", 0, 64) >>)
D_RQ_TSLM == Frame("ECM", "D_RQ_TSLM", \h77a, <<
   T("D_RQ_TSLM", 0, 64) >>)
DG_RQ_GLOBAL == Frame("ECM", "DG_RQ_GLOBAL", \h440, <<
   T("DG_RQ_GLOBAL", 0, 64) >>)
DG_RQ_GLOBAL_UDS == Frame("ECM", "DG_RQ_GLOBAL_UDS", \h441, <<
   T("DG_RQ_GLOBAL_UDS", 0, 64) >>)
DG_RQ_OBD == Frame("ECM", "DG_RQ_OBD", \h7df, <<
   T("DG_RQ_OBD", 0, 64) >>)
NM_ECM == Frame("ECM", "NM_ECM", \h429, <<
   E("NM_Mode", 0, 8, 252..255), N("NM_Successor", 8, 8), B("NM_Sleep_Ind", 16), B("NM_Sleep_Ack", 17),
   E("NM_Ud_Launch", 18, 6, {4, 63}), E("NM_Ud_Srv", 24, 8, {1, 2, 5, 15, 255}),
   E("WakeupRsn_ECM", 32, 8, {0, 11, 13, 130, 255}), N("WakeupCnt", 40, 8),
   E("Nw_Id", 56, 8, (4..9) \cup (14..16) \cup {11, 255}) >>)
TCM_A1 == Frame("TCM", "TCM_A1", \h2f1, <<
   S("TxOilTemp", 0, 8, "-50"), B("TCC_NoLoad", 8), E("Clutch_Stat", 9, 3, 0..7), B("TCM_LHOM", 12),
   B("BasShftProg_Ok", 13), B("DrvRst_Hi", 14), B("TxTemp_Excess", 15), B("TxOffRd_Actv", 16),
   E("TSL_Posn_TCM", 17, 3, (0..2) \cup {4, 7}), B("TxDrvProgMan_Actv", 20),
   E("VehDrvProg_TCM_V2", 21, 3, 0..7), B("StBrk_Rq_TCM", 24), N("TxDrvTrqAbsVal", 32, 16) >>)
TCM_A2 == Frame("TCM", "TCM_A2", \h2e2, <<
   S("CurrDtyCyc_Rq", 0, 8, "x0.5"), N("TxTurbineRPM", 18, 14), B("MIL_On_Rq_TCM", 32),
   N("TxSlpRPM_Dsr", 34, 14), N("TCM_Data", 48, 8), E("TCM_ErrChk_Stat", 56, 2, 0..3),
   B("TCM_CALID_CVN_Actv", 58), N("TCM_CALID_CVN_ErrNum", 59, 5) >>)
ENG_RQ1_TCM == Frame("TCM", "ENG_RQ1_TCM", \hf1, <<
   B("EngTrqMin_Rq_TCM", 0), B("EngTrqMax_Rq_TCM", 1), S("EngTrq_Rq_TCM", 3, 13, "x0.25-500"),
   E("IntrvntnMd_TCM", 16, 2, 0..3), E("TxDnShiftMd", 18, 3, 0..3),
   S("EngRPM_SyncTm_Rq_TCM", 24, 8, "x0.02"), B("SSA_Enbl_Rq_TCM", 32), N("EngRPM_Rq_TCM", 34, 14),
   N("MC_ENG_RQ1_TCM", 48, 4), B("EngSt_Enbl_Rq_TCM", 52), B("EngEmgOff_Rq", 53), B("JmpSt_Actv", 54),
   N("CRC_ENG_RQ1_TCM", 56, 8) >>)
ENG_RQ2_TCM == Frame("TCM", "ENG_RQ2_TCM", \hf3, <<
   E("Gr_Target", 0, 4, 0..15), E("Gr", 4, 4, 0..15), S("TxRatio", 8, 8, "x0.02"),
   S("EngWhlTrqRatio_TCM", 18, 14, "x0.01"), S("TxTrqLoss", 32, 8, "x0.25"), E("VehDrvStyle", 40, 2, 0..3),
   E("TxStyle", 42, 2, 0..3), E("TxMechStyle", 44, 2, 0..3), E("TxShiftStyle", 46, 2, 0..3),
   N("MC_ENG_RQ2_TCM", 48, 4), N("CRC_ENG_RQ2_TCM", 56, 8) >>)
ENG_RQ3_TCM == Frame("TCM", "ENG_RQ3_TCM", \hf4, <<
   E("DrvAccelMax_Stat", 1, 2, 0..3), S("WetDrvClutchTrq", 3, 13, "x0.25-500"), N("MC_ENG_RQ3_TCM", 48, 4),
   N("CRC_ENG_RQ3_TCM", 56, 8) >>)
SBW_RS_TCM == Frame("TCM", "SBW_RS_TCM", \h1bd, <<
   E("SBW_MsgTxmtId", 0, 2, 0..3), B("StartLkSw", 7),
   E("TxSelVlvPosn", 8, 4, (5..8) \cup (11..13) \cup {15}), E("TSL_Posn_Rq", 12, 4, (5..8) \cup {0, 15}),
   S("TxSelSensPosn", 16, 8, "x0.4"), N("MC_SBW_RS_TCM", 48, 4), N("CRC_SBW_RS_TCM", 56, 8) >>)
TCM_DAC == Frame("TCM", "TCM_DAC", \h2f0, <<
   T("TCM_DAC", 0, 64) >>)
TCM_DISP_RQ == Frame("TCM", "TCM_DISP_RQ", \h2f3, <<
   E("TxDrvPosn_Disp_Rq_TCM", 0, 8, (1..7) \cup (49..55) \cup {32, 65, 68, 70, 78, 80, 82, 255}),
   E("TxDrvProg_Disp_Rq_TCM", 8, 8, {32, 65, 67, 70, 77, 83, 87, 255}), B("SBW_Beep_Rq_TCM", 16),
   E("TxShiftRcmmnd_Disp_Rq_TCM", 17, 2, 0..3), E("SBW_Msg_Disp_Rq_TCM", 21, 3, 0..7),
   E("TSL_MtnLk2_Disp_Rq_TCM", 24, 4, (0..4) \cup (9..12)),
   E("TSL_MtnLk1_Disp_Rq_TCM", 28, 4, (0..4) \cup (9..12)),
   E("TSL_MtnLk4_Disp_Rq_TCM", 32, 4, (0..4) \cup (9..12)),
   E("TSL_MtnLk3_Disp_Rq_TCM", 36, 4, (0..4) \cup (9..12)),
   E("Gr_Target_Disp_Rq", 40, 8, (49..55) \cup {32, 70, 255}), E("RaceStMd_Disp_Rq_AMG", 48, 3, 0..7) >>)
D_RS_TCM == Frame("TCM", "D_RS_TCM", \h7e9, <<
   T("D_RS_TCM", 0, 64) >>)
SD_RS_TCM == Frame("TCM", "SD_RS_TCM", \h59c, <<
   T("SD_RS_TCM", 0, 64) >>)
SG_APPL_TCM == Frame("TCM", "SG_APPL_TCM", \h51c, <<
   T("SG_APPL_TCM", 0, 64) >>)
TCM_HSA == Frame("TCM", "TCM_HSA", \h50a, <<
   T("TCM_HSA", 0, 64) >>)
TCM_HSB == Frame("TCM", "TCM_HSB", \h50b, <<
   T("TCM_HSB", 0, 64) >>)
TCM_HSC == Frame("TCM", "TCM_HSC", \h50c, <<
   T("TCM_HSC", 0, 64) >>)
TCM_HSD == Frame("TCM", "TCM_HSD", \h50d, <<
   T("TCM_HSD", 0, 64) >>)
TCM_HSE == Frame("TCM", "TCM_HSE", \h50e, <<
   T("TCM_HSE", 0, 64) >>)
TCM_HSF == Frame("TCM", "TCM_HSF", \h50f, <<
   T("TCM_HSF", 0, 64) >>)
TCM_HSG == Frame("TCM", "TCM_HSG", \h500, <<
   T("TCM_HSG", 0, 64) >>)
TCM_HSH == Frame("TCM", "TCM_HSH", \h509, <<
   T("TCM_HSH", 0, 64) >>)
NM_TCM == Frame("TCM", "NM_TCM", \h41c, <<
   E("NM_Mode", 0, 8, 252..255), N("NM_Successor", 8, 8), B("NM_Sleep_Ind", 16), B("NM_Sleep_Ack", 17),
   E("NM_Ud_Launch", 18, 6, {4, 63}), E("NM_Ud_Srv", 24, 8, {1, 2, 5, 15, 255}),
   E("WakeupRsn_TCM", 32, 8, {0, 255}), N("WakeupCnt", 40, 8),
   E("Nw_Id", 56, 8, (4..9) \cup (14..16) \cup {11, 255}) >>)
FSCM_STAT == Frame("FSCM", "FSCM_STAT", \h2e5, <<
   S("FuelPress", 0, 8, "x0.05"), S("FuelPmpDtyCyc", 8, 8, "x0.5"), B("FuelPress_Rq_NA", 16),
   B("FuelPress_IncHydrRst", 17), E("FuelPressSens_Stat_V2", 19, 3, (0..4) \cup {7}),
   E("FuelPmp_Stat_V2", 22, 2, 0..3), S("FuelPmp1_InDtyCyc", 32, 8, "x0.5"), E("FSCM_Stat_AMG", 45, 3, 0..7),
   B("ESIM_Cntct_Stat_EngShutOff", 48), B("ESIM_Cntct_Stat", 49), N("ESIM_Cntct_ClsTm", 54, 10) >>)
D_RS_FSCM == Frame("FSCM", "D_RS_FSCM", \h49f, <<
   T("D_RS_FSCM", 0, 64) >>)
SD_RS_FSCM == Frame("FSCM", "SD_RS_FSCM", \h59f, <<
   T("SD_RS_FSCM", 0, 64) >>)
SG_APPL_FSCM == Frame("FSCM", "SG_APPL_FSCM", \h51f, <<
   T("SG_APPL_FSCM", 0, 64) >>)
NM_FSCM == Frame("FSCM", "NM_FSCM", \h41f, <<
   E("NM_Mode", 0, 8, 252..255), N("NM_Successor", 8, 8), B("NM_Sleep_Ind", 16), B("NM_Sleep_Ack", 17),
   E("NM_Ud_Launch", 18, 6, {4, 63}), E("NM_Ud_Srv", 24, 8, {1, 2, 5, 15, 255}),
   E("WakeupRsn_FSCM", 32, 8, {0, 130, 255}), N("WakeupCnt", 40, 8),
   E("Nw_Id", 56, 8, (4..9) \cup (14..16) \cup {11, 255}) >>)
SBW_RS_ISM == Frame("TSLM", "SBW_RS_ISM", \h73, <<
   B("TxDrvProgSw_Psd_V3", 1), B("TSL_MtnLk_Actv", 3), E("TSL_Posn_ISM", 4, 4, (5..13) \cup {15}),
   N("MC_SBW_RS_ISM", 48, 4), N("CRC_SBW_RS_ISM", 56, 8) >>)
D_RS_TSLM == Frame("TSLM", "D_RS_TSLM", \h4af, <<
   T("D_RS_TSLM", 0, 64) >>)
SD_RS_TSLM == Frame("TSLM", "SD_RS_TSLM", \h5af, <<
   T("SD_RS_TSLM", 0, 64) >>)
SG_APPL_TSLM == Frame("TSLM", "SG_APPL_TSLM", \h52f, <<
   T("SG_APPL_TSLM", 0, 64) >>)
NM_TSLM == Frame("TSLM", "NM_TSLM", \h42f, <<
   E("NM_Mode", 0, 8, 252..255), N("NM_Successor", 8, 8), B("NM_Sleep_Ind", 16), B("NM_Sleep_Ack", 17),
   E("NM_Ud_Launch", 18, 6, {4, 63}), E("NM_Ud_Srv", 24, 8, {1, 2, 5, 15, 255}),
   E("WakeupRsn_TSLM", 32, 8, {0, 255}), N("WakeupCnt", 40, 8),
   E("Nw_Id", 56, 8, (4..9) \cup (14..16) \cup {11, 255}) >>)
SG_A1 == Frame("ANY_ECU", "SG_A1", \h2f7, <<
   S("SG_OutDC_Curr", 0, 16, "x0.1-3276.60"), S("SG_OutDC_Volt", 16, 16, "x0.1"),
   E("EM1_Diag_Stat", 48, 8, (0..7) \cup {255}), E("SG_ErrChk_Stat", 56, 2, 0..3), B("EM1_EnhCool_Rq", 58),
   N("EM1_ErrNum", 59, 5) >>)
ISM_DISP_RQ == Frame("ANY_ECU", "ISM_DISP_RQ", \h2f5, <<
   E("TxDrvPosn_Disp_Rq_ISM", 0, 8, (1..7) \cup (49..55) \cup {32, 65, 68, 70, 78, 80, 82, 255}),
   B("SBW_Beep_Rq_ISM", 16), E("SBW_Msg_Disp_Rq_ISM", 21, 3, 0..7),
   E("TSL_MtnLk2_Disp_Rq_ISM", 24, 4, (0..4) \cup (9..12)),
   E("TSL_MtnLk1_Disp_Rq_ISM", 28, 4, (0..4) \cup (9..12)),
   E("TSL_MtnLk4_Disp_Rq_ISM", 32, 4, (0..4) \cup (9..12)),
   E("TSL_MtnLk3_Disp_Rq_ISM", 36, 4, (0..4) \cup (9..12)) >>)
ISM_DAC == Frame("ANY_ECU", "ISM_DAC", \h2f6, <<
   T("ISM_DAC", 0, 64) >>)
SSP_RS_SSP == Frame("ANY_ECU", "SSP_RS_SSP", \h381, <<
   S("CurrDtyCyc_Actl", 0, 8, "x0.5"), E("SSP_Diag_Stat", 8, 8, (0..5) \cup (128..132)),
   N("SSP_RPM", 26, 14), N("MC_SSP_RS_SSP", 48, 4), N("CRC_SSP_RS_SSP", 56, 8) >>)
D_RS_ISM == Frame("ANY_ECU", "D_RS_ISM", \h49d, <<
   T("D_RS_ISM", 0, 64) >>)
D_RS_SSP == Frame("ANY_ECU", "D_RS_SSP", \h49e, <<
   T("D_RS_SSP", 0, 64) >>)
SD_RS_ISM == Frame("ANY_ECU", "SD_RS_ISM", \h59d, <<
   T("SD_RS_ISM", 0, 64) >>)
SD_RS_SSP == Frame("ANY_ECU", "SD_RS_SSP", \h59e, <<
   T("SD_RS_SSP", 0, 64) >>)
SG_APPL_ISM == Frame("ANY_ECU", "SG_APPL_ISM", \h51d, <<
   T("SG_APPL_ISM", 0, 64) >>)
SG_APPL_ISM2 == Frame("ANY_ECU", "SG_APPL_ISM2", \h600, <<
   T("SG_APPL_ISM2", 0, 64) >>)
APPL_SG_TSLM == Frame("ANY_ECU", "APPL_SG_TSLM", \h77c, <<
   T("APPL_SG_TSLM", 0, 64) >>)
TCM_HS1 == Frame("ANY_ECU", "TCM_HS1", \h501, <<
   T("TCM_HS1", 0, 64) >>)
TCM_HS2 == Frame("ANY_ECU", "TCM_HS2", \h502, <<
   T("TCM_HS2", 0, 64) >>)
TCM_HS3 == Frame("ANY_ECU", "TCM_HS3", \h503, <<
   T("TCM_HS3", 0, 64) >>)
TCM_HS4 == Frame("ANY_ECU", "TCM_HS4", \h504, <<
   T("TCM_HS4", 0, 64) >>)
TCM_HS5 == Frame("ANY_ECU", "TCM_HS5", \h505, <<
   T("TCM_HS5", 0, 64) >>)
TCM_HS6 == Frame("ANY_ECU", "TCM_HS6", \h506, <<
   T("TCM_HS6", 0, 64) >>)
TCM_HS7 == Frame("ANY_ECU", "TCM_HS7", \h507, <<
   T("TCM_HS7", 0, 64) >>)
TCM_HS8 == Frame("ANY_ECU", "TCM_HS8", \h508, <<
   T("TCM_HS8", 0, 64) >>)
NM_FSCM2 == Frame("ANY_ECU", "NM_FSCM2", \h435, <<
   E("NM_Mode", 0, 8, 252..255), N("NM_Successor", 8, 8), B("NM_Sleep_Ind", 16), B("NM_Sleep_Ack", 17),
   E("NM_Ud_Launch", 18, 6, {4, 63}), E("NM_Ud_Srv", 24, 8, {1, 2, 5, 15, 255}),
   E("WakeupRsn_FSCM2", 32, 8, {0, 255}), N("WakeupCnt", 40, 8),
   E("Nw_Id", 56, 8, (4..9) \cup (14..16) \cup {11, 255}) >>)
NM_ISM == Frame("ANY_ECU", "NM_ISM", \h41d, <<
   E("NM_Mode", 0, 8, 252..255), N("NM_Successor", 8, 8), B("NM_Sleep_Ind", 16), B("NM_Sleep_Ack", 17),
   E("NM_Ud_Launch", 18, 6, {4, 63}), E("NM_Ud_Srv", 24, 8, {1, 2, 5, 15, 255}),
   E("WakeupRsn_ISM", 32, 8, {0, 255}), N("WakeupCnt", 40, 8),
   E("Nw_Id", 56, 8, (4..9) \cup (14..16) \cup {11, 255}) >>)
NM_SSP == Frame("ANY_ECU", "NM_SSP", \h41e, <<
   E("NM_Mode", 0, 8, 252..255), N("NM_Successor", 8, 8), B("NM_Sleep_Ind", 16), B("NM_Sleep_Ack", 17),
   E("NM_Ud_Launch", 18, 6, {4, 63}), E("NM_Ud_Srv", 24, 8, {1, 2, 5, 15, 255}),
   E("WakeupRsn_SSP", 32, 8, {0, 255}), N("WakeupCnt", 40, 8),
   E("Nw_Id", 56, 8, (4..9) \cup (14..16) \cup {11, 255}) >>)

\* The frames in the order of the table.
Frames == <<
   CTRL_U_A2, ECM_A1, ECM_A2, EIS_A1, IC_A1, IC_A3, LM_A1, SPC_A3, STW_ANGL_STAT, BRK_STAT, CGW_STAT,
   BRK_STAT2, SBW_RQ_SCCM, EPKB_STAT, HVAC_RS1, TX_RQ_SBC, ENG_RS3_PT, ENG_RS2_PT, TX_RQ_ECM, ENG_RS1_PT,
   DPM_STAT, WHL_STAT1, WHL_STAT2, PN14_STAT, CVI, VEH_DYN_STAT, BODY_R1, DAC_TCM, DAC_ISM, BODY_R2, ECM_OBD,
   APPL_SG_FSCM, APPL_SG_ISM, APPL_SG_TCM, D_RQ_FSCM, D_RQ_ISM, D_RQ_SSP, D_RQ_TCM, D_RQ_TSLM, DG_RQ_GLOBAL,
   DG_RQ_GLOBAL_UDS, DG_RQ_OBD, NM_ECM, TCM_A1, TCM_A2, ENG_RQ1_TCM, ENG_RQ2_TCM, ENG_RQ3_TCM, SBW_RS_TCM,
   TCM_DAC, TCM_DISP_RQ, D_RS_TCM, SD_RS_TCM, SG_APPL_TCM, TCM_HSA, TCM_HSB, TCM_HSC, TCM_HSD, TCM_HSE,
   TCM_HSF, TCM_HSG, TCM_HSH, NM_TCM, FSCM_STAT, D_RS_FSCM, SD_RS_FSCM, SG_APPL_FSCM, NM_FSCM, SBW_RS_ISM,
   D_RS_TSLM, SD_RS_TSLM, SG_APPL_TSLM, NM_TSLM, SG_A1, ISM_DISP_RQ, ISM_DAC, SSP_RS_SSP, D_RS_ISM, D_RS_SSP,
   SD_RS_ISM, SD_RS_SSP, SG_APPL_ISM, SG_APPL_ISM2, APPL_SG_TSLM, TCM_HS1, TCM_HS2, TCM_HS3, TCM_HS4,
   TCM_HS5, TCM_HS6, TCM_HS7, TCM_HS8, NM_FSCM2, NM_ISM, NM_SSP >>

-----------------------------------------------------------------------------
(* Reading rules. *)

Unavailable(s, v) == s.name \in {"EngCoolTemp", "EngOilTemp", "IntkAirTemp"} /\ v = 255

DecodeSignal(s, payload) ==
  IF s.kind = "iso_tp" THEN ByKind(s, {})
  ELSE IF Unavailable(s, Number(Raw(s, payload))) THEN Absent
  ELSE ByKind(s, Raw(s, payload))

\* The names the rules are keyed by.
RuleNames == {"EngCoolTemp", "EngOilTemp", "IntkAirTemp"}
=============================================================================
