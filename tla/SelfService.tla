---------------------------- MODULE SelfService ----------------------------
(***************************************************************************)
(* The structs of the service SelfService, as its generated code reads and *)
(* writes them: SelfService.cpp for the arguments and the result of every  *)
(* method, userdefined_types.cpp for the four structs of the extension.    *)
(*                                                                         *)
(* A struct is the sequence of its fields; a field's place is its id.  The *)
(* code of a struct is one loop over the fields which are there: a known   *)
(* id with the type of the field is taken, anything else is skipped        *)
(* (ServiceCall).  A binary has the type of a string.  Of a map's types    *)
(* the second one is kept: all keys are strings.                           *)
(***************************************************************************)
EXTENDS Naturals, Sequences

Scalar(n, t) == [name |-> n, type |-> t, of |-> <<>>]
Bool(n) == Scalar(n, "T_BOOL")
I32(n) == Scalar(n, "T_I32")
I64(n) == Scalar(n, "T_I64")
Str(n) == Scalar(n, "T_STRING")
Map(n, t) == [name |-> n, type |-> "T_MAP", of |-> <<t>>]
Struct(n, fields) == [name |-> n, type |-> "T_STRUCT", of |-> fields]

(* send_<method> writes the arguments, recv_<method> reads the result.     *)
Method(args, result) == [args |-> args, result |-> result]

-----------------------------------------------------------------------------
(* userdefined_types.cpp                                                   *)

ArgGetDefaultPrinterW == <<Bool("ret"), Str("pszBuffer"), I32("pcchBuffer")>>
ArgEnumPrintersW ==
    <<Bool("ret"), I32("Flags"), Str("Name"), I32("Level"),
      Str("pPrinterEnum"), I32("cbBuf"), I32("pcbNeeded"), I32("pcReturned"),
      Map("int32PrinterEnum", "T_I32")>>
ArgDocumentPropertiesW ==
    <<I32("ret"), I64("hHwnd"), I64("hPrinter"), Str("pDeviceName"),
      Str("pDevModeOutput"), Str("pDevModeInput"), I32("fMode"),
      I32("lasterror")>>
ArgGetPrinterW ==
    <<Bool("ret"), I64("hPrinter"), I32("Level"), Str("pPrinter"),
      I32("cbBuf"), I32("pcbNeeded"), Map("int32Args", "T_I32"),
      I32("lasterror")>>

-----------------------------------------------------------------------------
(* SelfService.cpp: the arguments of each method, the field its result has  *)
(* when it is set, and the client's functions for it.                      *)

OpenPrinterA_args ==
    <<Str("pPrinterName"), Bool("pDefaultExist"), Str("pDatatype"),
      Str("pDevMode"), I32("DesiredAccess")>>
OpenPrinterA_result == Map("success", "T_I64")
OpenPrinterA == Method(OpenPrinterA_args, OpenPrinterA_result)

OpenPrinterW_args ==
    <<Str("pPrinterName"), Bool("pDefaultExist"), Str("pDatatype"),
      Str("pDevMode"), I32("DesiredAccess")>>
OpenPrinterW_result == Map("success", "T_I64")
OpenPrinterW == Method(OpenPrinterW_args, OpenPrinterW_result)

StartPagePrinter_args == <<I64("hPrinter")>>
StartPagePrinter_result == Bool("success")
StartPagePrinter == Method(StartPagePrinter_args, StartPagePrinter_result)

StartDocPrinterW_args ==
    <<I64("hPrinter"), I32("Level"), Str("pDocName"), Str("pOutputFile"),
      Str("pDatatype")>>
StartDocPrinterW_result == I32("success")
StartDocPrinterW == Method(StartDocPrinterW_args, StartDocPrinterW_result)

WritePrinter_args == <<I64("hPrinter"), Str("pBuf"), I32("cbBuf")>>
WritePrinter_result == Map("success", "T_I32")
WritePrinter == Method(WritePrinter_args, WritePrinter_result)

EndPagePrinter_args == <<I64("hPrinter")>>
EndPagePrinter_result == Bool("success")
EndPagePrinter == Method(EndPagePrinter_args, EndPagePrinter_result)

EndDocPrinter_args == <<I64("hPrinter")>>
EndDocPrinter_result == Bool("success")
EndDocPrinter == Method(EndDocPrinter_args, EndDocPrinter_result)

ClosePrinter_args == <<I64("hPrinter")>>
ClosePrinter_result == Bool("success")
ClosePrinter == Method(ClosePrinter_args, ClosePrinter_result)

CloseSpoolFileHandle_args == <<I64("hPrinter"), I64("hSpoolFile")>>
CloseSpoolFileHandle_result == Bool("success")
CloseSpoolFileHandle ==
    Method(CloseSpoolFileHandle_args, CloseSpoolFileHandle_result)

CommitSpoolData_args == <<I64("hPrinter"), I64("hSpoolFile"), I32("cbCommit")>>
CommitSpoolData_result == I64("success")
CommitSpoolData == Method(CommitSpoolData_args, CommitSpoolData_result)

DocumentEvent_args ==
    <<I64("hPrinter"), I64("hdc"), I32("iEsc"), I32("cbIn"), Str("pvIn"),
      I32("cbOut"), Str("pvOut")>>
DocumentEvent_result == Map("success", "T_STRING")
DocumentEvent == Method(DocumentEvent_args, DocumentEvent_result)

DocumentPropertiesW_args == <<Struct("arg", ArgDocumentPropertiesW)>>
DocumentPropertiesW_result == Struct("success", ArgDocumentPropertiesW)
DocumentPropertiesW ==
    Method(DocumentPropertiesW_args, DocumentPropertiesW_result)

EnumFormsW_args == <<I64("hPrinter"), I32("Level"), I32("cbBuf")>>
EnumFormsW_result == Map("success", "T_STRING")
EnumFormsW == Method(EnumFormsW_args, EnumFormsW_result)

EnumPrintersW_args == <<Struct("arg", ArgEnumPrintersW)>>
EnumPrintersW_result == Struct("success", ArgEnumPrintersW)
EnumPrintersW == Method(EnumPrintersW_args, EnumPrintersW_result)

FindClosePrinterChangeNotification_args == <<I64("hChange")>>
FindClosePrinterChangeNotification_result == Bool("success")
FindClosePrinterChangeNotification ==
    Method(FindClosePrinterChangeNotification_args,
           FindClosePrinterChangeNotification_result)

FindFirstPrinterChangeNotification_args ==
    <<I64("hPrinter"), I32("fdwFilter"), I32("fdwOptions"),
      Str("pPrinterNotifyOptions")>>
FindFirstPrinterChangeNotification_result == I64("success")
FindFirstPrinterChangeNotification ==
    Method(FindFirstPrinterChangeNotification_args,
           FindFirstPrinterChangeNotification_result)

FindNextPrinterChangeNotification_args ==
    <<I64("hChange"), Str("pPrinterNotifyOptions")>>
FindNextPrinterChangeNotification_result == Map("success", "T_STRING")
FindNextPrinterChangeNotification ==
    Method(FindNextPrinterChangeNotification_args,
           FindNextPrinterChangeNotification_result)

FreePrinterNotifyInfo_args == <<Str("pPrinterNotifyInfo")>>
FreePrinterNotifyInfo_result == Bool("success")
FreePrinterNotifyInfo ==
    Method(FreePrinterNotifyInfo_args, FreePrinterNotifyInfo_result)

GetDefaultPrinterW_args == <<Struct("arg", ArgGetDefaultPrinterW)>>
GetDefaultPrinterW_result == Struct("success", ArgGetDefaultPrinterW)
GetDefaultPrinterW ==
    Method(GetDefaultPrinterW_args, GetDefaultPrinterW_result)

GetPrinterDataW_args == <<I64("hPrinter"), Str("pValueName"), I32("nSize")>>
GetPrinterDataW_result == Map("success", "T_STRING")
GetPrinterDataW == Method(GetPrinterDataW_args, GetPrinterDataW_result)

GetPrinterDataExW_args ==
    <<I64("hPrinter"), Str("pKeyName"), Str("pValueName"), I32("nSize")>>
GetPrinterDataExW_result == Map("success", "T_STRING")
GetPrinterDataExW == Method(GetPrinterDataExW_args, GetPrinterDataExW_result)

GetPrinterW_args == <<Struct("arg", ArgGetPrinterW)>>
GetPrinterW_result == Struct("success", ArgGetPrinterW)
GetPrinterW == Method(GetPrinterW_args, GetPrinterW_result)

GetSpoolFileHandle_args == <<I64("hPrinter")>>
GetSpoolFileHandle_result == I64("success")
GetSpoolFileHandle ==
    Method(GetSpoolFileHandle_args, GetSpoolFileHandle_result)

IsValidDevmodeW_args == <<Str("pDevmode"), I32("DevmodeSize")>>
IsValidDevmodeW_result == Bool("success")
IsValidDevmodeW == Method(IsValidDevmodeW_args, IsValidDevmodeW_result)

OpenPrinter2W_args ==
    <<Str("pPrinterName"), Bool("pDefaultExist"), Str("pDatatype"),
      Str("pDevMode"), I32("DesiredAccess"), Str("pOptions")>>
OpenPrinter2W_result == Map("success", "T_I64")
OpenPrinter2W == Method(OpenPrinter2W_args, OpenPrinter2W_result)

OpenPrinter2A_args ==
    <<Str("pPrinterName"), Bool("pDefaultExist"), Str("pDatatype"),
      Str("pDevMode"), I32("DesiredAccess"), Str("pOptions")>>
OpenPrinter2A_result == Map("success", "T_I64")
OpenPrinter2A == Method(OpenPrinter2A_args, OpenPrinter2A_result)

OpenUsbPort_args == <<I32("dwModel")>>
OpenUsbPort_result == I32("success")
OpenUsbPort == Method(OpenUsbPort_args, OpenUsbPort_result)

CloseUsbPort_args == <<>>
CloseUsbPort_result == I32("success")
CloseUsbPort == Method(CloseUsbPort_args, CloseUsbPort_result)

WriteUSB_args == <<Str("pBuffer"), I32("nNumberOfBytesToWrite")>>
WriteUSB_result == I32("success")
WriteUSB == Method(WriteUSB_args, WriteUSB_result)

ReadUSB_args == <<Str("pBuffer"), I32("nNumberOfByteToRead")>>
ReadUSB_result == I32("success")
ReadUSB == Method(ReadUSB_args, ReadUSB_result)

PrintBitmap_args == <<Str("pbmpDir"), Str("data")>>
PrintBitmap_result == I32("success")
PrintBitmap == Method(PrintBitmap_args, PrintBitmap_result)

Print1DBarcode_args ==
    <<I32("nCodeType"), I32("nWidth"), I32("nHeight"), I32("nHRI"),
      Str("pBuffer")>>
Print1DBarcode_result == I32("success")
Print1DBarcode == Method(Print1DBarcode_args, Print1DBarcode_result)

PrintPDF417_args ==
    <<I32("nColumns"), I32("nRows"), I32("nWidth"), I32("nHeight"),
      I32("nECLevel"), I32("nModule"), Str("pBuffer"), Str("data")>>
PrintPDF417_result == I32("success")
PrintPDF417 == Method(PrintPDF417_args, PrintPDF417_result)

PrintQRCode_args ==
    <<I32("nModule"), I32("nSize"), I32("nECLevel"), Str("pBuffer")>>
PrintQRCode_result == I32("success")
PrintQRCode == Method(PrintQRCode_args, PrintQRCode_result)
-----------------------------------------------------------------------------
(* processMap_: the methods of the service, by name.                       *)
Service == [
    OpenPrinterA |-> OpenPrinterA,
    OpenPrinterW |-> OpenPrinterW,
    StartPagePrinter |-> StartPagePrinter,
    StartDocPrinterW |-> StartDocPrinterW,
    WritePrinter |-> WritePrinter,
    EndPagePrinter |-> EndPagePrinter,
    EndDocPrinter |-> EndDocPrinter,
    ClosePrinter |-> ClosePrinter,
    CloseSpoolFileHandle |-> CloseSpoolFileHandle,
    CommitSpoolData |-> CommitSpoolData,
    DocumentEvent |-> DocumentEvent,
    DocumentPropertiesW |-> DocumentPropertiesW,
    EnumFormsW |-> EnumFormsW,
    EnumPrintersW |-> EnumPrintersW,
    FindClosePrinterChangeNotification |-> FindClosePrinterChangeNotification,
    FindFirstPrinterChangeNotification |-> FindFirstPrinterChangeNotification,
    FindNextPrinterChangeNotification |-> FindNextPrinterChangeNotification,
    FreePrinterNotifyInfo |-> FreePrinterNotifyInfo,
    GetDefaultPrinterW |-> GetDefaultPrinterW,
    GetPrinterDataW |-> GetPrinterDataW,
    GetPrinterDataExW |-> GetPrinterDataExW,
    GetPrinterW |-> GetPrinterW,
    GetSpoolFileHandle |-> GetSpoolFileHandle,
    IsValidDevmodeW |-> IsValidDevmodeW,
    OpenPrinter2W |-> OpenPrinter2W,
    OpenPrinter2A |-> OpenPrinter2A,
    OpenUsbPort |-> OpenUsbPort,
    CloseUsbPort |-> CloseUsbPort,
    WriteUSB |-> WriteUSB,
    ReadUSB |-> ReadUSB,
    PrintBitmap |-> PrintBitmap,
    Print1DBarcode |-> Print1DBarcode,
    PrintPDF417 |-> PrintPDF417,
    PrintQRCode |-> PrintQRCode]

=============================================================================
