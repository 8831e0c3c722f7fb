CONSTANTS
  good = good
  refused = refused
  long = long
  Chunks = 1
  MaxLosses = 1
  Keys = {"wifi_ssid", "wifi_pass"}
  Values = {good, refused, long}
  TooLong = {long}
  Refused = {refused}
  Bodies <- FewBodies
  Unset = Unset
  MaxFaults = 1
SPECIFICATION DeviceFairSpec
INVARIANTS DeviceTypeOK GoodImageIsReachable UploadsCanBegin PrintedTokenStays
PROPERTIES UploadedImageBoots StartUsesSaved GoodImageFailsForCause DeviceComesBack UploadEnds
