\* One task in and out of the WRR class, whose weight a capable caller sets.
SPECIFICATION Spec
CONSTANTS
  t1 = t1
  c1 = c1
  Target = {t1}
  Caller = {c1}
  Capable = {c1}
  Owner = {}
  Policy = {"NORMAL", "WRR"}
  Priority = {0, 1, 2}
  RlimitRtprio = 0
  RlimitNice = 1
  MAX_USER_RT_PRIO = 3
  MinNice = 0
  MaxNice = 0
  Increment = {}
  Keep = Keep
PROPERTY ParamAdjustsWeight
