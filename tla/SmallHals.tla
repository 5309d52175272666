------------------------------ MODULE SmallHals ------------------------------
(***************************************************************************)
(* The small parts of the hardware layer: which board the firmware sees    *)
(* (BoardConfig.h, HalGPIO::begin), the clock (HalClock.cpp), the light    *)
(* (HalFrontlight.cpp), the tilt sensor (HalTiltSensor.h) and the ports of *)
(* its servers (SimulatorNetworkPorts.h). Definitions without state;       *)
(* HalProofs proves what they promise and MCHals checks the rest.          *)
(***************************************************************************)
EXTENDS Integers, Sequences

-----------------------------------------------------------------------------
(* Boards. A build is for one of them, SIMULATOR_DEVICE_*; none is the X4. *)

Boards == {"X4", "X3", "X4Pro", "X4Classic", "Sticky"}

(* What the preprocessor tells the firmware about its build.               *)
FREEINK_MCU_C3 == {"X3", "X4"}
FREEINK_MCU_S3 == {"X4Pro", "X4Classic", "Sticky"}
FREEINK_CAP_TOUCH == {"Sticky", "X4Pro"}
FREEINK_CAP_FRONTLIGHT == {"X4Pro"}
FREEINK_CAP_WARMLIGHT == {"X4Pro"}
FREEINK_BATTERY_I2C_GAUGE == {"X3", "Sticky", "X4Pro", "X4Classic"}
FREEINK_CAP_RTC == {"X3", "Sticky", "X4Pro", "X4Classic"}
FREEINK_CAP_IMU == {"X3", "Sticky", "X4Classic"}

(* What it is told at run time. HalGPIO::begin selects the board of the    *)
(* build, and the device type with it.                                     *)
SelectDevice(build) == build
DeviceType(build) == IF build = "X3" THEN "X3" ELSE "X4"

HasTouch(active) == active \in {"X4Pro", "Sticky"}
HasHomeKey(active) == active = "X4Pro"
HasPwmFrontlight(active) == active = "X4Pro"
IsXteinkDevice(active) == active \in {"X3", "X4", "X4Classic"}
HasEdgeSideButtons(active) == active \in {"X3", "X4Pro", "X4Classic", "Sticky"}

ClockAvailable(build) == build \in {"X3", "X4Pro", "Sticky"}
TiltAvailable(build) == build = "X3"

DisplayWidth(build) == IF build = "X3" THEN 792 ELSE 800
DisplayHeight(build) == IF build = "X3" THEN 528 ELSE 480

-----------------------------------------------------------------------------
(* The clock. now is in minutes since the epoch; None is a refusal.        *)

None == <<>>

(* The remainder of C, which has the sign of a.                            *)
Rem(a, b) == IF a >= 0 THEN a % b ELSE -((-a) % b)

(* utcOffsetQuarterHoursBiased, in minutes: -12 to +14 hours.              *)
OffsetMinutes(biased) == ((IF biased > 104 THEN 104 ELSE biased) - 48) * 15

(* formatTime: the minute of the day that it writes.                       *)
ShownMinutes(now, biased) ==
  LET hour == (now \div 60) % 24
      minute == now % 60
  IN  Rem(Rem(hour * 60 + minute + OffsetMinutes(biased), 1440) + 1440, 1440)

(* formatDate: the day that it writes, counted from the epoch.             *)
ShownDay(now, biased) == (now + OffsetMinutes(biased)) \div 1440

Hour12(minutes) == LET hour == (minutes \div 60) % 12
                   IN  IF hour = 0 THEN 12 ELSE hour

(* "%02d:%02d", or "%d:%02d %s", the fields of the text                    *)
FormatTime(available, now, biased, use12Hour, bufSize) ==
  LET m == ShownMinutes(now, biased)
  IN  IF bufSize < (IF use12Hour THEN 9 ELSE 6) \/ ~available THEN None
      ELSE IF use12Hour
      THEN <<Hour12(m), m % 60, IF m \div 60 >= 12 THEN "PM" ELSE "AM">>
      ELSE <<m \div 60, m % 60>>

(* External: gmtime_r, the proleptic Gregorian calendar. Years begin in    *)
(* March here, so that the leap day is their last.                         *)
Gmtime(day) ==
  LET d == day + 719468
      era == d \div 146097
      doe == d % 146097
      yoe == (doe - doe \div 1460 + doe \div 36524 - doe \div 146096) \div 365
      doy == doe - (365 * yoe + yoe \div 4 - yoe \div 100)
      mp == (5 * doy + 2) \div 153
      month == IF mp < 10 THEN mp + 3 ELSE mp - 9
  IN  [year |-> yoe + era * 400 + (IF month <= 2 THEN 1 ELSE 0),
       month |-> month,
       day |-> doy - (153 * mp + 2) \div 5 + 1]

(* getDateTime: no offset                                                  *)
GetDateTime(available, now) ==
  IF ~available THEN None
  ELSE <<Gmtime(now \div 1440), (now \div 60) % 24, now % 60>>

DateFormats ==
  {"MONTH_DAY_YEAR_LONG", "DAY_MONTH_YEAR_LONG", "MONTH_DAY_YEAR_NUMERIC",
   "DAY_MONTH_YEAR_NUMERIC", "YEAR_MONTH_DAY_NUMERIC", "MONTH_DAY_NUMERIC",
   "DAY_MONTH_NUMERIC", "MONTH_DAY_LONG", "DAY_MONTH_LONG"}

(* The fields that formatDate writes, and between them a blank, a comma    *)
(* and a blank, or the separator.                                          *)
DateFields(format, separator) ==
  CASE format = "DAY_MONTH_YEAR_LONG" -> <<"day", " ", "Mon", " ", "year">>
    [] format = "MONTH_DAY_YEAR_NUMERIC" ->
         <<"month", separator, "day", separator, "year">>
    [] format = "DAY_MONTH_YEAR_NUMERIC" ->
         <<"day", separator, "month", separator, "year">>
    [] format = "YEAR_MONTH_DAY_NUMERIC" ->
         <<"year", separator, "month", separator, "day">>
    [] format = "MONTH_DAY_NUMERIC" -> <<"month", separator, "day">>
    [] format = "DAY_MONTH_NUMERIC" -> <<"day", separator, "month">>
    [] format = "MONTH_DAY_LONG" -> <<"Month", " ", "day">>
    [] format = "DAY_MONTH_LONG" -> <<"day", " ", "Month">>
    [] OTHER -> <<"Mon", " ", "day", ", ", "year">>

Separator(numericSeparator) ==
  IF numericSeparator \in {".", "-"} THEN numericSeparator ELSE "/"

(* The lengths of January .. December; a year has four digits.             *)
FullMonthLength == <<7, 8, 5, 5, 3, 4, 4, 6, 9, 7, 8, 8>>

FieldLength(field, date) ==
  CASE field \in {"day", "month", ", "} -> 2
    [] field = "Mon" -> 3
    [] field = "Month" -> FullMonthLength[date.month]
    [] field = "year" -> 4
    [] OTHER -> 1

FormatDate(available, now, biased, format, numericSeparator, bufSize) ==
  LET date == Gmtime(ShownDay(now, biased))
      fields == DateFields(format, Separator(numericSeparator))
  IN  IF bufSize < 13 \/ ~available THEN None
      ELSE <<[k \in DOMAIN fields |-> fields[k]], date>>

-----------------------------------------------------------------------------
(* The light: brightness, warmth and whether it is lit.                    *)

Percent100(v) == IF v > 100 THEN 100 ELSE v

DarkLight == [brightness |-> 60, warmth |-> 50, lit |-> FALSE]

LightBegin(light, active, brightness, warmth, on) ==
  IF HasPwmFrontlight(active)
  THEN [brightness |-> Percent100(brightness), warmth |-> Percent100(warmth),
        lit |-> on]
  ELSE light

SetBrightness(light, percent) ==
  [light EXCEPT !.brightness = Percent100(percent)]
SetWarmth(light, percent) == [light EXCEPT !.warmth = Percent100(percent)]

SetOn(light, active, on) ==
  [light EXCEPT !.lit = HasPwmFrontlight(active) /\ on]

-----------------------------------------------------------------------------
(* Ports. configured is the number in CROSSPOINT_SIM_HTTP_PORT, and 0 when *)
(* there is none or the text is no number.                                 *)

DEFAULT_HTTP_PORT == 8080
MIN_UNPRIVILEGED_PORT == 1024
MAX_HTTP_PORT == 65534

HttpPort(configured) ==
  IF configured < MIN_UNPRIVILEGED_PORT \/ configured > MAX_HTTP_PORT
  THEN DEFAULT_HTTP_PORT ELSE configured

MapFirmwarePort(configured, port) ==
  IF port = 80 THEN HttpPort(configured)
  ELSE IF port = 81 THEN HttpPort(configured) + 1
  ELSE port
=============================================================================
